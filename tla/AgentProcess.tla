---------------------------- MODULE AgentProcess ----------------------------
(* The picoagent process: start-up with its retries, the goroutine that reads *)
(* messages from standard input, the message loop with its idle timer and     *)
(* signals, and the end: memory evolution and its audit record.               *)
(* cmd/picoagent/main.go; the messages come from sandbox.Manager: the first   *)
(* with the process, others through SendInput while it runs.                  *)
EXTENDS Naturals, Sequences, SequencesExt

CONSTANT MaxMsgs    \* bound: messages sent to the process

VARIABLES pc,       \* main: start, wait, turn, evolve, audit, ended
          attempts, \* requests for the configuration
          pipe,     \* written to standard input, not yet read
          reader,   \* the reading goroutine: "read", "hand", "gone"
          inHand,   \* what it hands over: a message, EOF or Bad
          inputCh,  \* channel of one
          closed,   \* standard input
          signal,   \* none, cancelled
          sent, handled,
          why,      \* why the loop ended
          changed,  \* evolution found changes
          evolveCtx,\* the context of the evolution: live, cancelled
          audited

vars == <<pc, attempts, pipe, reader, inHand, inputCh, closed, signal, sent,
          handled, why, changed, evolveCtx, audited>>
EOF == MaxMsgs + 1
Bad == 0
input == <<pipe, reader, inHand, inputCh>>

Init == /\ pc = "start" /\ attempts = 0 /\ pipe = <<>> /\ reader = "none" /\ inHand = 0
        /\ inputCh = <<>> /\ closed = FALSE /\ signal = FALSE /\ sent = 0 /\ handled = <<>>
        /\ why = "none" /\ changed = FALSE /\ audited = FALSE /\ evolveCtx = "live"

(* The manager writes a message; it closes standard input at its end.         *)
Send == /\ sent < MaxMsgs /\ ~closed
        /\ sent' = sent + 1 /\ pipe' = Append(pipe, sent')
        /\ UNCHANGED <<pc, attempts, reader, inHand, inputCh, closed, signal, handled, why, changed, evolveCtx, audited>>

CloseStdin == /\ ~closed /\ sent > 0 /\ closed' = TRUE
              /\ UNCHANGED <<pc, attempts, input, signal, sent, handled, why, changed, evolveCtx, audited>>

(* fetchConfigWithRetry: three attempts, and only a connection error is       *)
(* followed by another; then the process starts to read and to beat, or exits *)
(* with an error event (errorExit).                                           *)
FetchConfig ==
    /\ pc = "start" /\ attempts' = attempts + 1
    /\ \/ pc' = "wait" /\ reader' = "read" /\ why' = why
       \/ attempts' < 3 /\ UNCHANGED <<pc, reader, why>>
       \/ pc' = "ended" /\ why' = "no configuration" /\ reader' = reader
    /\ UNCHANGED <<pipe, inHand, inputCh, closed, signal, sent, handled, changed, evolveCtx, audited>>

(* Mutant: of the messages read with it, the first is lost.                   *)
ReadInput_first ==
    /\ reader = "read" /\ pipe # <<>> /\ reader' = "hand"
    /\ inHand' = Last(pipe) /\ pipe' = Front(pipe)
    /\ UNCHANGED <<pc, attempts, inputCh, closed, signal, sent, handled, why, changed, evolveCtx, audited>>

(* readInputFrom decodes one value with a decoder of its own; what else that  *)
(* decoder had read from the pipe goes with it: some whole messages, and      *)
(* perhaps part of the next, which then does not parse.                       *)
ReadInput ==
    /\ reader = "read" /\ pipe # <<>> /\ reader' = "hand"
    /\ inHand' = Head(pipe)
    /\ \E k \in 2..(Len(pipe) + 1), broken \in BOOLEAN :
          /\ broken => k <= Len(pipe)
          /\ pipe' = IF broken THEN <<Bad>> \o SubSeq(pipe, k + 1, Len(pipe)) ELSE SubSeq(pipe, k, Len(pipe))
    /\ UNCHANGED <<pc, attempts, inputCh, closed, signal, sent, handled, why, changed, evolveCtx, audited>>

ReadEnds == /\ reader = "read" /\ pipe = <<>> /\ closed /\ reader' = "hand" /\ inHand' = EOF
            /\ UNCHANGED <<pc, attempts, pipe, inputCh, closed, signal, sent, handled, why, changed, evolveCtx, audited>>

(* The channel holds one; a message that does not parse is an error, and  *)
(* after an error the goroutine ends.                                         *)
HandOver == /\ reader = "hand" /\ inputCh = <<>> /\ inputCh' = <<inHand>>
            /\ reader' = IF inHand \in {EOF, Bad} THEN "gone" ELSE "read"
            /\ UNCHANGED <<pc, attempts, pipe, inHand, closed, signal, sent, handled, why, changed, evolveCtx, audited>>

(* The loop takes a message, which is saved and processed, or the error.      *)
TakeMessage ==
    /\ pc = "wait" /\ inputCh # <<>> /\ inputCh' = <<>>
    /\ IF Head(inputCh) \in {EOF, Bad}
       THEN pc' = "evolve" /\ why' = (IF Head(inputCh) = Bad THEN "unreadable" ELSE "EOF") /\ UNCHANGED handled
       ELSE pc' = "turn" /\ handled' = Append(handled, Head(inputCh)) /\ UNCHANGED why
    /\ UNCHANGED <<attempts, pipe, reader, inHand, closed, signal, sent, changed, evolveCtx, audited>>

(* A turn ends with an answer or an error (AgentEngine), and the loop goes on. *)
TurnEnds == /\ pc = "turn" /\ pc' = "wait"
            /\ UNCHANGED <<attempts, input, closed, signal, sent, handled, why, changed, evolveCtx, audited>>

(* Ten minutes without a message.                                             *)
Idle == /\ pc = "wait" /\ inputCh = <<>> /\ pc' = "evolve" /\ why' = "idle"
        /\ UNCHANGED <<attempts, input, closed, signal, sent, handled, changed, evolveCtx, audited>>

(* A signal cancels what runs; two seconds later the process exits, wherever  *)
(* it is.  The loop may see the signal or a message first.                    *)
Signal == /\ ~signal /\ pc \in {"wait", "turn"} /\ signal' = TRUE
          /\ UNCHANGED <<pc, attempts, input, closed, sent, handled, why, changed, evolveCtx, audited>>
SeeSignal == /\ pc = "wait" /\ signal /\ pc' = "evolve" /\ why' = "signal"
             /\ UNCHANGED <<attempts, input, closed, signal, sent, handled, changed, evolveCtx, audited>>
HardExit == /\ signal /\ pc \notin {"start", "ended"} /\ pc' = "ended" /\ why' = "signal"
            /\ UNCHANGED <<attempts, input, closed, signal, sent, handled, changed, evolveCtx, audited>>

(* The conversation is over: the memory evolves (MemoryEvolution) under a     *)
(* context of thirty seconds, which is cancelled once that is done.           *)
Evolve == /\ pc = "evolve" /\ changed' \in BOOLEAN /\ evolveCtx' = "cancelled"
          /\ pc' = IF changed' THEN "audit" ELSE "ended"
          /\ UNCHANGED <<attempts, input, closed, signal, sent, handled, why, audited>>

(* postAuditLog runs under that same context: a request of a cancelled        *)
(* context fails before it is sent, and so does waiting for the retry.  With  *)
(* a live one the server would answer.                                        *)
PostAudit == /\ pc = "audit" /\ pc' = "ended" /\ audited' = (evolveCtx = "live")
             /\ UNCHANGED <<attempts, input, closed, signal, sent, handled, why, changed, evolveCtx>>

Next == \/ Send \/ CloseStdin \/ FetchConfig \/ ReadInput \/ ReadEnds \/ HandOver
        \/ TakeMessage \/ TurnEnds \/ Idle \/ Signal \/ SeeSignal \/ HardExit \/ Evolve \/ PostAudit
(* The process takes its steps; a turn ends; nobody must send, close or signal. *)
Fairness == /\ WF_vars(FetchConfig) /\ WF_vars(ReadInput \/ ReadEnds) /\ WF_vars(HandOver)
            /\ WF_vars(TakeMessage \/ Idle) /\ WF_vars(TurnEnds) /\ WF_vars(SeeSignal \/ HardExit)
            /\ WF_vars(Evolve) /\ WF_vars(PostAudit)
Spec == Init /\ [][Next]_vars /\ Fairness

---------------------------------------------------------------------------
(* Messages are handled in the order they were sent, each once.               *)
InOrder == \A i, j \in DOMAIN handled : i < j => handled[i] < handled[j]

(* A process that saw the end of its input has handled all of it - if each    *)
(* message was sent when the last had been read, and so none crowds the pipe. *)
LastRead == pipe = <<>> /\ (reader = "read" \/ sent = 0)
EveryMessageRead == pc = "ended" /\ why \in {"EOF", "unreadable"} => Len(handled) = sent

(* The audit record of an evolution that changed something is written to the  *)
(* database ("通过审计端点写入 DB", main.go), when nothing interrupts it.       *)
AuditPosted == pc = "ended" /\ changed /\ ~signal => audited

(* A process ends: the idle timer is the last resort.                         *)
ProcessEnds == <>(pc = "ended")
=============================================================================
