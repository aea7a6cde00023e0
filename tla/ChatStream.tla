------------------------------ MODULE ChatStream ------------------------------
(***************************************************************************)
(* One chatRun of internal/web/chat_stream.go: the goroutine that appends  *)
(* the sandbox's events and finishes the run, the stream handlers of the   *)
(* clients that subscribe, reconnect and leave, and the cleaner of stale   *)
(* runs.  The critical sections of chatRun.mu are atomic; everything       *)
(* between two of them interleaves.  A send or a close on a closed channel *)
(* panics in a goroutine nobody recovers, and the server process dies.     *)
(***************************************************************************)
EXTENDS Naturals, Sequences

CONSTANTS Clients,
          NumEvents,  \* bound: events the sandbox emits
          Hidden,     \* the numbers of those of type stderr
          MaxEvents,  \* maxEventsPerRun
          NotifCap    \* capacity of a notification channel, 64

VARIABLES producer,   \* the goroutine of startChatSandbox
          produced,   \* events appended so far
          events,     \* chatRun.events
          done,       \* chatRun.done
          subs,       \* chatRun.subs
          listed,     \* the run is in activeRuns
          cleaner,    \* where cleanStaleRuns is with this run
          crashed,    \* the process has panicked
          pc,         \* the handler of each client
          notif,      \* tokens in the client's channel
          closed,     \* the client's channel is closed
          next,       \* position of the next event to write
          upto,       \* the handler's cursor: end of the batch it writes
          ending,     \* the handler writes its last batch
          sent        \* history: what this connection was sent

runVars == <<producer, produced, events, done, subs, listed, cleaner, crashed>>
clientVars == <<pc, next, upto, ending, sent>>
vars == <<runVars, clientVars, notif, closed>>

Init == /\ producer = "running"
        /\ produced = 0
        /\ events = <<>>
        /\ done = FALSE
        /\ subs = {}
        /\ listed = TRUE
        /\ cleaner = "idle"
        /\ crashed = FALSE
        /\ pc = [c \in Clients |-> "out"]
        /\ notif = [c \in Clients |-> 0]
        /\ closed = [c \in Clients |-> FALSE]
        /\ next = [c \in Clients |-> 1]
        /\ upto = [c \in Clients |-> 0]
        /\ ending = [c \in Clients |-> FALSE]
        /\ sent = [c \in Clients |-> <<>>]

-----------------------------------------------------------------------------
(* The run: append and finish                                              *)

\* Past the limit the event is dropped, and the subscribers are told all the
\* same.  A full channel drops the token, not the event.
AppendEvent ==
    /\ producer = "running" /\ produced < NumEvents
    /\ produced' = produced + 1
    /\ events' = IF Len(events) < MaxEvents THEN Append(events, produced + 1) ELSE events
    /\ notif' = [c \in Clients |->
                    IF c \in subs /\ notif[c] < NotifCap THEN notif[c] + 1 ELSE notif[c]]
    /\ crashed' = (\E c \in subs : closed[c])
    /\ UNCHANGED <<producer, done, subs, listed, cleaner, clientVars, closed>>

\* chatRun.finish, up to its unlock.
Finish ==
    /\ done' = TRUE
    /\ closed' = [c \in Clients |-> closed[c] \/ c \in subs]
    /\ subs' = {}
    /\ crashed' = (\E c \in subs : closed[c])

\* A run finished at its first error event, although its loop goes on.
ProducerFinish_early ==
    /\ producer = "running"
    /\ producer' = IF produced < NumEvents THEN "running" ELSE "exited"
    /\ Finish
    /\ UNCHANGED <<produced, events, listed, cleaner, clientVars, notif>>

ProducerFinish ==
    /\ producer = "running"
    /\ producer' = "exited"
    /\ Finish
    /\ UNCHANGED <<produced, events, listed, cleaner, clientVars, notif>>

\* The entry is deleted five minutes after finish.
Forget == /\ done /\ listed
          /\ listed' = FALSE
          /\ UNCHANGED <<producer, produced, events, done, subs, cleaner, crashed,
                         clientVars, notif, closed>>

-----------------------------------------------------------------------------
(* cleanStaleRuns, for a run that has outlived staleRunTimeout: the check  *)
(* is one critical section, finish another                                 *)

CleanerCheck == /\ cleaner = "idle" /\ listed /\ ~done
                /\ cleaner' = "stale"
                /\ UNCHANGED <<producer, produced, events, done, subs, listed, crashed,
                               clientVars, notif, closed>>

CleanerFinish == /\ cleaner = "stale"
                 /\ cleaner' = "finished"
                 /\ Finish
                 /\ UNCHANGED <<producer, produced, events, listed, clientVars, notif>>

CleanerDelete == /\ cleaner = "finished"
                 /\ cleaner' = "idle"
                 /\ listed' = FALSE
                 /\ UNCHANGED <<producer, produced, events, done, subs, crashed,
                                clientVars, notif, closed>>

-----------------------------------------------------------------------------
(* handleChatStream                                                        *)

\* The handler finds the run in activeRuns; a reconnect starts here too.
Lookup(c) == /\ pc[c] \in {"out", "ended"} /\ listed
             /\ pc' = [pc EXCEPT ![c] = "found"]
             /\ UNCHANGED <<runVars, next, upto, ending, sent, notif, closed>>

\* A subscription to a finished run that is not told so.
Subscribe_ignoresDone(c) ==
    /\ pc[c] = "found"
    /\ pc' = [pc EXCEPT ![c] = "serve"]
    /\ subs' = subs \union {c}
    /\ closed' = [closed EXCEPT ![c] = FALSE]
    /\ notif' = [notif EXCEPT ![c] = IF events # <<>> THEN 1 ELSE 0]
    /\ next' = [next EXCEPT ![c] = 1]
    /\ upto' = [upto EXCEPT ![c] = Len(events)]
    /\ ending' = [ending EXCEPT ![c] = FALSE]
    /\ sent' = [sent EXCEPT ![c] = <<>>]
    /\ UNCHANGED <<producer, produced, events, done, listed, cleaner, crashed>>

\* subscribe: a new channel, in subs even when the run is already done.
Subscribe(c) ==
    /\ pc[c] = "found"
    /\ pc' = [pc EXCEPT ![c] = "serve"]
    /\ subs' = subs \union {c}
    /\ closed' = [closed EXCEPT ![c] = done]
    /\ notif' = [notif EXCEPT ![c] = IF ~done /\ events # <<>> THEN 1 ELSE 0]
    /\ next' = [next EXCEPT ![c] = 1]
    /\ upto' = [upto EXCEPT ![c] = Len(events)]
    /\ ending' = [ending EXCEPT ![c] = FALSE]
    /\ sent' = [sent EXCEPT ![c] = <<>>]
    /\ UNCHANGED <<producer, produced, events, done, listed, cleaner, crashed>>

\* writeSSE: events of type stderr are not sent.
WriteEvent(c) ==
    /\ pc[c] = "serve" /\ next[c] <= upto[c]
    /\ sent' = [sent EXCEPT ![c] = IF events[next[c]] \in Hidden THEN @
                                   ELSE Append(@, events[next[c]])]
    /\ next' = [next EXCEPT ![c] = @ + 1]
    /\ UNCHANGED <<runVars, pc, upto, ending, notif, closed>>

BatchDone(c) == pc[c] = "serve" /\ next[c] > upto[c] /\ ~ending[c]

\* A cursor that is not moved to the end of the batch it fetched: the handler
\* goes back over the last event.
Receive_rereads(c) ==
    /\ BatchDone(c) /\ notif[c] > 0
    /\ notif' = [notif EXCEPT ![c] = @ - 1]
    /\ upto' = [upto EXCEPT ![c] = Len(events)]
    /\ next' = [next EXCEPT ![c] = IF @ > 1 THEN @ - 1 ELSE @]
    /\ UNCHANGED <<runVars, pc, ending, sent, closed>>

\* A token came: fetch all events past the cursor.
Receive(c) ==
    /\ BatchDone(c) /\ notif[c] > 0
    /\ notif' = [notif EXCEPT ![c] = @ - 1]
    /\ upto' = [upto EXCEPT ![c] = Len(events)]
    /\ UNCHANGED <<runVars, pc, next, ending, sent, closed>>

\* The channel is closed and drained: the rest of the events is the last batch.
Closing(c) ==
    /\ BatchDone(c) /\ notif[c] = 0 /\ closed[c]
    /\ upto' = [upto EXCEPT ![c] = Len(events)]
    /\ ending' = [ending EXCEPT ![c] = TRUE]
    /\ UNCHANGED <<runVars, pc, next, sent, notif, closed>>

\* The browser goes away, in the middle of a batch or between two.
ClientGone(c) == /\ pc[c] = "serve"
                 /\ pc' = [pc EXCEPT ![c] = "leave"]
                 /\ UNCHANGED <<runVars, next, upto, ending, sent, notif, closed>>

\* The deferred unsubscribe, when the handler returns.
Unsubscribe(c) ==
    /\ \/ pc[c] = "leave"
       \/ pc[c] = "serve" /\ ending[c] /\ next[c] > upto[c]
    /\ pc' = [pc EXCEPT ![c] = IF @ = "leave" THEN "out" ELSE "ended"]
    /\ subs' = subs \ {c}
    /\ UNCHANGED <<producer, produced, events, done, listed, cleaner, crashed,
                   next, upto, ending, sent, notif, closed>>

-----------------------------------------------------------------------------
Handler(c) == \/ Subscribe(c) \/ WriteEvent(c) \/ Receive(c) \/ Closing(c)
              \/ Unsubscribe(c)

Next == /\ ~crashed
        /\ \/ AppendEvent \/ ProducerFinish \/ Forget
           \/ CleanerCheck \/ CleanerFinish \/ CleanerDelete
           \/ \E c \in Clients : Lookup(c) \/ Handler(c) \/ ClientGone(c)

\* Handlers run; nothing obliges the sandbox to emit, the run to end or a
\* client to come, stay or leave.
Running(c) == ~crashed /\ Handler(c)
Fairness == \A c \in Clients : WF_vars(Running(c))

Spec == Init /\ [][Next]_vars
LiveSpec == Spec /\ Fairness

-----------------------------------------------------------------------------
(* Properties                                                              *)

TypeOK == /\ producer \in {"running", "exited"}
          /\ produced \in 0..NumEvents
          /\ events \in Seq(1..NumEvents) /\ Len(events) <= MaxEvents
          /\ done \in BOOLEAN /\ listed \in BOOLEAN /\ crashed \in BOOLEAN
          /\ subs \subseteq Clients
          /\ cleaner \in {"idle", "stale", "finished"}
          /\ pc \in [Clients -> {"out", "found", "serve", "leave", "ended"}]
          /\ notif \in [Clients -> 0..NotifCap]
          /\ closed \in [Clients -> BOOLEAN]
          /\ next \in [Clients -> Nat] /\ upto \in [Clients -> 0..Len(events)]
          /\ ending \in [Clients -> BOOLEAN]
          /\ sent \in [Clients -> Seq(1..NumEvents)]

\* Events are numbered in the order in which they are emitted; those that a
\* stream shows of the first n.
Shown(log, n) == {log[k] : k \in 1..n} \ Hidden
Lists(s, log, n) == /\ {s[i] : i \in 1..Len(s)} = Shown(log, n)
                    /\ \A i, j \in 1..Len(s) : i < j => s[i] < s[j]

\* A connection has been sent the events up to its cursor, each once and in
\* order, whatever the producer appended meanwhile (replay and incremental
\* reads of handleChatStream meet without a gap).
SentInOrder == \A c \in Clients : pc[c] \in {"serve", "leave", "ended"} =>
                   Lists(sent[c], events, next[c] - 1)

\* No append or finish meets a closed channel in subs: the process lives.
NoPanic == ~crashed

\* "cleanStaleRuns cleans up dead sessions" (chat_stream.go:63): a run is
\* marked done only when its sandbox goroutine has ended it.
DoneIsDead == done => producer = "exited"

\* What was appended reaches every connection that stays, even if the run
\* never ends and however many tokens were dropped.
KeepsUp == \A c \in Clients, k \in 1..MaxEvents :
    pc[c] = "serve" /\ Len(events) >= k ~> next[c] > k \/ pc[c] # "serve" \/ crashed

\* When the run is done no connection hangs.
StreamsEnd == \A c \in Clients :
    done /\ pc[c] = "serve" ~> pc[c] # "serve" \/ crashed

\* The streams implement ChatLog.
at == [c \in Clients |-> IF pc[c] = "serve" THEN "reading"
                         ELSE IF pc[c] = "ended" THEN "whole" ELSE "away"]
Log == INSTANCE ChatLog WITH Events <- 1..NumEvents, log <- Shown(events, Len(events)),
                             over <- producer = "exited", got <- sent
ImplementsLog == Log!Spec
=============================================================================
