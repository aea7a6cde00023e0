------------------------------ MODULE ChatRuns ------------------------------
(***************************************************************************)
(* The registry of one user's chat runs in internal/web/chat_stream.go:    *)
(* the maps userRun (the current run) and activeRuns (the runs a stream    *)
(* can be opened on), as a new message, the goroutine of each run, the     *)
(* stop handler and the cleaner of stale runs use them.  No lock is held   *)
(* over two uses of the maps.  Both maps are keyed by user or hold runs of *)
(* one user, so users do not interfere here.                               *)
(*                                                                         *)
(* A sandbox waits for the user's lock (UserLock), runs and ends; its      *)
(* inside is module Sandbox, the events of a run are module ChatStream.    *)
(***************************************************************************)
EXTENDS Naturals, FiniteSets

CONSTANTS MaxRuns,      \* bound: messages
          Senders       \* requests that send a message at a time

ASSUME RunsAssumption == MaxRuns \in Nat

Runs == 1..MaxRuns

VARIABLES started,    \* runs created so far, numbered in order
          userRun,    \* the user's entry in userRun, 0 for none
          activeRuns, \* the runs listed in activeRuns
          cancelled,  \* the runs whose context is cancelled
          done,       \* the runs that are marked done
          sandbox,    \* the sandbox of each run
          saved,      \* the runs whose events are in events.jsonl
          unsaved,    \* finished runs that have still to persist
          send,       \* where each sender is: its step and its run
          cleaner     \* the run that cleanStaleRuns found stale, 0 for none

maps == <<userRun, activeRuns>>
files == <<saved, unsaved>>
vars == <<started, maps, cancelled, done, sandbox, files, send, cleaner>>

Idle == [step |-> "idle", run |-> 0]

Init == /\ started = 0
        /\ userRun = 0 /\ activeRuns = {}
        /\ cancelled = {} /\ done = {}
        /\ sandbox = [r \in Runs |-> "none"]
        /\ saved = {} /\ unsaved = {}
        /\ send = [s \in Senders |-> Idle]
        /\ cleaner = 0

Alive(r) == sandbox[r] \in {"waiting", "running"}

-----------------------------------------------------------------------------
(* startChatSandbox                                                        *)

\* A message that leaves the current run alone.
CancelPrevious_not(s) ==
    /\ send[s] = Idle /\ started < MaxRuns
    /\ send' = [send EXCEPT ![s].step = "create"]
    /\ UNCHANGED <<started, maps, cancelled, done, sandbox, files, cleaner>>

\* The current run is cancelled, and its sandbox with it.
CancelPrevious(s) ==
    /\ send[s] = Idle /\ started < MaxRuns
    /\ cancelled' = IF userRun # 0 THEN cancelled \union {userRun} ELSE cancelled
    /\ send' = [send EXCEPT ![s].step = "create"]
    /\ UNCHANGED <<started, maps, done, sandbox, files, cleaner>>

CreateRun(s) ==
    /\ send[s].step = "create" /\ started < MaxRuns
    /\ started' = started + 1
    /\ activeRuns' = activeRuns \union {started + 1}
    /\ send' = [send EXCEPT ![s] = [step |-> "register", run |-> started + 1]]
    /\ UNCHANGED <<userRun, cancelled, done, sandbox, files, cleaner>>

\* userRun.Store, and the goroutine that asks for a sandbox.
RegisterRun(s) ==
    /\ send[s].step = "register"
    /\ userRun' = send[s].run
    /\ sandbox' = [sandbox EXCEPT ![send[s].run] = "waiting"]
    /\ send' = [send EXCEPT ![s] = Idle]
    /\ UNCHANGED <<started, activeRuns, cancelled, done, files, cleaner>>

-----------------------------------------------------------------------------
(* The goroutine of a run                                                  *)

\* One sandbox of the user at a time; a cancelled one may still get in.
SandboxStarts(r) ==
    /\ sandbox[r] = "waiting"
    /\ \A q \in Runs : sandbox[q] # "running"
    /\ sandbox' = [sandbox EXCEPT ![r] = "running"]
    /\ UNCHANGED <<started, maps, cancelled, done, files, send, cleaner>>

\* A context that only a running sandbox looks at: a waiting one sits it out.
SandboxKilled_running(r) ==
    /\ sandbox[r] = "running" /\ r \in cancelled
    /\ sandbox' = [sandbox EXCEPT ![r] = "over"]
    /\ UNCHANGED <<started, maps, cancelled, done, files, send, cleaner>>

\* Cancelling ends the wait for the lock and kills a sandbox that runs.
SandboxKilled(r) ==
    /\ Alive(r) /\ r \in cancelled
    /\ sandbox' = [sandbox EXCEPT ![r] = "over"]
    /\ UNCHANGED <<started, maps, cancelled, done, files, send, cleaner>>

\* The agent ends, or the wait for the lock times out, or the start fails.
SandboxEnds(r) ==
    /\ Alive(r) /\ r \notin cancelled
    /\ sandbox' = [sandbox EXCEPT ![r] = "over"]
    /\ UNCHANGED <<started, maps, cancelled, done, files, send, cleaner>>

\* chatRun.finish: CompareAndDelete.
Finish(r) == /\ done' = done \union {r}
             /\ userRun' = IF userRun = r THEN 0 ELSE userRun

FinishRun(r) == /\ sandbox[r] = "over"
                /\ Finish(r)
                /\ sandbox' = [sandbox EXCEPT ![r] = "gone"]
                /\ unsaved' = unsaved \union {r}
                /\ UNCHANGED <<started, activeRuns, cancelled, saved, send, cleaner>>

\* persistRunEvents creates the file anew, with the events of this run.
Persist(r) == /\ r \in unsaved
              /\ saved' = {r}
              /\ unsaved' = unsaved \ {r}
              /\ UNCHANGED <<started, maps, cancelled, done, sandbox, send, cleaner>>

\* Five minutes after finish.
Forget(r) ==
    /\ r \in activeRuns /\ r \in done
    /\ activeRuns' = activeRuns \ {r}
    /\ UNCHANGED <<started, userRun, cancelled, done, sandbox, files, send, cleaner>>

-----------------------------------------------------------------------------
(* The stop handler and the cleaner                                        *)

Stop == /\ userRun # 0
        /\ cancelled' = cancelled \union {userRun}
        /\ UNCHANGED <<started, maps, done, sandbox, files, send, cleaner>>

\* Is the run stale, having outlived staleRunTimeout?  Looked at under its lock,
\* which is then released.  A run half an hour old has been registered.
FindStale(r) ==
    /\ cleaner = 0 /\ r \in activeRuns /\ r \notin done
    /\ sandbox[r] # "none"
    /\ cleaner' = r
    /\ UNCHANGED <<started, maps, cancelled, done, sandbox, files, send>>

FinishStale ==
    /\ cleaner # 0
    /\ Finish(cleaner)
    /\ activeRuns' = activeRuns \ {cleaner}
    /\ cleaner' = 0
    /\ UNCHANGED <<started, cancelled, sandbox, files, send>>

-----------------------------------------------------------------------------
Next == \/ \E s \in Senders : CancelPrevious(s) \/ CreateRun(s) \/ RegisterRun(s)
        \/ \E r \in Runs : \/ SandboxStarts(r) \/ SandboxKilled(r) \/ SandboxEnds(r)
                           \/ FinishRun(r) \/ Persist(r) \/ Forget(r) \/ FindStale(r)
        \/ Stop \/ FinishStale

Spec == Init /\ [][Next]_vars

\* A cancelled sandbox is killed, the goroutines go on, timers fire.  Nothing
\* makes an agent that is not cancelled end.
Fairness == /\ \A s \in Senders : WF_vars(CreateRun(s)) /\ WF_vars(RegisterRun(s))
            /\ \A r \in Runs : /\ WF_vars(SandboxKilled(r)) /\ WF_vars(FinishRun(r))
                               /\ WF_vars(Persist(r)) /\ WF_vars(Forget(r))
            /\ WF_vars(FinishStale)
LiveSpec == Spec /\ Fairness

-----------------------------------------------------------------------------
(* Properties                                                              *)

TypeOK == /\ started \in 0..MaxRuns /\ userRun \in 0..started
          /\ activeRuns \subseteq 1..started
          /\ cancelled \subseteq 1..started /\ done \subseteq 1..started
          /\ sandbox \in [Runs -> {"none", "waiting", "running", "over", "gone"}]
          /\ \A r \in Runs : r > started => sandbox[r] = "none"
          /\ unsaved \subseteq done /\ saved \subseteq done \ unsaved
          /\ cleaner \in 0..started

\* A sandbox that is not cancelled is one that the user can stop: it is the
\* current run, which "stop" and the next message cancel ("when the user sends
\* a new message, cancel the sandbox that is running", chat_stream.go:165).
Reachable == \A r \in Runs : Alive(r) => r = userRun \/ r \in cancelled

\* While a sandbox lives a browser can open the stream of its run.
Streamable == \A r \in Runs : Alive(r) => r \in activeRuns

\* "No conversation is running" (the stop handler's answer when the user has
\* no current run, chat_stream.go:495): no sandbox is left that nobody stops.
NothingLeft == userRun = 0 => \A r \in Runs : Alive(r) => r \in cancelled

\* What handleChatActive answers: "whether there is an active conversation"
\* (chat_stream.go:339), that is, a run that is not over.
ReportsActive == userRun # 0 \/ activeRuns # {}
ActiveIsReal == ReportsActive => \E r \in Runs : r <= started /\ r \notin done

\* The events that "rebuild the complete state of the conversation"
\* (handlers.go:504): those of every run that has persisted them.
HistoryComplete == done \ unsaved \subseteq saved

\* A run that is stopped or replaced ends, with its stream.
CancelledEnds == \A r \in Runs : r \in cancelled ~> r \in done /\ ~Alive(r)
=============================================================================
