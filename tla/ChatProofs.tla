------------------------------ MODULE ChatProofs ------------------------------
(* Proofs about the chat path, for any senders, clients and bounds.  Each     *)
(* module of MCChat has an inductive invariant of its own: RunsInv, for one   *)
(* sender whose runs nobody finds stale; StreamInv, for any run; Alone, for a *)
(* run that nobody finds stale, and with it the refinement of ChatLog; and    *)
(* ReplyInv.  What stands still while another part moves keeps its invariant. *)
EXTENDS MCChat, SequenceTheorems, TLAPS

-----------------------------------------------------------------------------
(* ChatRuns: whose run is alive when messages come one after another.         *)

RunTypes == /\ started \in 0..MaxRuns /\ userRun \in 0..started
            /\ activeRuns \subseteq 1..started /\ done \subseteq 1..started
            /\ sandbox \in [Runs -> {"none", "waiting", "running", "over", "gone"}]
            /\ \A r \in Runs : r > started => sandbox[r] = "none"
            /\ send \in [Senders -> [step : {"idle", "create", "register"}, run : 0..started]]
            /\ cleaner = 0

OneSends == \A s \in Senders \ {OneSender} : send[s] = Idle

\* A run is marked done by its own goroutine, which ends with it.
DoneIsGone == \A r \in done : sandbox[r] = "gone"

\* From the cancellation to the registration nothing is left to stop.
Cleared == send[OneSender] # Idle => userRun = 0 \/ userRun \in cancelled

\* The run to be registered is the last one, and listed.
Created == send[OneSender].step = "register" =>
               /\ send[OneSender].run = started /\ started \in activeRuns /\ started >= 1
               /\ sandbox[started] = "none"

\* Steps of a sender have a run or not.
Stepping == send[OneSender].step = "idle" => send[OneSender] = Idle

RunsInv == RunTypes /\ OneSends /\ DoneIsGone /\ Cleared /\ Created /\ Stepping /\ Reachable /\ Streamable

\* The conjuncts of RunsInv, by name.
LEMMA RunsParts ==
    RunsInv => /\ RunTypes /\ OneSends /\ DoneIsGone /\ Cleared /\ Created /\ Stepping
               /\ Reachable /\ Streamable
  BY DEF RunsInv

\* At the start there is no run and nobody sends.
LEMMA RunsStart == Init => RunsInv
<1> SUFFICES ASSUME Init PROVE RunsInv
  OBVIOUS
<1>1. RunTypes
  BY RunsAssumption DEF Init, RunTypes, Idle
<1> QED
  BY <1>1, ChatAssumption DEF Init, RunsInv, OneSends, DoneIsGone, Cleared, Created, Stepping, Reachable,
     Streamable, Alive, Idle

\* A message cancels the run before it.
LEMMA CancelPreviousStep ==
    ASSUME RunsInv, CancelPrevious(OneSender)
    PROVE  RunsInv'
<1>0. RunTypes /\ OneSends /\ DoneIsGone /\ Cleared /\ Created /\ Stepping /\ Reachable /\ Streamable
  BY RunsParts
<1>1. /\ UNCHANGED <<started, userRun, activeRuns, done, sandbox, saved, unsaved, cleaner>>
      /\ cancelled' = IF userRun # 0 THEN cancelled \union {userRun} ELSE cancelled
      /\ send' = [send EXCEPT ![OneSender].step = "create"] /\ send[OneSender] = Idle
  BY DEF CancelPrevious, maps, files
<1>2. /\ send' \in [Senders -> [step : {"idle", "create", "register"}, run : 0..started]]
      /\ send'[OneSender].step = "create" /\ \A s \in Senders \ {OneSender} : send'[s] = send[s]
  BY <1>0, <1>1, ChatAssumption DEF RunTypes
<1>3. RunTypes'
  BY <1>0, <1>1, <1>2 DEF RunTypes
<1> QED
  BY <1>0, <1>1, <1>2, <1>3 DEF RunsInv, OneSends, DoneIsGone, Cleared, Created, Stepping, Reachable, Streamable, Alive

\* A new run is listed.
LEMMA CreateRunStep ==
    ASSUME RunsInv, CreateRun(OneSender)
    PROVE  RunsInv'
<1>0. RunTypes /\ OneSends /\ DoneIsGone /\ Cleared /\ Created /\ Stepping /\ Reachable /\ Streamable
  BY RunsParts
<1> DEFINE new == [step |-> "register", run |-> started + 1]
<1>1. /\ UNCHANGED <<userRun, cancelled, done, sandbox, saved, unsaved, cleaner>>
      /\ started < MaxRuns /\ started' = started + 1
      /\ activeRuns' = activeRuns \union {started + 1}
      /\ send' = [send EXCEPT ![OneSender] = new] /\ send[OneSender].step = "create"
  BY DEF CreateRun, files
<1>2. /\ started \in Nat /\ started + 1 \in Runs /\ started' \in 0..MaxRuns
      /\ 0..started \subseteq 0..started' /\ 1..started \subseteq 1..started' /\ started' \in 1..started'
      /\ started' \in Nat /\ started' >= 1
      /\ \A r \in Runs : r > started' => r > started
      /\ sandbox[started'] = "none"
  BY <1>0, <1>1, RunsAssumption DEF RunTypes, Runs
<1>3. new \in [step : {"idle", "create", "register"}, run : 0..started'] /\ new.step = "register" /\ new.run = started'
  BY <1>1, <1>2
<1> HIDE DEF new
<1>4. /\ send' \in [Senders -> [step : {"idle", "create", "register"}, run : 0..started']]
      /\ send'[OneSender] = new /\ \A s \in Senders \ {OneSender} : send'[s] = send[s]
  BY <1>0, <1>1, <1>2, <1>3, ChatAssumption DEF RunTypes
<1>5. RunTypes'
  <2>1. activeRuns' \subseteq 1..started' /\ done' \subseteq 1..started' /\ userRun' \in 0..started'
    BY <1>0, <1>1, <1>2 DEF RunTypes
  <2>2. /\ sandbox' \in [Runs -> {"none", "waiting", "running", "over", "gone"}] /\ cleaner' = 0
        /\ \A r \in Runs : r > started' => sandbox'[r] = "none"
    BY <1>0, <1>1, <1>2 DEF RunTypes
  <2> QED
    BY <1>2, <1>4, <2>1, <2>2 DEF RunTypes
<1>6. Reachable' /\ Streamable' /\ DoneIsGone'
  BY <1>0, <1>1 DEF Reachable, Streamable, DoneIsGone, Alive
<1>7. Cleared' /\ Created' /\ Stepping' /\ OneSends'
  <2>1. send[OneSender] # Idle
    BY <1>1 DEF Idle
  <2> QED
    BY <1>0, <1>1, <1>2, <1>3, <1>4, <2>1 DEF Cleared, Created, Stepping, OneSends
<1> QED
  BY <1>5, <1>6, <1>7 DEF RunsInv

\* The new run becomes the user's run and asks for a sandbox.
LEMMA RegisterRunStep ==
    ASSUME RunsInv, RegisterRun(OneSender)
    PROVE  RunsInv'
<1>0. RunTypes /\ OneSends /\ DoneIsGone /\ Cleared /\ Created /\ Stepping /\ Reachable /\ Streamable
  BY RunsParts
<1>1. /\ UNCHANGED <<started, activeRuns, cancelled, done, saved, unsaved, cleaner>>
      /\ send[OneSender].step = "register" /\ userRun' = send[OneSender].run
      /\ sandbox' = [sandbox EXCEPT ![send[OneSender].run] = "waiting"]
      /\ send' = [send EXCEPT ![OneSender] = Idle]
  BY DEF RegisterRun, files
<1>2. send[OneSender].run = started /\ started \in activeRuns /\ sandbox[started] = "none" /\ started >= 1
  BY <1>0, <1>1 DEF Created
<1>3. started \in Runs /\ started \in Nat
  BY <1>0, <1>2, RunsAssumption DEF RunTypes, Runs
<1>4. /\ sandbox' \in [Runs -> {"none", "waiting", "running", "over", "gone"}] /\ sandbox'[started] = "waiting"
      /\ \A r \in Runs : r # started => sandbox'[r] = sandbox[r]
  BY <1>0, <1>1, <1>2, <1>3 DEF RunTypes
<1>5. /\ Idle \in [step : {"idle", "create", "register"}, run : 0..started] /\ Idle.step = "idle"
  BY <1>3 DEF Idle
<1>6. /\ send' \in [Senders -> [step : {"idle", "create", "register"}, run : 0..started]]
      /\ send'[OneSender] = Idle /\ \A s \in Senders \ {OneSender} : send'[s] = send[s]
  BY <1>0, <1>1, <1>5, ChatAssumption DEF RunTypes
<1>7. RunTypes'
  <2>1. userRun' \in 0..started' /\ started' \in 0..MaxRuns
    BY <1>0, <1>1, <1>2, <1>3 DEF RunTypes
  <2>2. \A r \in Runs : r > started' => sandbox'[r] = "none"
    BY <1>0, <1>1, <1>3, <1>4 DEF RunTypes, Runs
  <2> QED
    BY <1>0, <1>1, <1>4, <1>6, <2>1, <2>2 DEF RunTypes
<1>8. Cleared' /\ Created' /\ Stepping' /\ OneSends'
  BY <1>0, <1>5, <1>6 DEF Cleared, Created, Stepping, OneSends
<1>9. DoneIsGone'
  <2>1. \A r \in done : r # started /\ r \in Runs
    BY <1>0, <1>2, <1>3, RunsAssumption DEF RunTypes, DoneIsGone, Runs
  <2> QED
    BY <1>0, <1>1, <1>4, <2>1 DEF DoneIsGone
<1>10. Reachable' /\ Streamable'
  <2> SUFFICES ASSUME NEW r \in Runs, Alive(r)'
               PROVE  (r = userRun' \/ r \in cancelled') /\ r \in activeRuns'
    BY DEF Reachable, Streamable
  <2>1. CASE r = started
    BY <1>1, <1>2, <2>1
  <2>2. CASE r # started
    <3>1. Alive(r)
      BY <1>4, <2>2 DEF Alive
    <3>2. r \in activeRuns /\ (r = userRun \/ r \in cancelled)
      BY <1>0, <3>1 DEF Reachable, Streamable
    <3>3. send[OneSender] # Idle /\ r # 0
      BY <1>1 DEF Idle, Runs
    <3> QED
      BY <1>0, <1>1, <3>2, <3>3 DEF Cleared
  <2> QED
    BY <2>1, <2>2
<1> QED
  BY <1>7, <1>8, <1>9, <1>10 DEF RunsInv

\* A sandbox starts, is killed or ends.
LEMMA SandboxStep ==
    ASSUME RunsInv, NEW r \in Runs, SandboxStarts(r) \/ SandboxKilled(r) \/ SandboxEnds(r)
    PROVE  RunsInv'
<1>0. RunTypes /\ OneSends /\ DoneIsGone /\ Cleared /\ Created /\ Stepping /\ Reachable /\ Streamable
  BY RunsParts
<1>1. /\ UNCHANGED <<started, userRun, activeRuns, cancelled, done, saved, unsaved, send, cleaner>>
      /\ Alive(r)
  BY DEF SandboxStarts, SandboxKilled, SandboxEnds, maps, files, Alive
<1>2. PICK where \in {"running", "over"} : sandbox' = [sandbox EXCEPT ![r] = where]
  BY DEF SandboxStarts, SandboxKilled, SandboxEnds
<1>3. /\ sandbox' \in [Runs -> {"none", "waiting", "running", "over", "gone"}] /\ sandbox'[r] = where
      /\ \A q \in Runs : q # r => sandbox'[q] = sandbox[q]
      /\ sandbox[r] \in {"waiting", "running"}
  BY <1>0, <1>1, <1>2 DEF RunTypes, Alive
<1>4. RunTypes'
  BY <1>0, <1>1, <1>3 DEF RunTypes
<1>5. Cleared' /\ Stepping' /\ OneSends'
  BY <1>0, <1>1 DEF Cleared, Stepping, OneSends
<1>6. Created'
  <2>1. send[OneSender].step = "register" => started \in Runs /\ started # r
    BY <1>0, <1>3, RunsAssumption DEF Created, RunTypes, Runs
  <2> QED
    BY <1>0, <1>1, <1>3, <2>1 DEF Created
<1>7. DoneIsGone'
  <2>1. \A q \in done : q # r /\ q \in Runs
    BY <1>0, <1>3, RunsAssumption DEF RunTypes, DoneIsGone, Runs
  <2> QED
    BY <1>0, <1>1, <1>3, <2>1 DEF DoneIsGone
<1>8. Reachable' /\ Streamable'
  BY <1>0, <1>1, <1>3 DEF Reachable, Streamable, Alive
<1> QED
  BY <1>4, <1>5, <1>6, <1>7, <1>8 DEF RunsInv

\* A run is finished once its sandbox is over.
LEMMA FinishRunStep ==
    ASSUME RunsInv, NEW r \in Runs, FinishRun(r)
    PROVE  RunsInv'
<1>0. RunTypes /\ OneSends /\ DoneIsGone /\ Cleared /\ Created /\ Stepping /\ Reachable /\ Streamable
  BY RunsParts
<1>1. /\ UNCHANGED <<started, activeRuns, cancelled, saved, send, cleaner>> /\ sandbox[r] = "over"
      /\ done' = done \union {r} /\ userRun' = IF userRun = r THEN 0 ELSE userRun
      /\ sandbox' = [sandbox EXCEPT ![r] = "gone"]
  BY DEF FinishRun, Finish
<1>3. /\ sandbox' \in [Runs -> {"none", "waiting", "running", "over", "gone"}] /\ sandbox'[r] = "gone"
      /\ \A q \in Runs : q # r => sandbox'[q] = sandbox[q]
  BY <1>0, <1>1 DEF RunTypes
<1>4. r \in 1..started /\ started \in Nat
  BY <1>0, <1>1, RunsAssumption DEF RunTypes, Runs
<1>5. RunTypes'
  <2>1. userRun' \in 0..started' /\ done' \subseteq 1..started'
    BY <1>0, <1>1, <1>4 DEF RunTypes
  <2>2. \A q \in Runs : q > started' => sandbox'[q] = "none"
    BY <1>0, <1>1, <1>3, <1>4 DEF RunTypes
  <2> QED
    BY <1>0, <1>1, <1>3, <2>1, <2>2 DEF RunTypes
<1>6. Cleared' /\ Stepping' /\ OneSends'
  BY <1>0, <1>1 DEF Cleared, Stepping, OneSends
<1>7. Created'
  <2>1. send[OneSender].step = "register" => started \in Runs /\ started # r
    BY <1>0, <1>1, RunsAssumption DEF Created, RunTypes, Runs
  <2> QED
    BY <1>0, <1>1, <1>3, <2>1 DEF Created
<1>8. DoneIsGone'
  <2>1. \A q \in done : q \in Runs
    BY <1>0, RunsAssumption DEF RunTypes, Runs
  <2> QED
    BY <1>0, <1>1, <1>3, <2>1 DEF DoneIsGone
<1>9. Reachable' /\ Streamable'
  BY <1>0, <1>1, <1>3 DEF Reachable, Streamable, Alive
<1> QED
  BY <1>5, <1>6, <1>7, <1>8, <1>9 DEF RunsInv

\* The events are written, the entry of the run is forgotten, or the user stops it.
LEMMA RunEndsStep ==
    ASSUME RunsInv, (\E r \in Runs : Persist(r) \/ Forget(r)) \/ Stop
    PROVE  RunsInv'
<1>0. RunTypes /\ OneSends /\ DoneIsGone /\ Cleared /\ Created /\ Stepping /\ Reachable /\ Streamable
  BY RunsParts
<1>1. /\ UNCHANGED <<started, userRun, done, sandbox, send, cleaner>>
      /\ cancelled \subseteq cancelled'
  BY DEF Persist, Forget, Stop, maps, files
<1>2. \/ activeRuns' = activeRuns
      \/ \E r \in done : activeRuns' = activeRuns \ {r}
  BY DEF Persist, Forget, Stop, maps
<1>3. RunTypes'
  BY <1>0, <1>1, <1>2 DEF RunTypes
<1>4. Cleared' /\ Stepping' /\ OneSends' /\ DoneIsGone' /\ Reachable'
  BY <1>0, <1>1 DEF Cleared, Stepping, OneSends, DoneIsGone, Reachable, Alive
<1>5. Created' /\ Streamable'
  <2>1. \A r \in done : ~Alive(r) /\ sandbox[r] # "none"
    BY <1>0 DEF DoneIsGone, Alive
  <2>2. CASE activeRuns' = activeRuns
    BY <1>0, <1>1, <2>2 DEF Created, Streamable, Alive
  <2>3. CASE \E r \in done : activeRuns' = activeRuns \ {r}
    BY <1>0, <1>1, <2>1, <2>3 DEF Created, Streamable, Alive
  <2> QED
    BY <1>2, <2>2, <2>3
<1> QED
  BY <1>3, <1>4, <1>5 DEF RunsInv

\* Every step of one sender's runs, while the cleaner finds none stale.
LEMMA RunsStep ==
    ASSUME RunsInv, [Next /\ cleaner' = 0 /\ \A s \in Senders \ {OneSender} : send'[s] = Idle]_runsVars
    PROVE  RunsInv'
<1>0. RunTypes /\ OneSends
  BY RunsParts
<1>1. CASE UNCHANGED runsVars
  BY <1>1 DEF runsVars, vars, maps, files, RunsInv, RunTypes, OneSends, DoneIsGone, Cleared, Created, Stepping,
              Reachable, Streamable, Alive
<1>2. CASE Next /\ cleaner' = 0 /\ \A s \in Senders \ {OneSender} : send'[s] = Idle
  <2>1. ASSUME NEW s \in Senders, CancelPrevious(s) \/ CreateRun(s) \/ RegisterRun(s) PROVE s = OneSender
    <3> SUFFICES ASSUME s # OneSender PROVE FALSE
      OBVIOUS
    <3>1. send[s] = Idle /\ send'[s] = Idle
      BY <1>0, <1>2 DEF OneSends
    <3>2. CancelPrevious(s)
      BY <2>1, <3>1 DEF CreateRun, RegisterRun, Idle
    <3>3. send' = [send EXCEPT ![s].step = "create"]
      BY <3>2 DEF CancelPrevious
    <3>4. send'[s].step = "create"
      BY <1>0, <3>3 DEF RunTypes
    <3> QED
      BY <3>1, <3>4 DEF Idle
  <2>2. CASE \E s \in Senders : CancelPrevious(s) \/ CreateRun(s) \/ RegisterRun(s)
    BY <2>1, <2>2, CancelPreviousStep, CreateRunStep, RegisterRunStep
  <2>3. CASE \E r \in Runs : SandboxStarts(r) \/ SandboxKilled(r) \/ SandboxEnds(r)
    BY <2>3, SandboxStep
  <2>4. CASE \E r \in Runs : FinishRun(r)
    BY <2>4, FinishRunStep
  <2>5. CASE (\E r \in Runs : Persist(r) \/ Forget(r)) \/ Stop
    BY <2>5, RunEndsStep
  <2>6. CASE FinishStale
    BY <1>0, <2>6 DEF FinishStale, RunTypes
  <2>7. CASE \E r \in Runs : FindStale(r)
    BY <1>2, <2>7 DEF FindStale, Runs
  <2> QED
    BY <1>2, <2>2, <2>3, <2>4, <2>5, <2>6, <2>7 DEF Next
<1> QED
  BY <1>1, <1>2

-----------------------------------------------------------------------------
(* ChatStream: where the handlers of a run's clients are in its events.       *)

StreamTypes ==
    /\ producer \in {"running", "exited"} /\ produced \in 0..NumEvents
    /\ events \in Seq(1..NumEvents) /\ streamDone \in BOOLEAN
    /\ subs \subseteq Clients /\ pc \in [Clients -> {"out", "found", "serve", "leave", "ended"}]
    /\ closed \in [Clients -> BOOLEAN] /\ ending \in [Clients -> BOOLEAN]
    /\ next \in [Clients -> Nat] /\ upto \in [Clients -> Nat]
    /\ sent \in [Clients -> Seq(1..NumEvents)]

\* Events are numbered; only those past the limit are dropped.
Numbered == /\ Len(events) <= produced /\ (Len(events) < MaxEvents => Len(events) = produced)
            /\ \A k \in 1..Len(events) : events[k] = k

\* A handler writes within the batch it has fetched.
Fetched == \A c \in Clients : 1 <= next[c] /\ next[c] <= upto[c] + 1 /\ upto[c] <= Len(events)

StreamInv == StreamTypes /\ Numbered /\ Fetched /\ Stream!SentInOrder

\* What only a run that nobody finds stale can promise: its own goroutine
\* finishes it, no channel is closed before, and a handler that writes its
\* last batch has fetched all events.
Alone == /\ streamCleaner = "idle" /\ ~crashed
         /\ (producer = "running" <=> ~streamDone)
         /\ \A c \in Clients : closed[c] => streamDone
         /\ \A c \in Clients : pc[c] = "serve" /\ ending[c] => streamDone /\ upto[c] = Len(events)

\* At the start there are no events and no clients.
LEMMA StreamStart == Stream!Init => StreamInv /\ Alone
<1> SUFFICES ASSUME Stream!Init PROVE StreamInv /\ Alone
  OBVIOUS
<1>1. events = <<>> /\ Len(events) = 0 /\ produced = 0 /\ events \in Seq(1..NumEvents)
  BY DEF Stream!Init
<1>2. \A c \in Clients : pc[c] = "out" /\ next[c] = 1 /\ upto[c] = 0 /\ closed[c] = FALSE
  BY DEF Stream!Init
<1>3. sent \in [Clients -> Seq(1..NumEvents)]
  <2>1. sent = [c \in Clients |-> <<>>] /\ <<>> \in Seq(1..NumEvents)
    BY DEF Stream!Init
  <2> QED
    BY <2>1
<1>4. StreamTypes
  <2>1. produced \in 0..NumEvents
    BY <1>1, ChatAssumption
  <2> QED
    BY <1>1, <1>3, <2>1 DEF Stream!Init, StreamTypes
<1>5. Numbered /\ Fetched /\ Stream!SentInOrder
  BY <1>1, <1>2 DEF Numbered, Fetched, Stream!SentInOrder
<1>6. Alone
  BY <1>2 DEF Alone, Stream!Init
<1> QED
  BY <1>4, <1>5, <1>6 DEF StreamInv

\* Events that are appended leave what was listed as it was.
LEMMA ListsKept ==
    ASSUME NEW s, NEW log, NEW longer, NEW n \in Nat, \A k \in 1..n : longer[k] = log[k]
    PROVE  Stream!Lists(s, longer, n) <=> Stream!Lists(s, log, n)
<1>1. {longer[k] : k \in 1..n} = {log[k] : k \in 1..n}
  OBVIOUS
<1> QED
  BY <1>1 DEF Stream!Lists, Stream!Shown

\* One more event that is shown, or not.
LEMMA ListsNext ==
    ASSUME NEW log, NEW n \in Nat \ {0}, \A k \in 1..n : log[k] = k,
           NEW s \in Seq(Nat), Stream!Lists(s, log, n - 1)
    PROVE  Stream!Lists(IF n \in Hidden THEN s ELSE Append(s, n), log, n)
<1>1. /\ {s[i] : i \in 1..Len(s)} = Stream!Shown(log, n - 1)
      /\ \A i, j \in 1..Len(s) : i < j => s[i] < s[j]
  BY DEF Stream!Lists
<1>2. \A i \in 1..Len(s) : s[i] < n
  <2> TAKE i \in 1..Len(s)
  <2>1. PICK k \in 1..(n - 1) : s[i] = log[k]
    BY <1>1 DEF Stream!Shown
  <2>2. log[k] = k
    OBVIOUS
  <2> QED
    BY <2>1, <2>2
<1>3. Stream!Shown(log, n) = Stream!Shown(log, n - 1) \union ({n} \ Hidden)
  <2>1. 1..n = 1..(n - 1) \union {n}
    OBVIOUS
  <2> QED
    BY <2>1 DEF Stream!Shown
<1>4. CASE n \in Hidden
  BY <1>1, <1>3, <1>4 DEF Stream!Lists
<1>5. CASE n \notin Hidden
  <2> DEFINE now == Append(s, n)
  <2>1. now \in Seq(Nat) /\ Len(now) = Len(s) + 1 /\ Len(s) \in Nat
    OBVIOUS
  <2>2. now[Len(now)] = n /\ \A i \in 1..Len(s) : now[i] = s[i]
    OBVIOUS
  <2>3. 1..Len(now) = 1..Len(s) \union {Len(now)}
    BY <2>1
  <2> HIDE DEF now
  <2>4. {now[i] : i \in 1..Len(now)} = {s[i] : i \in 1..Len(s)} \union {n}
    <3>1. ASSUME NEW i \in 1..Len(now) PROVE now[i] \in {s[j] : j \in 1..Len(s)} \union {n}
      BY <2>2, <2>3, <3>1
    <3>2. ASSUME NEW i \in 1..Len(s) PROVE s[i] \in {now[j] : j \in 1..Len(now)}
      BY <2>2, <2>3, <3>2
    <3>3. n \in {now[j] : j \in 1..Len(now)}
      BY <2>2, <2>3
    <3> QED
      BY <3>1, <3>2, <3>3
  <2>5. ASSUME NEW i \in 1..Len(now), NEW j \in 1..Len(now), i < j PROVE now[i] < now[j]
    <3>1. i \in 1..Len(s)
      BY <2>1, <2>5
    <3>2. CASE j = Len(now)
      BY <1>2, <2>2, <3>1, <3>2
    <3>3. CASE j \in 1..Len(s)
      BY <1>1, <2>2, <2>5, <3>1, <3>3
    <3> QED
      BY <2>3, <3>2, <3>3
  <2>6. Stream!Lists(now, log, n)
    BY <1>1, <1>3, <1>5, <2>4, <2>5 DEF Stream!Lists
  <2> QED
    BY <1>5, <2>6 DEF now
<1> QED
  BY <1>4, <1>5

\* Nothing is listed of nothing.
LEMMA ListsNone == \A log : Stream!Lists(<<>>, log, 0)
  BY DEF Stream!Lists, Stream!Shown

\* append: the event is added, or dropped past the limit.
LEMMA AppendEventStep ==
    ASSUME StreamInv, Stream!AppendEvent
    PROVE  StreamInv'
<1>0. StreamTypes /\ Numbered /\ Fetched /\ Stream!SentInOrder
  BY DEF StreamInv
<1>1. /\ produced < NumEvents /\ produced' = produced + 1
      /\ events' = IF Len(events) < MaxEvents THEN Append(events, produced + 1) ELSE events
      /\ UNCHANGED <<producer, streamDone, subs, pc, next, upto, ending, sent, closed>>
  BY DEF Stream!AppendEvent, Stream!clientVars
<1>2. /\ produced \in Nat /\ produced' \in 0..NumEvents /\ produced + 1 \in 1..NumEvents
      /\ Len(events) \in Nat
  BY <1>0, <1>1, ChatAssumption DEF StreamTypes
<1>3. CASE Len(events) < MaxEvents
  <2>1. /\ events' = Append(events, produced + 1) /\ events' \in Seq(1..NumEvents)
        /\ Len(events') = Len(events) + 1 /\ Len(events) = produced
        /\ events'[Len(events) + 1] = produced + 1
        /\ \A k \in 1..Len(events) : events'[k] = events[k]
    BY <1>0, <1>1, <1>2, <1>3 DEF StreamTypes, Numbered
  <2>2. StreamTypes'
    BY <1>0, <1>1, <1>2, <2>1 DEF StreamTypes
  <2>3. Numbered'
    <3>1. Len(events') <= produced' /\ Len(events') = produced'
      BY <1>1, <1>2, <2>1
    <3>2. ASSUME NEW k \in 1..Len(events') PROVE events'[k] = k
      BY <1>0, <1>2, <2>1, <3>2 DEF Numbered
    <3> QED
      BY <3>1, <3>2 DEF Numbered
  <2>4. Fetched'
    <3>1. \A c \in Clients : upto[c] \in Nat /\ next[c] \in Nat
      BY <1>0 DEF StreamTypes
    <3> QED
      BY <1>0, <1>1, <1>2, <2>1, <3>1 DEF Fetched
  <2>5. Stream!SentInOrder'
    <3> SUFFICES ASSUME NEW c \in Clients, pc[c] \in {"serve", "leave", "ended"}
                 PROVE  Stream!Lists(sent[c], events', next[c] - 1)
      BY <1>1 DEF Stream!SentInOrder
    <3>1. PICK n \in Nat : n = next[c] - 1 /\ n <= Len(events)
      BY <1>0, <1>2 DEF Fetched, StreamTypes
    <3>2. \A k \in 1..n : events'[k] = events[k]
      BY <1>2, <2>1, <3>1
    <3>3. Stream!Lists(sent[c], events, n)
      BY <1>0, <3>1 DEF Stream!SentInOrder
    <3> QED
      BY <3>1, <3>2, <3>3, ListsKept
  <2> QED
    BY <2>2, <2>3, <2>4, <2>5 DEF StreamInv
<1>4. CASE ~(Len(events) < MaxEvents)
  <2>1. events' = events
    BY <1>1, <1>4
  <2>2. StreamTypes' /\ Fetched' /\ Stream!SentInOrder'
    BY <1>0, <1>1, <1>2, <2>1 DEF StreamTypes, Fetched, Stream!SentInOrder
  <2>3. Numbered'
    BY <1>0, <1>1, <1>2, <1>4, <2>1, ChatAssumption DEF Numbered
  <2> QED
    BY <2>2, <2>3 DEF StreamInv
<1> QED
  BY <1>3, <1>4

\* The steps of the run and of the cleaner that touch no event and no handler.
LEMMA RunKeeps ==
    ASSUME StreamInv, UNCHANGED <<produced, events, pc, next, upto, ending, sent>>,
           producer' \in {"running", "exited"}, streamDone' \in BOOLEAN, subs' \subseteq Clients,
           closed' \in [Clients -> BOOLEAN]
    PROVE  StreamInv'
  BY DEF StreamInv, StreamTypes, Numbered, Fetched, Stream!SentInOrder

\* A client subscribes and starts from the first event.
LEMMA SubscribeStep ==
    ASSUME StreamInv, NEW c \in Clients, Stream!Subscribe(c)
    PROVE  StreamInv'
<1>0. StreamTypes /\ Numbered /\ Fetched /\ Stream!SentInOrder
  BY DEF StreamInv
<1>1. /\ UNCHANGED <<producer, produced, events, streamDone>>
      /\ pc' = [pc EXCEPT ![c] = "serve"] /\ subs' = subs \union {c}
      /\ closed' = [closed EXCEPT ![c] = streamDone] /\ next' = [next EXCEPT ![c] = 1]
      /\ upto' = [upto EXCEPT ![c] = Len(events)] /\ ending' = [ending EXCEPT ![c] = FALSE]
      /\ sent' = [sent EXCEPT ![c] = <<>>]
  BY DEF Stream!Subscribe
<1>2. Len(events) \in Nat /\ <<>> \in Seq(1..NumEvents) /\ Len(<<>>) = 0
  BY <1>0 DEF StreamTypes
<1>3. /\ next'[c] = 1 /\ upto'[c] = Len(events) /\ sent'[c] = <<>>
      /\ \A d \in Clients : d # c => /\ pc'[d] = pc[d] /\ next'[d] = next[d]
                                     /\ upto'[d] = upto[d] /\ sent'[d] = sent[d]
  BY <1>0, <1>1 DEF StreamTypes
<1>4. StreamTypes'
  BY <1>0, <1>1, <1>2 DEF StreamTypes
<1>5. Numbered' /\ Fetched'
  BY <1>0, <1>1, <1>2, <1>3 DEF Numbered, Fetched
<1>6. Stream!SentInOrder'
  <2>1. ASSUME NEW d \in Clients, d # c, pc'[d] \in {"serve", "leave", "ended"}
        PROVE  Stream!Lists(sent'[d], events', next'[d] - 1)
    BY <1>0, <1>1, <1>3, <2>1 DEF Stream!SentInOrder
  <2>2. Stream!Lists(sent'[c], events', next'[c] - 1)
    <3>1. next'[c] - 1 = 0
      BY <1>3
    <3> QED
      BY <1>3, <3>1, ListsNone
  <2> QED
    BY <2>1, <2>2 DEF Stream!SentInOrder
<1> QED
  BY <1>4, <1>5, <1>6 DEF StreamInv

\* The next event is written, unless it is of type stderr.
LEMMA WriteStep ==
    ASSUME StreamInv, NEW c \in Clients, Stream!WriteEvent(c)
    PROVE  StreamInv'
<1>0. StreamTypes /\ Numbered /\ Fetched /\ Stream!SentInOrder
  BY DEF StreamInv
<1>n. PICK n \in Nat : n = next[c]
  BY <1>0 DEF StreamTypes
<1>1. /\ UNCHANGED <<producer, produced, events, streamDone, subs, pc, closed, upto, ending>>
      /\ pc[c] = "serve" /\ n <= upto[c] /\ next' = [next EXCEPT ![c] = n + 1]
      /\ sent' = [sent EXCEPT ![c] = IF events[n] \in Hidden THEN sent[c] ELSE Append(sent[c], events[n])]
  BY <1>n DEF Stream!WriteEvent, Stream!runVars
<1>2. Len(events) \in Nat /\ n \in 1..Len(events) /\ upto[c] \in Nat
  BY <1>0, <1>1, <1>n DEF StreamTypes, Fetched
<1>3. /\ events[n] = n /\ n \in 1..NumEvents /\ n \in Nat \ {0}
      /\ \A k \in 1..n : events[k] = k
  BY <1>0, <1>2, ChatAssumption DEF StreamTypes, Numbered
<1>4. sent[c] \in Seq(1..NumEvents) /\ sent[c] \in Seq(Nat) /\ Stream!Lists(sent[c], events, n - 1)
  BY <1>0, <1>1, <1>n, ChatAssumption DEF StreamTypes, Stream!SentInOrder
<1> DEFINE now == IF n \in Hidden THEN sent[c] ELSE Append(sent[c], n)
<1>5. Stream!Lists(now, events, n)
  BY <1>3, <1>4, ListsNext
<1>6. now \in Seq(1..NumEvents)
  <2>1. Append(sent[c], n) \in Seq(1..NumEvents)
    BY <1>3, <1>4
  <2> QED
    BY <1>4, <2>1
<1>7. sent' = [sent EXCEPT ![c] = now]
  BY <1>1, <1>3
<1> HIDE DEF now
<1>8. /\ sent'[c] = now /\ next'[c] = n + 1
      /\ \A d \in Clients : d # c => next'[d] = next[d] /\ sent'[d] = sent[d]
  BY <1>0, <1>1, <1>7 DEF StreamTypes
<1>9. StreamTypes'
  <2>1. sent' \in [Clients -> Seq(1..NumEvents)]
    BY <1>0, <1>6, <1>7 DEF StreamTypes
  <2>2. next' \in [Clients -> Nat]
    BY <1>0, <1>1 DEF StreamTypes
  <2> QED
    BY <1>0, <1>1, <2>1, <2>2 DEF StreamTypes
<1>10. Numbered' /\ Fetched'
  BY <1>0, <1>1, <1>2, <1>8 DEF Numbered, Fetched
<1>11. Stream!SentInOrder'
  <2>1. ASSUME NEW d \in Clients, d # c, pc'[d] \in {"serve", "leave", "ended"}
        PROVE  Stream!Lists(sent'[d], events', next'[d] - 1)
    BY <1>0, <1>1, <1>8, <2>1 DEF Stream!SentInOrder
  <2>2. Stream!Lists(sent'[c], events', next'[c] - 1)
    <3>1. next'[c] - 1 = n
      BY <1>8
    <3> QED
      BY <1>1, <1>5, <1>8, <3>1
  <2> QED
    BY <2>1, <2>2 DEF Stream!SentInOrder
<1> QED
  BY <1>9, <1>10, <1>11 DEF StreamInv

\* A handler fetches the events there are, comes or goes.
LEMMA HandlerStep ==
    ASSUME StreamInv, NEW c \in Clients,
           \/ Stream!Lookup(c) \/ Stream!Receive(c) \/ Stream!Closing(c)
           \/ Stream!ClientGone(c) \/ Stream!Unsubscribe(c)
    PROVE  StreamInv'
<1>0. StreamTypes /\ Numbered /\ Fetched /\ Stream!SentInOrder
  BY DEF StreamInv
<1>1. /\ UNCHANGED <<producer, produced, events, streamDone, next, sent, closed>>
      /\ subs' \in {subs, subs \ {c}}
  BY DEF Stream!Lookup, Stream!Receive, Stream!Closing, Stream!ClientGone, Stream!Unsubscribe, Stream!runVars
<1>2. /\ pc' \in [Clients -> {"out", "found", "serve", "leave", "ended"}]
      /\ \A d \in Clients : pc'[d] \in {"serve", "leave", "ended"} => pc[d] \in {"serve", "leave", "ended"}
  BY <1>0 DEF StreamTypes, Stream!Lookup, Stream!Receive, Stream!Closing, Stream!ClientGone, Stream!Unsubscribe
<1>3. ending' \in [Clients -> BOOLEAN]
  BY <1>0 DEF StreamTypes, Stream!Lookup, Stream!Receive, Stream!Closing, Stream!ClientGone, Stream!Unsubscribe
<1>4. Len(events) \in Nat
  BY <1>0 DEF StreamTypes
<1>5. /\ upto' \in [Clients -> Nat]
      /\ \A d \in Clients : upto'[d] \in {upto[d], Len(events)} /\ upto[d] \in Nat /\ next[d] \in Nat
  BY <1>0, <1>4 DEF StreamTypes, Stream!Lookup, Stream!Receive, Stream!Closing, Stream!ClientGone, Stream!Unsubscribe
<1>6. StreamTypes'
  BY <1>0, <1>1, <1>2, <1>3, <1>5 DEF StreamTypes
<1>7. Numbered' /\ Fetched'
  BY <1>0, <1>1, <1>4, <1>5 DEF Numbered, Fetched
<1>8. Stream!SentInOrder'
  BY <1>0, <1>1, <1>2 DEF Stream!SentInOrder
<1> QED
  BY <1>6, <1>7, <1>8 DEF StreamInv

\* Every step of a run and its clients.
LEMMA StreamStep == StreamInv /\ [Stream!Next]_streamVars => StreamInv'
<1> SUFFICES ASSUME StreamInv, [Stream!Next]_streamVars PROVE StreamInv'
  OBVIOUS
<1>0. StreamTypes
  BY DEF StreamInv
<1>1. CASE UNCHANGED streamVars
  BY <1>0, <1>1, RunKeeps DEF streamVars, StreamTypes
<1>2. CASE Stream!ProducerFinish \/ Stream!Forget
  <2>1. UNCHANGED <<produced, events, pc, next, upto, ending, sent>>
    BY <1>2 DEF Stream!ProducerFinish, Stream!Forget, Stream!clientVars
  <2>2. /\ producer' \in {"running", "exited"} /\ streamDone' \in BOOLEAN /\ subs' \subseteq Clients
        /\ closed' \in [Clients -> BOOLEAN]
    BY <1>0, <1>2 DEF Stream!ProducerFinish, Stream!Forget, Stream!Finish, StreamTypes
  <2> QED
    BY <2>1, <2>2, RunKeeps
<1>3. CASE Stream!CleanerCheck \/ Stream!CleanerFinish \/ Stream!CleanerDelete
  <2>1. UNCHANGED <<produced, events, pc, next, upto, ending, sent>>
    BY <1>3 DEF Stream!CleanerCheck, Stream!CleanerFinish, Stream!CleanerDelete, Stream!clientVars
  <2>2. /\ producer' \in {"running", "exited"} /\ streamDone' \in BOOLEAN /\ subs' \subseteq Clients
        /\ closed' \in [Clients -> BOOLEAN]
    BY <1>0, <1>3 DEF Stream!CleanerCheck, Stream!CleanerFinish, Stream!CleanerDelete, Stream!Finish, StreamTypes
  <2> QED
    BY <2>1, <2>2, RunKeeps
<1>4. CASE Stream!AppendEvent
  BY <1>4, AppendEventStep
<1>5. CASE \E c \in Clients : Stream!Lookup(c) \/ Stream!Handler(c) \/ Stream!ClientGone(c)
  BY <1>5, SubscribeStep, WriteStep, HandlerStep DEF Stream!Handler
<1> QED
  BY <1>1, <1>2, <1>3, <1>4, <1>5 DEF Stream!Next

-----------------------------------------------------------------------------
(* A run that nobody finds stale.                                             *)

\* A step of the run.
LEMMA AloneProducer ==
    ASSUME StreamInv, Alone, Stream!AppendEvent \/ Stream!ProducerFinish \/ Stream!Forget
    PROVE  Alone'
<1>0. StreamTypes
  BY DEF StreamInv
<1>1. CASE Stream!AppendEvent
  BY <1>0, <1>1 DEF Stream!AppendEvent, Stream!clientVars, Alone, StreamTypes
<1>2. CASE Stream!ProducerFinish
  BY <1>0, <1>2 DEF Stream!ProducerFinish, Stream!Finish, Stream!clientVars, Alone, StreamTypes
<1>3. CASE Stream!Forget
  BY <1>3 DEF Stream!Forget, Stream!clientVars, Alone
<1> QED
  BY <1>1, <1>2, <1>3

\* A step of a handler.
LEMMA AloneHandler ==
    ASSUME StreamInv, Alone, NEW c \in Clients,
           Stream!Lookup(c) \/ Stream!Handler(c) \/ Stream!ClientGone(c)
    PROVE  Alone'
<1>0. StreamTypes
  BY DEF StreamInv
<1>1. CASE Stream!Subscribe(c)
  BY <1>0, <1>1 DEF Stream!Subscribe, Alone, StreamTypes
<1>2. CASE Stream!Receive(c) \/ Stream!Closing(c)
  <2>1. /\ UNCHANGED <<producer, streamDone, streamCleaner, crashed, closed, events, pc>>
        /\ ~ending[c] /\ upto' = [upto EXCEPT ![c] = Len(events)]
        /\ ending' = ending \/ (closed[c] /\ ending' = [ending EXCEPT ![c] = TRUE])
    BY <1>2 DEF Stream!Receive, Stream!Closing, Stream!BatchDone, Stream!runVars
  <2>2. ASSUME NEW d \in Clients, pc'[d] = "serve", ending'[d] PROVE streamDone' /\ upto'[d] = Len(events')
    <3>1. CASE d = c
      BY <1>0, <2>1, <2>2, <3>1 DEF Alone, StreamTypes
    <3>2. CASE d # c
      BY <1>0, <2>1, <2>2, <3>2 DEF Alone, StreamTypes
    <3> QED
      BY <3>1, <3>2
  <2> QED
    BY <2>1, <2>2 DEF Alone
<1>3. CASE Stream!Lookup(c) \/ Stream!WriteEvent(c) \/ Stream!ClientGone(c) \/ Stream!Unsubscribe(c)
  <2>1. UNCHANGED <<producer, streamDone, streamCleaner, crashed, closed, ending, upto, events>>
    BY <1>3 DEF Stream!Lookup, Stream!WriteEvent, Stream!ClientGone, Stream!Unsubscribe, Stream!runVars
  <2>2. \A d \in Clients : pc'[d] = "serve" => pc[d] = "serve"
    BY <1>0, <1>3 DEF Stream!Lookup, Stream!WriteEvent, Stream!ClientGone, Stream!Unsubscribe, StreamTypes
  <2> QED
    BY <2>1, <2>2 DEF Alone
<1> QED
  BY <1>1, <1>2, <1>3 DEF Stream!Handler

\* Every step while the cleaner stays away.
LEMMA AloneStep ==
    ASSUME StreamInv, Alone, [Stream!Next /\ streamCleaner' = "idle"]_streamVars
    PROVE  Alone'
<1>1. CASE UNCHANGED streamVars
  BY <1>1 DEF streamVars, Alone
<1>2. CASE Stream!Next /\ streamCleaner' = "idle"
  <2>1. ~Stream!CleanerCheck /\ ~Stream!CleanerFinish /\ ~Stream!CleanerDelete
    BY <1>2 DEF Alone, Stream!CleanerCheck, Stream!CleanerFinish, Stream!CleanerDelete
  <2> QED
    BY <1>2, <2>1, AloneProducer, AloneHandler DEF Stream!Next
<1> QED
  BY <1>1, <1>2

-----------------------------------------------------------------------------
(* Its streams implement ChatLog.                                             *)

\* The run before the events: the log is empty and nobody reads.
LEMMA LogStart == Stream!Init => Stream!Log!Init
<1> SUFFICES ASSUME Stream!Init PROVE Stream!Log!Init
  OBVIOUS
<1>1. Stream!Shown(events, Len(events)) = {}
  BY DEF Stream!Init, Stream!Shown
<1> QED
  BY <1>1 DEF Stream!Init, Stream!Log!Init, Stream!at

\* A client's place in the log.
LEMMA AtIs == \A c \in Clients : Stream!at[c] = IF pc[c] = "serve" THEN "reading"
                                            ELSE IF pc[c] = "ended" THEN "whole" ELSE "away"
  BY DEF Stream!at

\* What is shown has been read, up to a cursor.
LEMMA UnreadIs ==
    ASSUME StreamInv, NEW c \in Clients, pc[c] = "serve"
    PROVE  Stream!Log!Unread(c) = {k \in next[c]..Len(events) : k \notin Hidden}
<1>0. StreamTypes /\ Numbered /\ Fetched /\ Stream!SentInOrder
  BY DEF StreamInv
<1>1. PICK n \in Nat : n = next[c] /\ n >= 1
  BY <1>0 DEF StreamTypes, Fetched
<1>2. Len(events) \in Nat /\ n - 1 <= Len(events) /\ n - 1 \in Nat
  BY <1>0, <1>1 DEF StreamTypes, Fetched
<1>3. {sent[c][i] : i \in 1..Len(sent[c])} = Stream!Shown(events, n - 1)
  BY <1>0, <1>1 DEF Stream!SentInOrder, Stream!Lists
<1>4. \A m \in 0..Len(events) : Stream!Shown(events, m) = (1..m) \ Hidden
  <2> TAKE m \in 0..Len(events)
  <2>1. \A k \in 1..m : events[k] = k
    BY <1>0, <1>2 DEF Numbered
  <2> QED
    BY <2>1 DEF Stream!Shown
<1>5. Stream!Log!Unread(c) = Stream!Shown(events, Len(events)) \ {sent[c][i] : i \in 1..Len(sent[c])}
  BY DEF Stream!Log!Unread
<1>6. Stream!Log!Unread(c) = ((1..Len(events)) \ Hidden) \ ((1..(n - 1)) \ Hidden)
  BY <1>2, <1>3, <1>4, <1>5
<1> QED
  BY <1>1, <1>2, <1>6

\* A client's place in the log, as pc changes.
LEMMA AtChanges ==
    ASSUME StreamTypes, NEW c \in Clients, NEW where \in {"out", "found", "serve", "leave", "ended"},
           pc' = [pc EXCEPT ![c] = where]
    PROVE  Stream!at' = [Stream!at EXCEPT ![c] = IF where = "serve" THEN "reading"
                                                 ELSE IF where = "ended" THEN "whole" ELSE "away"]
<1>1. \A d \in Clients : pc'[d] = IF d = c THEN where ELSE pc[d]
  BY DEF StreamTypes
<1> QED
  BY <1>1 DEF Stream!at

\* append emits an event, or nothing that is shown.
LEMMA LogAppend ==
    ASSUME StreamInv, Stream!AppendEvent
    PROVE  [Stream!Log!Next]_(Stream!Log!vars)
<1>0. StreamTypes /\ Numbered
  BY DEF StreamInv
<1>1. /\ producer = "running" /\ produced < NumEvents /\ producer' = producer
      /\ events' = IF Len(events) < MaxEvents THEN Append(events, produced + 1) ELSE events
      /\ sent' = sent /\ pc' = pc
  BY DEF Stream!AppendEvent, Stream!clientVars
<1>2. Stream!at' = Stream!at
  BY <1>1 DEF Stream!at
<1>3. produced \in Nat /\ Len(events) \in Nat /\ produced + 1 \in 1..NumEvents
  BY <1>0, <1>1, ChatAssumption DEF StreamTypes
<1>4. CASE ~(Len(events) < MaxEvents)
  BY <1>1, <1>2, <1>4 DEF Stream!Log!vars
<1>5. CASE Len(events) < MaxEvents
  <2> DEFINE e == produced + 1
  <2>1. /\ events' = Append(events, e) /\ Len(events') = Len(events) + 1 /\ Len(events) + 1 = e
        /\ \A k \in 1..Len(events) : events'[k] = events[k]
        /\ events'[e] = e
    BY <1>0, <1>1, <1>3, <1>5 DEF StreamTypes, Numbered
  <2>2. 1..Len(events') = 1..Len(events) \union {e}
    BY <1>3, <2>1
  <2>3. Stream!Shown(events', Len(events')) = Stream!Shown(events, Len(events)) \union ({e} \ Hidden)
    <3>1. {events'[k] : k \in 1..Len(events')} = {events[k] : k \in 1..Len(events)} \union {e}
      <4>1. ASSUME NEW k \in 1..Len(events') PROVE events'[k] \in {events[j] : j \in 1..Len(events)} \union {e}
        BY <2>1, <2>2, <4>1
      <4>2. ASSUME NEW k \in 1..Len(events) PROVE events[k] \in {events'[j] : j \in 1..Len(events')}
        BY <2>1, <2>2, <4>2
      <4>3. e \in {events'[j] : j \in 1..Len(events')}
        BY <2>1, <2>2
      <4> QED
        BY <4>1, <4>2, <4>3
    <3> QED
      BY <3>1 DEF Stream!Shown
  <2>4. \A d \in Stream!Shown(events, Len(events)) : d < e
    <3> SUFFICES ASSUME NEW k \in 1..Len(events) PROVE events[k] < e
      BY DEF Stream!Shown
    <3>1. events[k] = k
      BY <1>0 DEF Numbered
    <3> QED
      BY <1>3, <2>1, <3>1
  <2>5. CASE e \in Hidden
    BY <1>1, <1>2, <2>3, <2>5 DEF Stream!Log!vars
  <2>6. CASE e \notin Hidden
    <3>1. Stream!Log!Emit(e)
      BY <1>1, <1>2, <2>3, <2>4, <2>6 DEF Stream!Log!Emit
    <3> QED
      BY <1>3, <3>1 DEF Stream!Log!Next
  <2> QED
    BY <2>5, <2>6
<1> QED
  BY <1>4, <1>5

\* What is left alone by the steps that write nothing.
LEMMA LogKeeps ==
    ASSUME UNCHANGED <<events, producer, sent, pc>>
    PROVE  UNCHANGED Stream!Log!vars
<1>1. Stream!at' = Stream!at
  BY DEF Stream!at
<1> QED
  BY <1>1 DEF Stream!Log!vars

\* A client that comes or goes connects to the log, leaves it or has read all of it.
LEMMA LogClient ==
    ASSUME StreamInv, Alone, NEW c \in Clients,
           Stream!Lookup(c) \/ Stream!Subscribe(c) \/ Stream!ClientGone(c) \/ Stream!Unsubscribe(c)
    PROVE  Stream!Log!Next
<1>0. StreamTypes
  BY DEF StreamInv
<1>1. UNCHANGED <<events, producer>>
  BY DEF Stream!Lookup, Stream!Subscribe, Stream!ClientGone, Stream!Unsubscribe, Stream!runVars
<1>2. CASE Stream!Subscribe(c)
  <2>1. pc[c] = "found" /\ pc' = [pc EXCEPT ![c] = "serve"] /\ sent' = [sent EXCEPT ![c] = <<>>]
    BY <1>2 DEF Stream!Subscribe
  <2>2. Stream!at[c] = "away" /\ Stream!at' = [Stream!at EXCEPT ![c] = "reading"]
    BY <1>0, <2>1, AtIs, AtChanges
  <2>3. Stream!Log!Connect(c)
    BY <1>1, <2>1, <2>2 DEF Stream!Log!Connect
  <2> QED
    BY <2>3 DEF Stream!Log!Next
<1>3. CASE Stream!Lookup(c) \/ Stream!ClientGone(c) \/ (pc[c] = "leave" /\ Stream!Unsubscribe(c))
  <2>1. /\ \E where \in {"found", "leave", "out"} : pc' = [pc EXCEPT ![c] = where]
        /\ sent' = sent
    BY <1>0, <1>3 DEF Stream!Lookup, Stream!ClientGone, Stream!Unsubscribe, StreamTypes
  <2>2. Stream!at' = [Stream!at EXCEPT ![c] = "away"]
    BY <1>0, <2>1, AtChanges
  <2>3. Stream!Log!Leave(c)
    BY <1>1, <2>1, <2>2 DEF Stream!Log!Leave
  <2> QED
    BY <2>3 DEF Stream!Log!Next
<1>4. CASE pc[c] # "leave" /\ Stream!Unsubscribe(c)
  <2>1. /\ pc[c] = "serve" /\ ending[c] /\ next[c] > upto[c]
        /\ pc' = [pc EXCEPT ![c] = "ended"] /\ sent' = sent
    BY <1>0, <1>4 DEF Stream!Unsubscribe, StreamTypes
  <2>2. Stream!at[c] = "reading" /\ Stream!at' = [Stream!at EXCEPT ![c] = "whole"]
    BY <1>0, <2>1, AtIs, AtChanges
  <2>3. producer = "exited" /\ upto[c] = Len(events)
    BY <1>0, <2>1 DEF Alone, StreamTypes
  <2>4. Stream!Log!Unread(c) = {}
    <3>1. next[c] \in Nat /\ Len(events) \in Nat /\ next[c] > Len(events)
      BY <1>0, <2>1, <2>3 DEF StreamTypes
    <3>2. next[c]..Len(events) = {}
      BY <3>1
    <3> QED
      BY <2>1, <3>2, UnreadIs
  <2>5. Stream!Log!Complete(c)
    BY <1>1, <2>1, <2>2, <2>3, <2>4 DEF Stream!Log!Complete
  <2> QED
    BY <2>5 DEF Stream!Log!Next
<1> QED
  BY <1>2, <1>3, <1>4

\* An event that is written is the next one to be read, or is not shown.
LEMMA LogWrite ==
    ASSUME StreamInv, NEW c \in Clients, Stream!WriteEvent(c)
    PROVE  [Stream!Log!Next]_(Stream!Log!vars)
<1>0. StreamTypes /\ Numbered /\ Fetched
  BY DEF StreamInv
<1>1. /\ UNCHANGED <<producer, events, pc>> /\ pc[c] = "serve" /\ next[c] <= upto[c]
      /\ sent' = [sent EXCEPT ![c] = IF events[next[c]] \in Hidden THEN sent[c]
                                      ELSE Append(sent[c], events[next[c]])]
  BY DEF Stream!WriteEvent, Stream!runVars
<1>2. PICK n \in Nat : n = next[c] /\ n >= 1 /\ n <= Len(events)
  BY <1>0, <1>1 DEF StreamTypes, Fetched
<1>3. events[n] = n /\ Len(events) \in Nat
  BY <1>0, <1>2 DEF Numbered, StreamTypes
<1>4. Stream!at' = Stream!at
  BY <1>1 DEF Stream!at
<1>5. CASE n \in Hidden
  <2>1. sent' = sent
    BY <1>0, <1>1, <1>2, <1>3, <1>5 DEF StreamTypes
  <2> QED
    BY <1>1, <2>1, LogKeeps
<1>6. CASE n \notin Hidden
  <2>1. Stream!Log!Unread(c) = {k \in n..Len(events) : k \notin Hidden}
    BY <1>1, <1>2, UnreadIs
  <2>2. n \in Stream!Log!Unread(c) /\ \A d \in Stream!Log!Unread(c) : n <= d
    BY <1>2, <1>3, <1>6, <2>1
  <2>3. sent' = [sent EXCEPT ![c] = Append(sent[c], n)]
    BY <1>1, <1>2, <1>3, <1>6
  <2>4. Stream!at[c] = "reading"
    BY <1>1, AtIs
  <2>5. Stream!Log!Read(c)
    BY <1>1, <1>4, <2>2, <2>3, <2>4 DEF Stream!Log!Read
  <2> QED
    BY <2>5 DEF Stream!Log!Next
<1> QED
  BY <1>5, <1>6

\* Every step of a run that nobody finds stale is a step of the log, or none.
LEMMA LogStep ==
    ASSUME StreamInv, Alone, [Stream!Next /\ streamCleaner' = "idle"]_streamVars
    PROVE  [Stream!Log!Next]_(Stream!Log!vars)
<1>1. CASE UNCHANGED streamVars
  <2>1. UNCHANGED <<events, producer, sent, pc>>
    BY <1>1 DEF streamVars
  <2> QED
    BY <2>1, LogKeeps
<1>2. CASE Stream!Next /\ streamCleaner' = "idle"
  <2>1. ~Stream!CleanerCheck /\ ~Stream!CleanerFinish /\ ~Stream!CleanerDelete
    BY <1>2 DEF Alone, Stream!CleanerCheck, Stream!CleanerFinish, Stream!CleanerDelete
  <2>2. CASE Stream!AppendEvent
    BY <2>2, LogAppend
  <2>3. CASE Stream!ProducerFinish
    <3>1. producer' = "exited" /\ UNCHANGED <<events, sent, pc>>
      BY <2>3 DEF Stream!ProducerFinish, Stream!clientVars
    <3>2. Stream!at' = Stream!at
      BY <3>1 DEF Stream!at
    <3>3. Stream!Log!End
      BY <3>1, <3>2 DEF Stream!Log!End
    <3> QED
      BY <3>3 DEF Stream!Log!Next
  <2>4. CASE Stream!Forget
    <3>1. UNCHANGED <<events, producer, sent, pc>>
      BY <2>4 DEF Stream!Forget, Stream!clientVars
    <3> QED
      BY <3>1, LogKeeps
  <2>5. ASSUME NEW c \in Clients, Stream!Receive(c) \/ Stream!Closing(c)
        PROVE  [Stream!Log!Next]_(Stream!Log!vars)
    <3>1. UNCHANGED <<events, producer, sent, pc>>
      BY <2>5 DEF Stream!Receive, Stream!Closing, Stream!runVars
    <3> QED
      BY <3>1, LogKeeps
  <2>6. CASE \E c \in Clients : Stream!Lookup(c) \/ Stream!Handler(c) \/ Stream!ClientGone(c)
    BY <2>5, <2>6, LogClient, LogWrite DEF Stream!Handler
  <2> QED
    BY <1>2, <2>1, <2>2, <2>3, <2>4, <2>6 DEF Stream!Next
<1> QED
  BY <1>1, <1>2

-----------------------------------------------------------------------------
(* IMReply: what of the run's texts the handler has kept, and sent.           *)

ReplyTypes ==
    /\ runEvents \in Seq(Reply!Kinds) /\ runDone \in BOOLEAN
    /\ handler \in {"start", "existing", "wait", "batch", "rest", "replied"}
    /\ cursor \in Nat /\ handled \in Nat /\ handled <= cursor /\ cursor <= Len(runEvents)
    /\ full \in Seq(Nat) /\ lastSent \in Nat /\ lastSent <= Len(full)
    /\ out \in Seq(Nat)

\* Only a run that is over closes the channel, and after the close the handler
\* has taken every event.
Taken == /\ channelClosed => runDone
         /\ handler \in {"rest", "replied"} => runDone /\ cursor = Len(runEvents)
         /\ handler = "replied" => handled = cursor

\* fullResponse is the texts handled so far, in order.
Kept(text, log, n) ==
    /\ {text[i] : i \in 1..Len(text)} = {i \in 1..n : log[i] = "text_delta"}
    /\ \A i, j \in 1..Len(text) : i < j => text[i] < text[j]

\* What of it counts as sent has been handed to the platform; without an error
\* nothing else has.
Handed == /\ \A i \in 1..lastSent : \E j \in 1..Len(out) : out[j] = full[i]
          /\ handler = "replied" => \A i \in 1..Len(full) : \E j \in 1..Len(out) : out[j] = full[i]
          /\ ~Reply!Failed => out = SubSeq(full, 1, IF handler = "replied" THEN Len(full) ELSE lastSent)

ReplyInv == ReplyTypes /\ Taken /\ Kept(full, runEvents, handled) /\ Handed

\* At the start nothing is there.
LEMMA ReplyStart == Reply!Init => ReplyInv
<1> SUFFICES ASSUME Reply!Init PROVE ReplyInv
  OBVIOUS
<1>1. /\ runEvents = <<>> /\ full = <<>> /\ out = <<>> /\ runDone = FALSE /\ channelClosed = FALSE
      /\ handler = "start" /\ cursor = 0 /\ handled = 0 /\ lastSent = 0
  BY DEF Reply!Init
<1>2. /\ Len(<<>>) = 0 /\ runEvents \in Seq(Reply!Kinds) /\ full \in Seq(Nat) /\ out \in Seq(Nat)
  BY <1>1
<1>3. ReplyTypes
  <2>1. Len(runEvents) = 0 /\ Len(full) = 0 /\ 0 \in Nat
    BY <1>1, <1>2
  <2>2. runEvents \in Seq(Reply!Kinds) /\ full \in Seq(Nat) /\ out \in Seq(Nat) /\ runDone \in BOOLEAN
    BY <1>1, <1>2
  <2>3. /\ handler \in {"start", "existing", "wait", "batch", "rest", "replied"}
        /\ cursor \in Nat /\ handled \in Nat /\ lastSent \in Nat
        /\ handled <= cursor /\ cursor <= Len(runEvents) /\ lastSent <= Len(full)
    BY <1>1, <2>1
  <2> QED
    BY <2>2, <2>3 DEF ReplyTypes
<1>4. Taken /\ Kept(full, runEvents, handled)
  BY <1>1, <1>2 DEF Taken, Kept
<1>5. Handed
  <2>1. out = SubSeq(full, 1, lastSent)
    BY <1>1
  <2> QED
    BY <1>1, <2>1 DEF Handed
<1> QED
  BY <1>3, <1>4, <1>5 DEF ReplyInv

\* What holds of the events handled so far says nothing of later ones.
LEMMA KeptKept ==
    ASSUME NEW text, NEW log, NEW longer, NEW n \in Nat, \A k \in 1..n : longer[k] = log[k]
    PROVE  Kept(text, longer, n) <=> Kept(text, log, n)
  BY DEF Kept

\* One more event: a text is appended, anything else is not.
LEMMA KeptNext ==
    ASSUME NEW log, NEW n \in Nat, NEW text \in Seq(Nat), Kept(text, log, n)
    PROVE  Kept(IF log[n + 1] = "text_delta" THEN Append(text, n + 1) ELSE text, log, n + 1)
<1>1. /\ {text[i] : i \in 1..Len(text)} = {i \in 1..n : log[i] = "text_delta"}
      /\ \A i, j \in 1..Len(text) : i < j => text[i] < text[j]
  BY DEF Kept
<1>2. 1..(n + 1) = 1..n \union {n + 1}
  OBVIOUS
<1>3. CASE log[n + 1] # "text_delta"
  <2>1. {i \in 1..(n + 1) : log[i] = "text_delta"} = {i \in 1..n : log[i] = "text_delta"}
    BY <1>2, <1>3
  <2> QED
    BY <1>1, <1>3, <2>1 DEF Kept
<1>4. CASE log[n + 1] = "text_delta"
  <2> DEFINE now == Append(text, n + 1)
  <2>1. now \in Seq(Nat) /\ Len(now) = Len(text) + 1 /\ Len(text) \in Nat
    OBVIOUS
  <2>2. now[Len(now)] = n + 1 /\ \A i \in 1..Len(text) : now[i] = text[i]
    OBVIOUS
  <2>3. 1..Len(now) = 1..Len(text) \union {Len(now)}
    BY <2>1
  <2> HIDE DEF now
  <2>4. \A i \in 1..Len(text) : text[i] \in 1..n
    BY <1>1
  <2>5. {now[i] : i \in 1..Len(now)} = {i \in 1..(n + 1) : log[i] = "text_delta"}
    <3>1. {now[i] : i \in 1..Len(now)} = {text[i] : i \in 1..Len(text)} \union {n + 1}
      <4>1. ASSUME NEW i \in 1..Len(now) PROVE now[i] \in {text[j] : j \in 1..Len(text)} \union {n + 1}
        BY <2>2, <2>3, <4>1
      <4>2. ASSUME NEW i \in 1..Len(text) PROVE text[i] \in {now[j] : j \in 1..Len(now)}
        BY <2>2, <2>3, <4>2
      <4>3. n + 1 \in {now[j] : j \in 1..Len(now)}
        BY <2>2, <2>3
      <4> QED
        BY <4>1, <4>2, <4>3
    <3>2. {i \in 1..(n + 1) : log[i] = "text_delta"} = {i \in 1..n : log[i] = "text_delta"} \union {n + 1}
      BY <1>2, <1>4
    <3> QED
      BY <1>1, <3>1, <3>2
  <2>6. ASSUME NEW i \in 1..Len(now), NEW j \in 1..Len(now), i < j PROVE now[i] < now[j]
    <3>1. i \in 1..Len(text)
      BY <2>1, <2>6
    <3>2. CASE j = Len(now)
      <4>1. text[i] \in 1..n
        BY <2>4, <3>1
      <4> QED
        BY <2>2, <3>1, <3>2, <4>1
    <3>3. CASE j \in 1..Len(text)
      BY <1>1, <2>2, <2>6, <3>1, <3>3
    <3> QED
      BY <2>3, <3>2, <3>3
  <2>7. Kept(now, log, n + 1)
    BY <2>5, <2>6 DEF Kept
  <2> QED
    BY <1>4, <2>7 DEF now
<1> QED
  BY <1>3, <1>4

\* An event is appended to the run.
LEMMA ReportStep ==
    ASSUME ReplyInv, NEW kind \in Reply!Kinds, Reply!AppendEvent(kind)
    PROVE  ReplyInv'
<1>0. ReplyTypes /\ Taken /\ Kept(full, runEvents, handled) /\ Handed
  BY DEF ReplyInv
<1>1. /\ ~runDone /\ runEvents' = Append(runEvents, kind)
      /\ UNCHANGED <<runDone, channelClosed, handler, cursor, handled, full, lastSent, out>>
  BY DEF Reply!AppendEvent
<1>2. /\ runEvents' \in Seq(Reply!Kinds) /\ Len(runEvents') = Len(runEvents) + 1 /\ Len(runEvents) \in Nat
      /\ \A k \in 1..Len(runEvents) : runEvents'[k] = runEvents[k]
  BY <1>0, <1>1 DEF ReplyTypes
<1>3. ReplyTypes'
  BY <1>0, <1>1, <1>2 DEF ReplyTypes
<1>4. Taken'
  BY <1>0, <1>1 DEF Taken
<1>5. Kept(full, runEvents, handled)'
  <2>1. \A k \in 1..handled : runEvents'[k] = runEvents[k]
    BY <1>0, <1>2 DEF ReplyTypes
  <2>2. PICK n \in Nat : n = handled
    BY <1>0 DEF ReplyTypes
  <2>3. Kept(full, runEvents', n) <=> Kept(full, runEvents, n)
    BY <2>1, <2>2, KeptKept
  <2> QED
    BY <1>0, <1>1, <2>2, <2>3
<1>6. Handed'
  <2>1. Reply!Failed => Reply!Failed'
    BY <1>2 DEF Reply!Failed, Reply!Failures
  <2> QED
    BY <1>0, <1>1, <2>1 DEF Handed
<1> QED
  BY <1>3, <1>4, <1>5, <1>6 DEF ReplyInv

\* The steps that only move the handler: the finish, the subscription, a token, the close.
LEMMA MoveStep ==
    ASSUME ReplyInv, \/ Reply!Finish \/ Reply!Subscribe \/ Reply!Wake \/ Reply!Closed \/ Reply!EndBatch
    PROVE  ReplyInv'
<1>0. ReplyTypes /\ Taken /\ Kept(full, runEvents, handled) /\ Handed
  BY DEF ReplyInv
<1>1. UNCHANGED <<runEvents, handled, full, lastSent, out>>
  BY DEF Reply!Finish, Reply!Subscribe, Reply!Wake, Reply!Closed, Reply!EndBatch
<1>2. ReplyTypes'
  <2>1. cursor' \in {cursor, Len(runEvents)} /\ Len(runEvents) \in Nat
    BY <1>0 DEF ReplyTypes, Reply!Finish, Reply!Subscribe, Reply!Wake, Reply!Closed, Reply!EndBatch
  <2>2. cursor' \in Nat /\ handled <= cursor' /\ cursor' <= Len(runEvents)
    BY <1>0, <2>1 DEF ReplyTypes
  <2>3. handler' \in {"start", "existing", "wait", "batch", "rest", "replied"} /\ runDone' \in BOOLEAN
    BY <1>0 DEF ReplyTypes, Reply!Finish, Reply!Subscribe, Reply!Wake, Reply!Closed, Reply!EndBatch
  <2> QED
    BY <1>0, <1>1, <2>2, <2>3 DEF ReplyTypes
<1>3. Taken'
  BY <1>0, <1>1 DEF Taken, ReplyTypes, Reply!Finish, Reply!Subscribe, Reply!Wake, Reply!Closed, Reply!EndBatch
<1>4. (handler = "replied") <=> (handler' = "replied")
  BY DEF Reply!Finish, Reply!Subscribe, Reply!Wake, Reply!Closed, Reply!EndBatch
<1>5. Handed'
  BY <1>0, <1>1, <1>4 DEF Handed, Reply!Failed, Reply!Failures
<1> QED
  BY <1>0, <1>1, <1>2, <1>3, <1>5 DEF ReplyInv

\* The part of a text that was not sent.
LEMMA RestOf ==
    ASSUME NEW text \in Seq(Nat), NEW m \in 0..Len(text)
    PROVE  /\ SubSeq(text, m + 1, Len(text)) \in Seq(Nat)
           /\ \A i \in 1..Len(text) : i > m =>
                  \E j \in 1..Len(SubSeq(text, m + 1, Len(text))) : SubSeq(text, m + 1, Len(text))[j] = text[i]
           /\ SubSeq(text, 1, m) \o SubSeq(text, m + 1, Len(text)) = text
           /\ SubSeq(text, 1, Len(text)) = text
<1> DEFINE rest == SubSeq(text, m + 1, Len(text))
<1>1. /\ rest \in Seq(Nat) /\ Len(rest) = Len(text) - m /\ Len(text) \in Nat
      /\ \A j \in 1..Len(rest) : rest[j] = text[m + j]
  OBVIOUS
<1>2. ASSUME NEW i \in 1..Len(text), i > m PROVE \E j \in 1..Len(rest) : rest[j] = text[i]
  <2>1. i - m \in 1..Len(rest) /\ m + (i - m) = i
    BY <1>1, <1>2
  <2>2. rest[i - m] = text[i]
    BY <1>1, <2>1
  <2> QED
    BY <2>1, <2>2
<1>3. SubSeq(text, 1, m) \o rest = text
  <2>1. 1 \in 1..(Len(text) + 1) /\ m \in (1 - 1)..Len(text) /\ Len(text) \in m..Len(text)
    BY <1>1
  <2>2. SubSeq(text, 1, m) \o rest = SubSeq(text, 1, Len(text))
    BY <2>1, ConcatAdjacentSubSeq
  <2> QED
    BY <2>2, SubSeqFull
<1>4. SubSeq(text, 1, Len(text)) = text
  BY SubSeqFull
<1> QED
  BY <1>1, <1>2, <1>3, <1>4

\* What is handed on after more was handed on.
LEMMA MoreHanded ==
    ASSUME NEW sent0 \in Seq(Nat), NEW more \in Seq(Nat)
    PROVE  /\ sent0 \o more \in Seq(Nat)
           /\ \A x : (\E j \in 1..Len(sent0) : sent0[j] = x) => \E j \in 1..Len(sent0 \o more) : (sent0 \o more)[j] = x
           /\ \A x : (\E j \in 1..Len(more) : more[j] = x) => \E j \in 1..Len(sent0 \o more) : (sent0 \o more)[j] = x
<1> DEFINE all0 == sent0 \o more
<1>1. /\ all0 \in Seq(Nat) /\ Len(all0) = Len(sent0) + Len(more) /\ Len(sent0) \in Nat /\ Len(more) \in Nat
      /\ \A j \in 1..Len(sent0) : all0[j] = sent0[j]
  OBVIOUS
<1>2. ASSUME NEW j \in 1..Len(more) PROVE Len(sent0) + j \in 1..Len(all0) /\ all0[Len(sent0) + j] = more[j]
  <2>1. Len(sent0) + j \in 1..Len(all0)
    BY <1>1
  <2> QED
    BY <1>1, <2>1
<1>3. \A j \in 1..Len(sent0) : j \in 1..Len(all0)
  BY <1>1
<1> HIDE DEF all0
<1> QED
  BY <1>1, <1>2, <1>3 DEF all0

\* The loop over the events that were there, or that are left: texts only.
LEMMA HandleTextStep ==
    ASSUME ReplyInv, Reply!HandleText
    PROVE  ReplyInv'
<1>0. ReplyTypes /\ Taken /\ Kept(full, runEvents, handled) /\ Handed
  BY DEF ReplyInv
<1>1. /\ UNCHANGED <<runEvents, runDone, channelClosed, handler, cursor, lastSent, out>>
      /\ handled < cursor /\ handled' = handled + 1 /\ handler \in {"existing", "rest"}
      /\ full' = IF runEvents[handled + 1] = "text_delta" THEN Append(full, handled + 1) ELSE full
  BY DEF Reply!HandleText, Reply!KeepText, Reply!NextEvent
<1>2. PICK n \in Nat : n = handled
  BY <1>0 DEF ReplyTypes
<1>3. Kept(full, runEvents, handled)'
  <2>1. Kept(full', runEvents, n + 1)
    BY <1>0, <1>1, <1>2, KeptNext DEF ReplyTypes
  <2> QED
    BY <1>1, <1>2, <2>1
<1>4. /\ full' \in Seq(Nat) /\ Len(full) \in Nat /\ Len(full') >= Len(full)
      /\ \A i \in 1..Len(full) : full'[i] = full[i] /\ i \in 1..Len(full')
      /\ \A m \in 0..Len(full) : SubSeq(full', 1, m) = SubSeq(full, 1, m)
  <2>1. CASE full' = full
    BY <1>0, <2>1 DEF ReplyTypes
  <2>2. CASE full' = Append(full, n + 1)
    BY <1>0, <2>2 DEF ReplyTypes
  <2> QED
    BY <1>1, <1>2, <2>1, <2>2
<1>5. ReplyTypes'
  BY <1>0, <1>1, <1>4 DEF ReplyTypes
<1>6. Taken'
  BY <1>0, <1>1 DEF Taken
<1>7. Handed'
  <2>1. handler # "replied" /\ handler' # "replied" /\ lastSent \in 0..Len(full)
    BY <1>0, <1>1 DEF ReplyTypes
  <2>2. \A i \in 1..lastSent : full'[i] = full[i]
    BY <1>4, <2>1
  <2>3. Reply!Failed <=> Reply!Failed'
    BY <1>1 DEF Reply!Failed, Reply!Failures
  <2> QED
    BY <1>0, <1>1, <1>4, <2>1, <2>2, <2>3 DEF Handed
<1> QED
  BY <1>3, <1>5, <1>6, <1>7 DEF ReplyInv

\* The loop over a batch: a text is kept; at a tool call of a channel that
\* streams, and at an error, what was not sent goes out.
LEMMA HandleEventStep ==
    ASSUME ReplyInv, Reply!HandleEvent
    PROVE  ReplyInv'
<1>0. ReplyTypes /\ Taken /\ Kept(full, runEvents, handled) /\ Handed
  BY DEF ReplyInv
<1> DEFINE kind == runEvents[handled + 1]
           rest == SubSeq(full, lastSent + 1, Len(full))
<1>1. /\ UNCHANGED <<runEvents, runDone, channelClosed, handler, cursor>>
      /\ handled < cursor /\ handled' = handled + 1 /\ handler = "batch"
      /\ full' = IF kind = "text_delta" THEN Append(full, handled + 1) ELSE full
      /\ IF Streams /\ kind = "tool_call_start"
         THEN out' = out \o rest /\ lastSent' = Len(full)
         ELSE out' = (IF kind = "error" THEN out \o rest \o <<0>> ELSE out) /\ lastSent' = lastSent
  BY DEF Reply!HandleEvent, Reply!KeepText, Reply!NextEvent, Reply!Rest, Reply!Error
<1>2. PICK n \in Nat : n = handled
  BY <1>0 DEF ReplyTypes
<1>3. PICK m \in 0..Len(full) : m = lastSent
  BY <1>0 DEF ReplyTypes
<1>4. Kept(full, runEvents, handled)'
  <2>1. Kept(full', runEvents, n + 1)
    BY <1>0, <1>1, <1>2, KeptNext DEF ReplyTypes
  <2> QED
    BY <1>1, <1>2, <2>1
<1>5. full \in Seq(Nat) /\ out \in Seq(Nat) /\ Len(full) \in Nat /\ handler' # "replied" /\ handler # "replied"
  BY <1>0, <1>1 DEF ReplyTypes
<1>6. /\ rest \in Seq(Nat)
      /\ \A i \in 1..Len(full) : i > lastSent => \E j \in 1..Len(rest) : rest[j] = full[i]
      /\ SubSeq(full, 1, lastSent) \o rest = full
      /\ SubSeq(full, 1, Len(full)) = full
  BY <1>3, <1>5, RestOf
<1>7. Taken'
  BY <1>0, <1>1 DEF Taken
<1>8. Reply!Failed <=> Reply!Failed'
  BY <1>1 DEF Reply!Failed, Reply!Failures
<1> HIDE DEF rest
<1>9. CASE kind = "tool_call_start" /\ Streams
  <2>1. full' = full /\ out' = out \o rest /\ lastSent' = Len(full)
    BY <1>1, <1>9
  <2>2. /\ out' \in Seq(Nat)
        /\ \A x : (\E j \in 1..Len(out) : out[j] = x) => \E j \in 1..Len(out') : out'[j] = x
        /\ \A x : (\E j \in 1..Len(rest) : rest[j] = x) => \E j \in 1..Len(out') : out'[j] = x
    <3>1. /\ out \o rest \in Seq(Nat)
          /\ \A x : (\E j \in 1..Len(out) : out[j] = x) => \E j \in 1..Len(out \o rest) : (out \o rest)[j] = x
          /\ \A x : (\E j \in 1..Len(rest) : rest[j] = x) => \E j \in 1..Len(out \o rest) : (out \o rest)[j] = x
      BY <1>5, <1>6, MoreHanded
    <3> QED
      BY <2>1, <3>1
  <2>3. ReplyTypes'
    BY <1>0, <1>1, <1>5, <2>1, <2>2 DEF ReplyTypes
  <2>4. ASSUME NEW i \in 1..Len(full) PROVE \E j \in 1..Len(out') : out'[j] = full[i]
    <3>1. CASE i > lastSent
      BY <1>6, <2>2, <3>1
    <3>2. CASE i \in 1..lastSent
      BY <1>0, <2>2, <3>2 DEF Handed
    <3> QED
      BY <1>3, <3>1, <3>2
  <2>5. ~Reply!Failed => out' = full
    BY <1>0, <1>5, <1>6, <2>1 DEF Handed
  <2>6. Handed'
    BY <1>5, <1>6, <1>8, <2>1, <2>4, <2>5 DEF Handed
  <2> QED
    BY <1>4, <1>7, <2>3, <2>6 DEF ReplyInv
<1>10. CASE kind = "error"
  <2>1. full' = full /\ out' = out \o rest \o <<0>> /\ lastSent' = lastSent
    BY <1>1, <1>10
  <2>2. /\ out \o rest \in Seq(Nat) /\ <<0>> \in Seq(Nat)
        /\ \A x : (\E j \in 1..Len(out) : out[j] = x) => \E j \in 1..Len(out \o rest) : (out \o rest)[j] = x
    BY <1>5, <1>6, MoreHanded
  <2>3. /\ out' \in Seq(Nat)
        /\ \A x : (\E j \in 1..Len(out) : out[j] = x) => \E j \in 1..Len(out') : out'[j] = x
    <3> DEFINE before == out \o rest
    <3>1. before \in Seq(Nat) /\ <<0>> \in Seq(Nat)
      BY <2>2
    <3>2. /\ before \o <<0>> \in Seq(Nat)
          /\ \A x : (\E j \in 1..Len(before) : before[j] = x) =>
                 \E j \in 1..Len(before \o <<0>>) : (before \o <<0>>)[j] = x
      <4> HIDE DEF before
      <4> QED
        BY <3>1, MoreHanded
    <3> QED
      BY <2>1, <2>2, <3>2
  <2>4. ReplyTypes'
    BY <1>0, <1>1, <1>5, <2>1, <2>3 DEF ReplyTypes
  <2>5. handled + 1 \in 1..Len(runEvents)
    BY <1>0, <1>1 DEF ReplyTypes
  <2>6. Reply!Failed
    BY <1>10, <2>5 DEF Reply!Failed, Reply!Failures
  <2>7. \A i \in 1..lastSent : \E j \in 1..Len(out') : out'[j] = full[i]
    BY <1>0, <2>3 DEF Handed
  <2>8. Handed'
    BY <1>5, <1>8, <2>1, <2>6, <2>7 DEF Handed
  <2> QED
    BY <1>4, <1>7, <2>4, <2>8 DEF ReplyInv
<1>11. CASE kind # "error" /\ ~(kind = "tool_call_start" /\ Streams)
  <2>1. out' = out /\ lastSent' = lastSent
    BY <1>1, <1>11
  <2>2. /\ full' \in Seq(Nat) /\ Len(full') \in Nat /\ Len(full') >= Len(full)
        /\ \A i \in 1..Len(full) : full'[i] = full[i]
        /\ SubSeq(full', 1, m) = SubSeq(full, 1, m)
    <3>1. CASE full' = full
      BY <1>5, <3>1
    <3>2. CASE full' = Append(full, n + 1)
      BY <1>5, <3>2
    <3> QED
      BY <1>1, <1>2, <3>1, <3>2
  <2>3. ReplyTypes'
    BY <1>0, <1>1, <1>5, <2>1, <2>2 DEF ReplyTypes
  <2>4. \A i \in 1..lastSent : full'[i] = full[i]
    BY <1>3, <1>5, <2>2
  <2>5. Handed'
    BY <1>0, <1>3, <1>5, <1>8, <2>1, <2>2, <2>4 DEF Handed
  <2> QED
    BY <1>4, <1>7, <2>3, <2>5 DEF ReplyInv
<1> QED
  BY <1>9, <1>10, <1>11

\* The return: what was not sent goes out.
LEMMA ReturnStep ==
    ASSUME ReplyInv, Reply!Return
    PROVE  ReplyInv'
<1>0. ReplyTypes /\ Taken /\ Kept(full, runEvents, handled) /\ Handed
  BY DEF ReplyInv
<1> DEFINE rest == SubSeq(full, lastSent + 1, Len(full))
<1>1. /\ UNCHANGED <<runEvents, runDone, channelClosed, cursor, handled, full, lastSent>>
      /\ handler = "rest" /\ handler' = "replied" /\ handled = cursor /\ out' = out \o rest
  BY DEF Reply!Return, Reply!Rest
<1>2. PICK m \in 0..Len(full) : m = lastSent
  BY <1>0 DEF ReplyTypes
<1>3. full \in Seq(Nat) /\ out \in Seq(Nat) /\ Len(full) \in Nat
  BY <1>0 DEF ReplyTypes
<1>4. /\ rest \in Seq(Nat)
      /\ \A i \in 1..Len(full) : i > lastSent => \E j \in 1..Len(rest) : rest[j] = full[i]
      /\ SubSeq(full, 1, lastSent) \o rest = full
      /\ SubSeq(full, 1, Len(full)) = full
  BY <1>2, <1>3, RestOf
<1> HIDE DEF rest
<1>5. /\ out' \in Seq(Nat)
      /\ \A x : (\E j \in 1..Len(out) : out[j] = x) => \E j \in 1..Len(out') : out'[j] = x
      /\ \A x : (\E j \in 1..Len(rest) : rest[j] = x) => \E j \in 1..Len(out') : out'[j] = x
  <2>1. /\ out \o rest \in Seq(Nat)
        /\ \A x : (\E j \in 1..Len(out) : out[j] = x) => \E j \in 1..Len(out \o rest) : (out \o rest)[j] = x
        /\ \A x : (\E j \in 1..Len(rest) : rest[j] = x) => \E j \in 1..Len(out \o rest) : (out \o rest)[j] = x
    BY <1>3, <1>4, MoreHanded
  <2> QED
    BY <1>1, <2>1
<1>6. ReplyTypes'
  BY <1>0, <1>1, <1>5 DEF ReplyTypes
<1>7. Taken'
  BY <1>0, <1>1 DEF Taken
<1>8. Kept(full, runEvents, handled)'
  BY <1>0, <1>1
<1>9. ASSUME NEW i \in 1..Len(full) PROVE \E j \in 1..Len(out') : out'[j] = full[i]
  <2>1. CASE i > lastSent
    BY <1>4, <1>5, <2>1
  <2>2. CASE i \in 1..lastSent
    BY <1>0, <1>5, <2>2 DEF Handed
  <2> QED
    BY <1>2, <2>1, <2>2
<1>10. Reply!Failed <=> Reply!Failed'
  BY <1>1 DEF Reply!Failed, Reply!Failures
<1>11. ~Reply!Failed => out' = full
  BY <1>0, <1>1, <1>4 DEF Handed
<1>12. \A i \in 1..lastSent : i \in 1..Len(full)
  BY <1>2, <1>3
<1>13. Handed'
  BY <1>1, <1>4, <1>9, <1>10, <1>11, <1>12 DEF Handed
<1> QED
  BY <1>6, <1>7, <1>8, <1>13 DEF ReplyInv

\* No step of the run or of the handler breaks it, and standing still neither.
LEMMA ReplyStep == ReplyInv /\ [Reply!Next]_replyVars => ReplyInv'
<1> SUFFICES ASSUME ReplyInv, [Reply!Next]_replyVars PROVE ReplyInv'
  OBVIOUS
<1>1. CASE UNCHANGED replyVars
  BY <1>1 DEF replyVars, ReplyInv, ReplyTypes, Taken, Kept, Handed, Reply!Failed, Reply!Failures
<1>2. CASE Reply!Next
  BY <1>2, ReportStep, MoveStep, HandleTextStep, HandleEventStep, ReturnStep DEF Reply!Next, Reply!Handler
<1> QED
  BY <1>1, <1>2

\* It says that the platform gets the whole answer.
LEMMA ReplySound == ReplyInv => Reply!Answered
<1> SUFFICES ASSUME ReplyInv PROVE Reply!Answered
  OBVIOUS
<1>0. ReplyTypes /\ Taken /\ Kept(full, runEvents, handled) /\ Handed
  BY DEF ReplyInv
<1>1. /\ {full[i] : i \in 1..Len(full)} = Reply!TextsTo(handled)
      /\ \A i, j \in 1..Len(full) : i < j => full[i] < full[j]
  BY <1>0 DEF Kept, Reply!TextsTo
<1>2. ASSUME handler = "replied" PROVE Reply!TextsTo(Len(runEvents)) \subseteq {out[i] : i \in 1..Len(out)}
  <2>1. handled = Len(runEvents)
    BY <1>0, <1>2 DEF Taken
  <2>2. \A i \in 1..Len(full) : \E j \in 1..Len(out) : out[j] = full[i]
    BY <1>0, <1>2 DEF Handed
  <2>3. \A x \in {full[i] : i \in 1..Len(full)} : x \in {out[i] : i \in 1..Len(out)}
    BY <2>2
  <2> QED
    BY <1>1, <2>1, <2>3
<1>3. ASSUME ~Reply!Failed PROVE Len(out) <= Len(full) /\ \A i \in 1..Len(out) : out[i] = full[i]
  <2>1. PICK m \in 0..Len(full) : out = SubSeq(full, 1, m)
    <3> DEFINE m0 == IF handler = "replied" THEN Len(full) ELSE lastSent
    <3>1. m0 \in 0..Len(full)
      BY <1>0 DEF ReplyTypes
    <3>2. out = SubSeq(full, 1, m0)
      BY <1>0, <1>3 DEF Handed
    <3> HIDE DEF m0
    <3> QED
      BY <3>1, <3>2
  <2>2. full \in Seq(Nat) /\ Len(full) \in Nat
    BY <1>0 DEF ReplyTypes
  <2>3. Len(out) = m /\ \A i \in 1..m : out[i] = full[i]
    BY <2>1, <2>2
  <2> QED
    BY <2>2, <2>3
<1> QED
  BY <1>1, <1>2, <1>3 DEF Reply!Answered

-----------------------------------------------------------------------------
(* The chat path: its modules keep their invariants side by side.             *)

ChatInv == /\ part # "busy" => RunsInv
           /\ StreamInv
           /\ part # "stale" => Alone
           /\ ReplyInv

\* A step of the chat path is a step of one module, and the others stand still.
LEMMA ChatSteps ==
    [ChatNext]_all =>
        /\ part' = part
        /\ part # "busy" => [Next /\ cleaner' = 0 /\ \A s \in Senders \ {OneSender} : send'[s] = Idle]_runsVars
        /\ [Stream!Next]_streamVars
        /\ part # "stale" => [Stream!Next /\ streamCleaner' = "idle"]_streamVars
        /\ [Reply!Next]_replyVars
<1> SUFFICES ASSUME [ChatNext]_all
             PROVE  /\ part' = part
                    /\ part # "busy" => [Next /\ cleaner' = 0 /\ \A s \in Senders \ {OneSender} : send'[s] = Idle]_runsVars
                    /\ [Stream!Next]_streamVars
                    /\ part # "stale" => [Stream!Next /\ streamCleaner' = "idle"]_streamVars
                    /\ [Reply!Next]_replyVars
  OBVIOUS
<1>1. CASE RunsPart
  BY <1>1 DEF RunsPart
<1>2. CASE StreamPart
  BY <1>2 DEF StreamPart
<1>3. CASE ReplyPart
  BY <1>3 DEF ReplyPart
<1>4. CASE UNCHANGED all
  BY <1>4 DEF all
<1> QED
  BY <1>1, <1>2, <1>3, <1>4 DEF ChatNext

\* The chat path starts with the invariants of its modules.
LEMMA ChatStart == ChatInit => ChatInv
  BY RunsStart, StreamStart, ReplyStart DEF ChatInit, ChatInv

\* No step breaks any of them.
LEMMA ChatStep == ChatInv /\ [ChatNext]_all => ChatInv'
<1> SUFFICES ASSUME ChatInv, [ChatNext]_all PROVE ChatInv'
  OBVIOUS
<1>1. part' = part
  BY ChatSteps
<1>2. (part # "busy" => RunsInv)'
  BY <1>1, ChatSteps, RunsStep DEF ChatInv
<1>3. StreamInv'
  BY ChatSteps, StreamStep DEF ChatInv
<1>4. (part # "stale" => Alone)'
  BY <1>1, ChatSteps, AloneStep DEF ChatInv
<1>5. ReplyInv'
  BY ChatSteps, ReplyStep DEF ChatInv
<1> QED
  BY <1>2, <1>3, <1>4, <1>5 DEF ChatInv

\* ChatInv is an invariant of every behaviour of the chat path.
LEMMA ChatInvariant == ChatSpec => []ChatInv
  BY ChatStart, ChatStep, PTL DEF ChatSpec

(* handleChatSend, startChatSandbox and finishRun: with messages one after    *)
(* another a sandbox that lives is listed and the user's, so that it can be   *)
(* stopped and streamed.                                                      *)
THEOREM ChatOneAfterAnother == ChatSpec => []OneAfterAnother
<1>1. ChatInv => OneAfterAnother
  BY DEF ChatInv, RunsInv, OneAfterAnother
<1> QED
  BY <1>1, ChatInvariant, PTL

(* handleChatStream: a connection has been sent the events up to its cursor,  *)
(* each once and in order, also when the cleaner ends the run.                *)
THEOREM ChatSentInOrder == ChatSpec => []SentInOrder
<1>1. ChatInv => SentInOrder
  BY DEF ChatInv, StreamInv, SentInOrder
<1> QED
  BY <1>1, ChatInvariant, PTL

(* chatRun.append and finish: no channel is used once it is closed, however   *)
(* many clients come, leave and reconnect, unless the run is taken for stale. *)
THEOREM ChatNoPanic == ChatSpec => []NoPanic
<1>1. ChatInv => NoPanic
  BY DEF ChatInv, Alone, NoPanic, Stream!NoPanic
<1> QED
  BY <1>1, ChatInvariant, PTL

(* handleIMMessage: the texts of the run in order, each handed to the         *)
(* platform when the handler returns, and once if the run reports no error.   *)
THEOREM ChatAnswered == ChatSpec => []Answered
<1>1. ChatInv => Answered
  BY ReplySound DEF ChatInv, Answered
<1> QED
  BY <1>1, ChatInvariant, PTL

(* chatRun: its events and streams are an append-only log that every          *)
(* connection reads from the start without a gap, and leaves on its own only  *)
(* when the run is over and everything is read (ChatLog).                     *)
THEOREM ChatImplementsLog == ChatSpec => ImplementsLog
<1>1. ChatInit => (part = "stream" => Stream!Log!Init)
  BY LogStart DEF ChatInit
<1>2. ChatInv /\ [ChatNext]_all => [part = "stream" => [Stream!Log!Next]_(Stream!Log!vars)]_all
  <2> SUFFICES ASSUME ChatInv, [ChatNext]_all, part = "stream" PROVE [Stream!Log!Next]_(Stream!Log!vars)
    OBVIOUS
  <2> QED
    BY ChatSteps, LogStep DEF ChatInv
<1> QED
  BY <1>1, <1>2, ChatInvariant, PTL DEF ChatSpec, ImplementsLog
=============================================================================
