------------------------------ MODULE JobsProofs ------------------------------
(***************************************************************************)
(* The safety of the server's background work, for every number of batches,*)
(* tasks, jobs, moments, slots, users and addresses: the properties of     *)
(* MCJobs, from an inductive invariant for each of its parts.              *)
(*                                                                         *)
(*   - the task queue: Turns (one batch at a time, in order), Waiting (the *)
(*     queue of batches is what is left of them), Counts (the counters are *)
(*     the current batch's), UnderWay (a task sent is executed, held by    *)
(*     the worker or in the channel) and Executed (what ran, and where it  *)
(*     stopped);                                                           *)
(*   - the scheduler: Claims (a job listed or executed is one that nobody  *)
(*     else can start), OneTime (where a one-time job stands) and Unstuck; *)
(*   - the addresses: InTurn (the i-th user has address i + 1).            *)
(***************************************************************************)
EXTENDS MCJobs, SequenceTheorems, WellFoundedInduction, TLAPS

-----------------------------------------------------------------------------
(* TaskQueue                                                               *)

Current == status.batch
Run == done + failed
Held == IF worker[Current] = "execute" THEN 1 ELSE 0

Turns ==
    /\ Current <= Len(size)
    /\ \A b \in Batches : /\ b < Current => worker[b] = "ended"
                          /\ b > Current => worker[b] = "none"
    /\ Current # 0 => worker[Current] # "none"
    /\ active <=> Current # 0 /\ worker[Current] # "ended"
    /\ status.running <=> active

Waiting ==
    /\ Len(pending) = Len(size) - Current
    /\ \A i \in 1..Len(pending) : pending[i] = Current + i
    /\ ~active => Current = Len(size)

Counts == Current # 0 =>
    /\ total = size[Current]
    /\ worker[Current] # "started" => goal[Current] = total
    /\ worker[Current] = "started" => Run = 0
    /\ worker[Current] = "receive" => Run < total
    /\ worker[Current] = "publish" => Run > 0
    /\ worker[Current] \in {"complete", "ended"} => Run = total
    /\ worker[Current] = "ended" => status.done = done /\ status.failed = failed

UnderWay ==
    /\ \A b \in Batches : /\ b < Current => sent[b] = size[b]
                          /\ b > Current => sent[b] = 0
    /\ Current = 0 => items = <<>>
    /\ Current # 0 => /\ sent[Current] <= size[Current]
                      /\ Run + Held + Len(items) = sent[Current]
                      /\ worker[Current] = "execute" =>
                             item[Current] = [batch |-> Current, nth |-> Run + 1]
                      /\ \A i \in 1..Len(items) :
                             items[i] = [batch |-> Current, nth |-> Run + Held + i]

Executed ==
    /\ InOrder
    /\ \A k \in 1..Len(ran) : ran[k].batch <= Current
    /\ Run > 0 => ran # <<>> /\ ran[Len(ran)] = [batch |-> Current, nth |-> Run]
    /\ Run = 0 => IF Current <= 1 THEN ran = <<>>
                  ELSE ran # <<>> /\ ran[Len(ran)] = [batch |-> Current - 1, nth |-> size[Current - 1]]

QueueInv == TypeOK /\ Turns /\ Waiting /\ Counts /\ UnderWay /\ Executed

LEMMA QueueNumbers ==
  ASSUME QueueInv
  PROVE  /\ Current \in Nat /\ Len(size) \in Nat /\ Len(ran) \in Nat /\ Len(items) \in Nat
         /\ Len(pending) \in Nat /\ Run \in Nat
         /\ Current <= Len(size) /\ Len(size) <= MaxBatches
<1>1. TypeOK /\ Turns
  BY DEF QueueInv
<1>2. Current \in Nat /\ Len(size) \in Nat /\ Len(ran) \in Nat /\ Len(items) \in Nat
      /\ Len(pending) \in Nat /\ Len(size) <= MaxBatches
  BY <1>1 DEF TypeOK, Current
<1>3. Run \in Nat
  BY <1>1 DEF TypeOK, Run
<1>4. Current <= Len(size)
  BY <1>1 DEF Turns
<1> QED BY <1>2, <1>3, <1>4

LEMMA QueueFacts ==
  ASSUME QueueInv
  PROVE  /\ \A k \in 1..Len(ran) : ran[k] \in Tasks /\ ran[k].batch \in Nat \ {0} /\ ran[k].batch <= Current
         /\ \A b \in 1..Len(size) : size[b] \in Nat \ {0} /\ size[b] <= MaxTasks
<1>1. TypeOK /\ Executed
  BY DEF QueueInv
<1>2. \A k \in 1..Len(ran) : ran[k] \in Tasks
  BY <1>1 DEF TypeOK
<1>3. \A k \in 1..Len(ran) : ran[k].batch \in Nat \ {0}
  BY <1>2 DEF Tasks, Batches
<1>4. \A k \in 1..Len(ran) : ran[k].batch <= Current
  BY <1>1 DEF Executed
<1>5. \A b \in 1..Len(size) : size[b] \in Nat \ {0} /\ size[b] <= MaxTasks
  BY <1>1, QueueAssumption DEF TypeOK
<1> QED BY <1>2, <1>3, <1>4, <1>5

LEMMA InOrderKept ==
  ASSUME QueueInv, ran' = ran, \A i \in 1..Len(size) : size'[i] = size[i]
  PROVE  InOrder'
<1>1. InOrder
  BY DEF QueueInv, Executed
<1>2. \A k \in 1..Len(ran) - 1 : /\ k \in 1..Len(ran) /\ k + 1 \in 1..Len(ran)
                                 /\ ran[k].batch \in 1..Len(size)
                                 /\ Follows(ran[k], ran[k + 1])
  BY <1>1, QueueNumbers, QueueFacts DEF InOrder
<1>3. ASSUME NEW k \in 1..Len(ran) - 1 PROVE Follows(ran[k], ran[k + 1])'
  BY <1>2 DEF Follows
<1> QED BY <1>1, <1>3 DEF InOrder

LEMMA EnqueueKeeps ==
  ASSUME QueueInv, NEW n \in 1..MaxTasks, Enqueue(n)
  PROVE  QueueInv'
<1> USE QueueAssumption DEF Batches, Current
<1> DEFINE b == Len(size) + 1
<1>0. TypeOK /\ Turns /\ Waiting /\ Counts /\ UnderWay /\ Executed
  BY DEF QueueInv
<1>1. b \in Batches /\ b \in Nat /\ size' = Append(size, n)
  BY QueueNumbers, QueueFacts DEF Enqueue
<1>2. /\ size' \in Seq(1..MaxTasks) /\ Len(size') = b /\ size'[b] = n
      /\ \A i \in 1..Len(size) : size'[i] = size[i]
  BY <1>0, <1>1 DEF TypeOK
<1>3. CASE active
  <2>1. /\ UNCHANGED <<items, total, done, failed, active, status, worker, goal, item, sent, ran>>
        /\ pending' = Append(pending, b)
    BY <1>3 DEF Enqueue, counters
  <2>2. /\ pending' \in Seq(Batches) /\ Len(pending') = Len(pending) + 1
        /\ pending'[Len(pending) + 1] = b
        /\ \A i \in 1..Len(pending) : pending'[i] = pending[i]
    BY <1>0, <1>1, <2>1 DEF TypeOK
  <2>3. TypeOK'
    BY <1>0, <1>1, <1>2, <2>1, <2>2 DEF TypeOK
  <2>4. Turns'
    BY <1>0, <1>2, <2>1, QueueNumbers, QueueFacts DEF Turns
  <2>5. Waiting'
    <3>0. Len(pending) = Len(size) - Current /\ Current \in Nat /\ Len(size) \in Nat /\ Len(pending) \in Nat
      BY <1>0, QueueNumbers, Zenon DEF Waiting
    <3> HIDE DEF Current
    <3>1. Len(pending) + 1 = b - Current /\ Len(pending) \in Nat /\ b = Current + (Len(pending) + 1)
      BY <3>0
    <3>2. \A i \in 1..Len(pending') : i \in 1..Len(pending) \/ i = Len(pending) + 1
      BY <2>2, <3>1
    <3>3. \A i \in 1..Len(pending') : pending'[i] = Current + i
      BY <1>0, <2>2, <3>1, <3>2 DEF Waiting
    <3> QED BY <1>2, <1>3, <2>1, <2>2, <3>1, <3>3 DEF Waiting, Current
  <2>6. Current # 0 => size'[Current] = size[Current]
    BY <1>2, QueueNumbers, QueueFacts
  <2>7. Counts'
    BY <1>0, <2>6, <2>1 DEF Counts, Run
  <2>8. UnderWay'
    BY <1>0, <1>2, <2>1, <2>6, QueueNumbers, QueueFacts DEF UnderWay, Run, Held
  <2>9. InOrder'
    BY <1>0, <1>2, <2>1, InOrderKept DEF Executed
  <2>10. Executed'
    <3>1. Current > 1 => size'[Current - 1] = size[Current - 1]
      <4>1. Current > 1 => Current - 1 \in 1..Len(size)
        BY QueueNumbers
      <4> QED BY <1>2, <4>1
    <3> QED BY <1>0, <2>1, <2>9, <3>1, QueueNumbers, QueueFacts DEF Executed, Run
  <2> QED BY <2>3, <2>4, <2>5, <2>7, <2>8, <2>10 DEF QueueInv
<1>4. CASE ~active
  <2>1. /\ UNCHANGED <<items, pending, goal, item, sent, ran>>
        /\ total' = n /\ done' = 0 /\ failed' = 0 /\ active' = TRUE
        /\ status' = [batch |-> b, running |-> TRUE, done |-> 0, failed |-> 0]
        /\ worker' = [worker EXCEPT ![b] = "started"]
    BY <1>4 DEF Enqueue, StartBatch
  <2>2. Current = Len(size) /\ Current' = b
    BY <1>0, <1>4, <2>1 DEF Waiting
  <2>3. TypeOK'
    BY <1>0, <1>1, <1>2, <2>1 DEF TypeOK
  <2>a. worker'[b] = "started" /\ \A c \in Batches : c # b => worker'[c] = worker[c]
    BY <1>0, <1>1, <2>1 DEF TypeOK
  <2>d. status'.running
    BY <2>1
  <2>c. Current # 0 => worker[Current] = "ended" 
     BY <1>0, <1>4 DEF Turns
  <2>4. Turns'
    BY <1>0, <1>1, <1>2, <2>1, <2>2, <2>a, <2>c, <2>d, QueueNumbers, QueueFacts DEF Turns
  <2>w. Waiting'
    BY <1>0, <1>1, <1>2, <2>1, <2>2, QueueNumbers, QueueFacts DEF Waiting
  <2>e. Run' = 0
    BY <2>1 DEF Run
  <2>5. Counts'
    BY <1>1, <1>2, <2>1, <2>2, <2>a, <2>e DEF Counts
  <2>b. Current # 0 => sent[Current] = size[Current] /\ items = <<>> /\ Run = size[Current]
     BY <1>0, <2>c, QueueNumbers, QueueFacts DEF Counts, UnderWay, Held
  <2>6. UnderWay'
    BY <1>0, <1>1, <1>2, <2>1, <2>2, <2>a, <2>b, <2>e, QueueNumbers, QueueFacts DEF UnderWay, Held
  <2>7. InOrder'
    BY <1>0, <1>2, <2>1, InOrderKept DEF Executed
  <2>8. Executed'
    <3>1. \A k \in 1..Len(ran) : ran[k].batch <= b
      BY <2>2, QueueNumbers, QueueFacts
    <3>2. CASE Current = 0
      <4>1. ran = <<>>
        <5>1. Len(ran) = 0
          BY <3>2, QueueNumbers, QueueFacts
        <5> QED BY <1>0, <5>1 DEF TypeOK
      <4> QED BY <2>1, <2>2, <2>e, <2>7, <3>1, <3>2, <4>1 DEF Executed
    <3>3. CASE Current # 0
      <4>1. b > 1 /\ b - 1 = Current /\ size'[Current] = size[Current] /\ size[Current] > 0
        BY <1>2, <2>2, <3>3, QueueNumbers, QueueFacts
      <4>2. ran # <<>> /\ ran[Len(ran)] = [batch |-> Current, nth |-> size[Current]]
        BY <1>0, <2>b, <3>3, <4>1 DEF Executed
      <4> QED BY <2>1, <2>2, <2>e, <2>7, <3>1, <4>1, <4>2 DEF Executed
    <3> QED BY <3>2, <3>3
  <2> QED BY <2>3, <2>4, <2>5, <2>6, <2>8, <2>w DEF QueueInv
<1> QED BY <1>3, <1>4

LEMMA FeedKeeps ==
  ASSUME QueueInv, NEW b \in Batches, Feed(b)
  PROVE  QueueInv'
<1> USE QueueAssumption
<1>0. TypeOK /\ Turns /\ Waiting /\ Counts /\ UnderWay /\ Executed
  BY DEF QueueInv
<1>1. /\ worker[b] # "none" /\ sent[b] < size[b]
      /\ items' = Append(items, [batch |-> b, nth |-> sent[b] + 1])
      /\ sent' = [sent EXCEPT ![b] = sent[b] + 1]
      /\ UNCHANGED <<size, pending, active, total, done, failed, status, worker, goal, item, ran>>
  BY DEF Feed, counters
<1>2. b \in Nat \ {0} /\ b <= MaxBatches /\ sent \in [Batches -> Nat]
  BY <1>0 DEF Batches, TypeOK
<1>3. b = Current
  <2>1. ~(b > Current)
    BY <1>0, <1>1 DEF Turns
  <2>2. ~(b < Current)
    BY <1>0, <1>1, <1>2 DEF UnderWay
  <2> QED BY <1>2, <2>1, <2>2, QueueNumbers
<1>4. size[b] \in Nat /\ size[b] <= MaxTasks
  BY <1>2, <1>3, QueueNumbers, QueueFacts
<1> DEFINE t == [batch |-> b, nth |-> sent[b] + 1]
<1>5. t \in Tasks
  BY <1>1, <1>2, <1>4 DEF Tasks, Batches
<1>6. /\ items' \in Seq(Tasks) /\ Len(items') = Len(items) + 1 /\ items'[Len(items) + 1] = t
      /\ \A i \in 1..Len(items) : items'[i] = items[i]
  BY <1>0, <1>1, <1>5 DEF TypeOK
<1>7. TypeOK'
  <2>1. items' \in Seq(Tasks) /\ sent' \in [Batches -> Nat]
    BY <1>1, <1>2, <1>6
  <2>2. UNCHANGED <<size, pending, active, total, done, failed, status, worker, goal, item, ran>>
    BY <1>1
  <2> QED BY <1>0, <2>1, <2>2 DEF TypeOK
<1>8. Turns' /\ Waiting'
  BY <1>0, <1>1 DEF Turns, Waiting, Current
<1>9. Counts'
  BY <1>0, <1>1 DEF Counts, Current, Run
<1>10. Executed'
  BY <1>0, <1>1, InOrderKept DEF Executed, Current, Run
<1>11. UNCHANGED <<Current, Run, Held>>
  BY <1>1 DEF Current, Run, Held
<1>12. UnderWay'
  <2>1. sent'[b] = sent[b] + 1 /\ \A c \in Batches : c # b => sent'[c] = sent[c]
    BY <1>1, <1>2
  <2>2. Run + Held + Len(items) = sent[b] /\ Held \in Nat
    BY <1>0, <1>2, <1>3 DEF UnderWay, Held
  <2>3. Run + Held + Len(items') = sent'[b] /\ sent'[b] <= size[b]
    BY <1>1, <1>2, <1>4, <1>6, <2>1, <2>2, QueueNumbers
  <2>4. items'[Len(items) + 1] = [batch |-> b, nth |-> Run + Held + (Len(items) + 1)]
    BY <1>6, <2>2, QueueNumbers
  <2>5. \A i \in 1..Len(items') : i \in 1..Len(items) \/ i = Len(items) + 1
    BY <1>6, QueueNumbers
  <2>6. \A i \in 1..Len(items') : items'[i] = [batch |-> b, nth |-> Run + Held + i]
    BY <1>0, <1>2, <1>3, <1>6, <2>4, <2>5 DEF UnderWay
  <2>7. worker'[b] = "execute" => item'[b] = [batch |-> b, nth |-> Run + 1]
    BY <1>0, <1>1, <1>2, <1>3 DEF UnderWay
  <2>8. \A c \in Batches : (c < b => sent'[c] = size'[c]) /\ (c > b => sent'[c] = 0)
    BY <1>0, <1>1, <1>2, <1>3, <2>1 DEF UnderWay, Batches
  <2> QED BY <1>1, <1>2, <1>3, <1>11, <2>3, <2>6, <2>7, <2>8 DEF UnderWay
<1> QED BY <1>7, <1>8, <1>9, <1>10, <1>12 DEF QueueInv

\* Only the worker of the current batch takes a step.
LEMMA WorkerIsCurrent ==
  ASSUME QueueInv, NEW b \in Batches, worker[b] \notin {"none", "ended"}
  PROVE  /\ b = Current /\ b \in Nat \ {0} /\ b <= Len(size) /\ size[b] \in Nat \ {0} /\ size[b] <= MaxTasks
         /\ total = size[b] /\ active
         /\ sent[b] \in Nat /\ sent[b] <= size[b] /\ Held \in Nat /\ Run + Held + Len(items) = sent[b]
<1>1. TypeOK /\ Turns /\ Counts /\ UnderWay
  BY DEF QueueInv
<1>2. b \in Nat \ {0}
  BY QueueAssumption DEF Batches
<1>3. b = Current
  BY <1>1, <1>2, QueueNumbers DEF Turns
<1>4. b <= Len(size) /\ size[b] \in Nat \ {0} /\ size[b] <= MaxTasks
  BY <1>2, <1>3, QueueNumbers, QueueFacts
<1>5. active /\ total = size[b]
  BY <1>1, <1>2, <1>3 DEF Turns, Counts
<1>6. sent[b] \in Nat /\ Held \in Nat
  BY <1>1 DEF TypeOK, Held
<1>7. sent[b] <= size[b] /\ Run + Held + Len(items) = sent[b]
  BY <1>1, <1>2, <1>3 DEF UnderWay
<1> QED BY <1>2, <1>3, <1>4, <1>5, <1>6, <1>7

LEMMA BeginKeeps ==
  ASSUME QueueInv, NEW b \in Batches, Begin(b)
  PROVE  QueueInv'
<1>0. TypeOK /\ Turns /\ Waiting /\ Counts /\ UnderWay /\ Executed
  BY DEF QueueInv
<1>1. /\ worker[b] = "started"
      /\ goal' = [goal EXCEPT ![b] = total]
      /\ worker' = [worker EXCEPT ![b] = "receive"]
      /\ UNCHANGED <<size, items, pending, active, total, done, failed, status, item, sent, ran>>
  BY DEF Begin, counters
<1>2. b = Current /\ b # 0 /\ size[b] > 0 /\ total = size[b]
  BY <1>1, WorkerIsCurrent
<1>3. TypeOK'
  BY <1>0, <1>1 DEF TypeOK
<1>4. /\ worker'[b] = "receive" /\ \A c \in Batches : c # b => worker'[c] = worker[c]
      /\ goal'[b] = total
  BY <1>0, <1>1 DEF TypeOK
<1>5. UNCHANGED <<Current, Run, Held>>
  BY <1>1, <1>2, <1>4 DEF Current, Run, Held
<1>6. Turns' /\ Waiting'
  BY <1>0, <1>1, <1>2, <1>4, <1>5 DEF Turns, Waiting
<1>7. Counts'
  BY <1>0, <1>1, <1>2, <1>4, <1>5 DEF Counts
<1>8. UnderWay'
  BY <1>0, <1>1, <1>2, <1>4, <1>5 DEF UnderWay
<1>9. Executed'
  BY <1>0, <1>1, <1>5, InOrderKept DEF Executed
<1> QED BY <1>3, <1>6, <1>7, <1>8, <1>9 DEF QueueInv

LEMMA ReceiveKeeps ==
  ASSUME QueueInv, NEW b \in Batches, Receive(b)
  PROVE  QueueInv'
<1>0. TypeOK /\ Turns /\ Waiting /\ Counts /\ UnderWay /\ Executed
  BY DEF QueueInv
<1>1. /\ worker[b] = "receive" /\ items # <<>>
      /\ item' = [item EXCEPT ![b] = Head(items)]
      /\ items' = Tail(items)
      /\ worker' = [worker EXCEPT ![b] = "execute"]
      /\ UNCHANGED <<size, pending, active, total, done, failed, status, goal, sent, ran>>
  BY DEF Receive, counters
<1>2. b = Current /\ b # 0 /\ size[b] \in Nat /\ total = size[b] /\ sent[b] <= size[b]
      /\ Run + Held + Len(items) = sent[b]
  BY <1>1, WorkerIsCurrent
<1>3. /\ Len(items) > 0 /\ Len(items') = Len(items) - 1 /\ Head(items) = items[1]
      /\ \A i \in 1..Len(items') : items'[i] = items[i + 1]
      /\ items' \in Seq(Tasks) /\ items[1] \in Tasks
  BY <1>0, <1>1 DEF TypeOK
<1>4. TypeOK'
  BY <1>0, <1>1, <1>3 DEF TypeOK
<1>5. /\ worker'[b] = "execute" /\ \A c \in Batches : c # b => worker'[c] = worker[c]
      /\ item'[b] = items[1]
  BY <1>0, <1>1, <1>3 DEF TypeOK
<1>6. UNCHANGED <<Current, Run>> /\ Held = 0 /\ Held' = 1
  BY <1>1, <1>2, <1>5 DEF Current, Run, Held
<1>7. Turns' /\ Waiting'
  BY <1>0, <1>1, <1>2, <1>5, <1>6 DEF Turns, Waiting
<1>8. Counts'
  BY <1>0, <1>1, <1>2, <1>5, <1>6 DEF Counts
<1>9. UnderWay'
  <2>1. items[1] = [batch |-> b, nth |-> Run + 1]
    BY <1>0, <1>2, <1>3, <1>6, QueueNumbers DEF UnderWay
  <2>2. \A i \in 1..Len(items') : i + 1 \in 1..Len(items) /\ Run + 0 + (i + 1) = Run + 1 + i
    BY <1>3, QueueNumbers
  <2>3. \A i \in 1..Len(items') : items'[i] = [batch |-> b, nth |-> Run + 1 + i]
    BY <1>0, <1>2, <1>3, <1>6, <2>2 DEF UnderWay
  <2>4. Run + 1 + Len(items') = sent[b]
    BY <1>2, <1>3, <1>6, QueueNumbers
  <2> QED BY <1>0, <1>1, <1>2, <1>5, <1>6, <2>1, <2>3, <2>4 DEF UnderWay
<1>10. Executed'
  BY <1>0, <1>1, <1>6, InOrderKept DEF Executed
<1> QED BY <1>4, <1>7, <1>8, <1>9, <1>10 DEF QueueInv

LEMMA ExecuteKeeps ==
  ASSUME QueueInv, NEW b \in Batches, Execute(b)
  PROVE  QueueInv'
<1>0. TypeOK /\ Turns /\ Waiting /\ Counts /\ UnderWay /\ Executed
  BY DEF QueueInv
<1>1. /\ worker[b] = "execute"
      /\ ran' = Append(ran, item[b])
      /\ \/ done' = done + 1 /\ failed' = failed
         \/ failed' = failed + 1 /\ done' = done
      /\ worker' = [worker EXCEPT ![b] = "publish"]
      /\ UNCHANGED <<size, items, pending, active, total, status, goal, item, sent>>
  BY DEF Execute
<1>2. b = Current /\ b \in Nat \ {0} /\ b <= Len(size) /\ size[b] \in Nat /\ size[b] <= MaxTasks
      /\ total = size[b] /\ sent[b] <= size[b] /\ Run + Held + Len(items) = sent[b]
  BY <1>1, WorkerIsCurrent
<1>3. /\ worker'[b] = "publish" /\ \A c \in Batches : c # b => worker'[c] = worker[c]
  BY <1>0, <1>1 DEF TypeOK
<1>4. Current' = Current /\ Run' = Run + 1 /\ Held = 1 /\ Held' = 0
  BY <1>0, <1>1, <1>2, <1>3 DEF Current, Run, Held, TypeOK
<1> DEFINE t == [batch |-> b, nth |-> Run + 1]
<1>5. item[b] = t /\ t \in Tasks /\ Run + 1 <= size[b]
  <2>1. item[b] = t
    BY <1>0, <1>1, <1>2 DEF UnderWay
  <2>2. Run + 1 <= size[b]
    BY <1>2, <1>4, QueueNumbers
  <2>3. Run + 1 \in 1..MaxTasks /\ b \in Batches
    BY <1>2, <2>2, QueueNumbers, QueueAssumption
  <2> QED BY <2>1, <2>2, <2>3 DEF Tasks
<1>6. /\ ran' \in Seq(Tasks) /\ Len(ran') = Len(ran) + 1 /\ ran'[Len(ran) + 1] = t
      /\ \A k \in 1..Len(ran) : ran'[k] = ran[k]
      /\ ran' # <<>>
  <2>1. ran \in Seq(Tasks) /\ ran' = Append(ran, t) /\ t \in Tasks
    BY <1>0, <1>1, <1>5 DEF TypeOK
  <2> HIDE DEF t
  <2> QED BY <2>1
<1>7. TypeOK'
  <2>1. ran' \in Seq(Tasks)
    BY <1>6
  <2>2. done' \in Nat /\ failed' \in Nat
    BY <1>0, <1>1 DEF TypeOK
  <2>3. worker' \in [Batches -> {"none", "started", "receive", "execute", "publish",
                                  "complete", "ended"}]
    BY <1>0, <1>1 DEF TypeOK
  <2>4. UNCHANGED <<size, items, pending, active, total, status, goal, item, sent>>
    BY <1>1
  <2> QED BY <1>0, <2>1, <2>2, <2>3, <2>4 DEF TypeOK
<1>8. Turns' /\ Waiting'
  BY <1>0, <1>1, <1>2, <1>3, <1>4 DEF Turns, Waiting
<1>9. Counts'
  BY <1>0, <1>1, <1>2, <1>3, <1>4, QueueNumbers DEF Counts
<1>10. UnderWay'
  <2>1. \A i \in Nat : Run + 1 + 0 + i = Run + 1 + i
    BY QueueNumbers
  <2>2. Run' + Held' + Len(items') = sent'[b]
    BY <1>1, <1>2, <1>4, QueueNumbers
  <2>3. \A i \in 1..Len(items) : items[i] = [batch |-> b, nth |-> Run + 1 + i]
    BY <1>0, <1>2, <1>4 DEF UnderWay
  <2>4. \A i \in 1..Len(items) : items[i] = [batch |-> b, nth |-> Run' + Held' + i]
    BY <1>4, <2>1, <2>3
  <2> QED BY <1>0, <1>1, <1>2, <1>3, <1>4, <2>2, <2>4 DEF UnderWay
<1>11. InOrder'
  <2>1. CASE ran = <<>>
    <3>1. Run = 0 /\ b = 1
      BY <1>0, <1>2, <2>1, QueueNumbers DEF Executed
    <3> QED BY <1>6, <2>1, <3>1 DEF InOrder
  <2>2. CASE ran # <<>>
    <3>1. Len(ran) \in Nat \ {0}
      BY <1>0, <2>2 DEF TypeOK
    <3>2. Follows(ran[Len(ran)], t)
      <4>1. CASE Run > 0
        BY <1>0, <1>2, <1>5, <4>1 DEF Executed, Follows
      <4>2. CASE Run = 0
        <5>1. b > 1 /\ ran[Len(ran)] = [batch |-> b - 1, nth |-> size[b - 1]] /\ (b - 1) + 1 = b
          BY <1>0, <1>2, <2>2, <4>2 DEF Executed
        <5> QED BY <4>2, <5>1 DEF Follows
      <4> QED BY <4>1, <4>2, QueueNumbers
    <3>3. ASSUME NEW k \in 1..Len(ran') - 1 PROVE Follows(ran[k], ran[k + 1])'
      <4>1. CASE k = Len(ran)
        <5>1. ran'[k] = ran[Len(ran)] /\ ran'[k + 1] = t
          BY <1>6, <3>1, <4>1
        <5> QED BY <1>1, <3>2, <5>1 DEF Follows
      <4>2. CASE k # Len(ran)
        BY <1>0, <1>1, <1>6, <3>1, <4>2 DEF Executed, InOrder, Follows
      <4> QED BY <4>1, <4>2
    <3>4. ran'[1] = [batch |-> 1, nth |-> 1]
      BY <1>0, <1>6, <2>2, <3>1 DEF Executed, InOrder
    <3> QED BY <3>3, <3>4 DEF InOrder
  <2> QED BY <2>1, <2>2
<1>12. Executed'
  <2>1. \A k \in 1..Len(ran') : ran'[k].batch <= Current'
    <3>1. \A k \in 1..Len(ran') : k \in 1..Len(ran) \/ k = Len(ran) + 1
      BY <1>6, QueueNumbers
    <3>2. ran'[Len(ran) + 1].batch = b /\ Current' = b
      BY <1>2, <1>4, <1>6
    <3>3. \A k \in 1..Len(ran) : ran'[k].batch <= b
      BY <1>2, <1>6, QueueFacts
    <3> QED BY <1>2, <3>1, <3>2, <3>3
  <2> QED BY <1>2, <1>4, <1>6, <1>11, <2>1, QueueNumbers DEF Executed
<1> QED BY <1>7, <1>8, <1>9, <1>10, <1>12 DEF QueueInv

LEMMA PublishKeeps ==
  ASSUME QueueInv, NEW b \in Batches, Publish(b)
  PROVE  QueueInv'
<1>0. TypeOK /\ Turns /\ Waiting /\ Counts /\ UnderWay /\ Executed
  BY DEF QueueInv
<1> DEFINE where == IF done + failed >= goal[b] THEN "complete" ELSE "receive"
<1>1. /\ worker[b] = "publish"
      /\ status' = [status EXCEPT !.done = done, !.failed = failed]
      /\ worker' = [worker EXCEPT ![b] = where]
      /\ UNCHANGED <<size, items, pending, active, total, done, failed, goal, item, sent, ran>>
  BY DEF Publish, counters
<1>2. b = Current /\ b # 0 /\ size[b] \in Nat /\ total = size[b] /\ sent[b] <= size[b] /\ active
      /\ Held \in Nat /\ Run + Held + Len(items) = sent[b]
  BY <1>1, WorkerIsCurrent
<1>3. /\ worker'[b] = where /\ \A c \in Batches : c # b => worker'[c] = worker[c]
      /\ status'.batch = status.batch /\ (status'.running <=> status.running)
  BY <1>0, <1>1 DEF TypeOK
<1>4. TypeOK'
  BY <1>0, <1>1 DEF TypeOK
<1>5. UNCHANGED <<Current, Run>> /\ Held = 0 /\ Held' = 0
  BY <1>1, <1>2, <1>3 DEF Current, Run, Held
<1>6. Turns' /\ Waiting'
  BY <1>0, <1>1, <1>2, <1>3, <1>5 DEF Turns, Waiting, Current
<1>7. Run <= size[b] /\ goal[b] = size[b]
  BY <1>0, <1>1, <1>2, <1>5, QueueNumbers DEF Counts
<1>8. IF Run = size[b] THEN where = "complete" ELSE where = "receive" /\ Run < size[b]
  BY <1>2, <1>7, QueueNumbers DEF Run
<1>9. Counts'
  BY <1>0, <1>1, <1>2, <1>3, <1>5, <1>7, <1>8 DEF Counts
<1>10. UnderWay'
  BY <1>0, <1>1, <1>2, <1>3, <1>5, <1>8 DEF UnderWay
<1>11. Executed'
  BY <1>0, <1>1, <1>5, InOrderKept DEF Executed
<1> QED BY <1>4, <1>6, <1>9, <1>10, <1>11 DEF QueueInv

LEMMA CompleteKeeps ==
  ASSUME QueueInv, NEW b \in Batches, Complete(b)
  PROVE  QueueInv'
<1>0. TypeOK /\ Turns /\ Waiting /\ Counts /\ UnderWay /\ Executed
  BY DEF QueueInv
<1>1. worker[b] = "complete" /\ UNCHANGED <<size, items, goal, item, sent, ran>>
  BY DEF Complete
<1>2. b = Current /\ b \in Nat \ {0} /\ b <= Len(size) /\ size[b] \in Nat \ {0} /\ total = size[b]
      /\ sent[b] <= size[b] /\ active /\ Held \in Nat /\ Run + Held + Len(items) = sent[b]
  BY <1>1, WorkerIsCurrent
<1>3. Run = size[b] /\ Held = 0
  BY <1>0, <1>1, <1>2 DEF Counts, Held
<1>4. sent[b] = size[b] /\ Len(items) = 0
  BY <1>2, <1>3, QueueNumbers
<1>5. items = <<>>
  BY <1>0, <1>4 DEF TypeOK
<1>6. CASE pending = <<>>
  <2>1. /\ active' = FALSE
        /\ status' = [status EXCEPT !.running = FALSE, !.done = done, !.failed = failed]
        /\ worker' = [worker EXCEPT ![b] = "ended"]
        /\ UNCHANGED <<pending, total, done, failed>>
    BY <1>6 DEF Complete, counters
  <2>2. /\ worker'[b] = "ended" /\ \A c \in Batches : c # b => worker'[c] = worker[c]
        /\ status'.batch = status.batch /\ ~status'.running
        /\ status'.done = done /\ status'.failed = failed
    BY <1>0, <2>1 DEF TypeOK
  <2>3. TypeOK'
    BY <1>0, <1>1, <2>1 DEF TypeOK
  <2>4. UNCHANGED <<Current, Run>> /\ Held' = 0
    BY <1>2, <2>1, <2>2 DEF Current, Run, Held
  <2>5. Len(size) = b
    <3>1. Len(pending) = 0 /\ Len(pending) = Len(size) - Current
      BY <1>0, <1>6 DEF Waiting
    <3> QED BY <1>2, <3>1, QueueNumbers
  <2>6. Turns'
    BY <1>0, <1>1, <1>2, <2>1, <2>2, <2>4 DEF Turns
  <2>7. Waiting'
    BY <1>0, <1>1, <1>2, <2>1, <2>4, <2>5 DEF Waiting
  <2>8. Counts'
    BY <1>0, <1>1, <1>2, <1>3, <2>1, <2>2, <2>4 DEF Counts
  <2>9. UnderWay'
    BY <1>0, <1>1, <1>2, <1>3, <2>1, <2>2, <2>4 DEF UnderWay
  <2>10. Executed'
    BY <1>0, <1>1, <2>1, <2>4, InOrderKept DEF Executed
  <2> QED BY <2>3, <2>6, <2>7, <2>8, <2>9, <2>10 DEF QueueInv
<1>7. CASE pending # <<>>
  <2> DEFINE n == b + 1
  <2>1. Len(pending) > 0 /\ Len(pending) = Len(size) - b
    BY <1>0, <1>2, <1>7 DEF Waiting, TypeOK
  <2>2. n \in Nat /\ n \in Batches /\ n <= Len(size) /\ size[n] \in Nat \ {0}
    BY <1>2, <2>1, QueueNumbers, QueueFacts, QueueAssumption DEF Batches
  <2>3. /\ Head(pending) = n
        /\ Tail(pending) \in Seq(Batches) /\ Len(Tail(pending)) = Len(pending) - 1
        /\ \A i \in 1..Len(pending) - 1 : Tail(pending)[i] = pending[i + 1]
    BY <1>0, <1>2, <1>7, <2>1 DEF Waiting, TypeOK
  <2>4. /\ pending' = Tail(pending)
        /\ total' = size[n] /\ done' = 0 /\ failed' = 0 /\ active' = TRUE
        /\ status' = [batch |-> n, running |-> TRUE, done |-> 0, failed |-> 0]
        /\ worker' = [worker EXCEPT ![b] = "ended", ![n] = "started"]
    BY <1>7, <2>3 DEF Complete, StartBatch
  <2>5. /\ worker'[b] = "ended" /\ worker'[n] = "started"
        /\ \A c \in Batches : c # b /\ c # n => worker'[c] = worker[c]
    BY <1>0, <1>2, <2>2, <2>4 DEF TypeOK
  <2>6. Current' = n /\ Run' = 0 /\ Held' = 0 /\ status'.running
    BY <2>4, <2>5 DEF Current, Run, Held
  <2>7. TypeOK'
    <3>1. pending' \in Seq(Batches)
      BY <2>3, <2>4
    <3>2. total' \in Nat /\ done' \in Nat /\ failed' \in Nat /\ active' \in BOOLEAN
      BY <2>2, <2>4
    <3>3. n \in 0..MaxBatches
      BY <2>2, QueueAssumption DEF Batches
    <3> HIDE DEF n
    <3>4. status' \in [batch : 0..MaxBatches, running : BOOLEAN, done : Nat, failed : Nat]
      BY <2>4, <3>3
    <3>5. worker' \in [Batches -> {"none", "started", "receive", "execute", "publish",
                                    "complete", "ended"}]
      BY <1>0, <2>4 DEF TypeOK
    <3> QED BY <1>0, <1>1, <3>1, <3>2, <3>4, <3>5 DEF TypeOK
  <2>8. Turns'
    <3>1. \A c \in Batches : (c < n => worker'[c] = "ended") /\ (c > n => worker'[c] = "none")
      <4>1. \A c \in Batches : c \in Nat /\ (c < n => c = b \/ c < b) /\ (c > n => c > b /\ c # b)
        BY <1>2, QueueAssumption DEF Batches
      <4> QED BY <1>0, <1>2, <2>5, <4>1 DEF Turns
    <3>2. active' /\ n # 0 /\ n <= Len(size')
      BY <1>1, <1>2, <2>2, <2>4
    <3> QED BY <2>5, <2>6, <3>1, <3>2 DEF Turns
  <2>9. Waiting'
    <3>1. Len(pending') = Len(size') - n
      BY <1>1, <1>2, <2>1, <2>3, <2>4, QueueNumbers
    <3>2. \A i \in 1..Len(pending') : i + 1 \in 1..Len(pending) /\ b + (i + 1) = n + i
      BY <1>2, <2>1, <2>3, <2>4, QueueNumbers
    <3>3. \A i \in 1..Len(pending') : pending'[i] = n + i
      BY <1>0, <1>2, <2>3, <2>4, <3>2 DEF Waiting
    <3> QED BY <2>4, <2>6, <3>1, <3>3 DEF Waiting
  <2>10. Counts'
    BY <1>1, <2>2, <2>4, <2>5, <2>6 DEF Counts
  <2>11. UnderWay'
    <3>1. \A c \in Batches : (c < n => sent[c] = size[c]) /\ (c > n => sent[c] = 0)
      BY <1>0, <1>2, <1>4, QueueAssumption DEF UnderWay, Batches
    <3>2. sent[n] = 0
      BY <1>0, <1>2, <2>2 DEF UnderWay
    <3>3. items' = <<>> /\ Len(items') = 0
      BY <1>1, <1>5
    <3> QED BY <1>1, <2>2, <2>5, <2>6, <3>1, <3>2, <3>3 DEF UnderWay
  <2>12. Executed'
    <3>1. ran # <<>> /\ ran[Len(ran)] = [batch |-> b, nth |-> size[b]]
      BY <1>0, <1>2, <1>3 DEF Executed
    <3>2. \A k \in 1..Len(ran) : ran[k].batch <= n
      BY <1>2, QueueNumbers, QueueFacts
    <3>3. n > 1 /\ n - 1 = b
      BY <1>2
    <3>4. InOrder'
      BY <1>1, InOrderKept
    <3> QED BY <1>1, <2>6, <3>1, <3>2, <3>3, <3>4 DEF Executed
  <2> QED BY <2>7, <2>8, <2>9, <2>10, <2>11, <2>12 DEF QueueInv
<1> QED BY <1>6, <1>7

LEMMA QueueStep == QueueInv /\ [Next]_vars => QueueInv'
<1> SUFFICES ASSUME QueueInv, [Next]_vars PROVE QueueInv'
  OBVIOUS
<1>1. CASE UNCHANGED vars
  BY <1>1 DEF vars, counters, QueueInv, TypeOK, Turns, Waiting, Counts, UnderWay, Executed, InOrder,
     Follows, Current, Run, Held
<1>2. ASSUME NEW n \in 1..MaxTasks, Enqueue(n) PROVE QueueInv'
  BY <1>2, EnqueueKeeps
<1>3. ASSUME NEW b \in Batches, Feed(b) \/ Worker(b) PROVE QueueInv'
  BY <1>3, FeedKeeps, BeginKeeps, ReceiveKeeps, ExecuteKeeps, PublishKeeps, CompleteKeeps DEF Worker
<1> QED BY <1>1, <1>2, <1>3 DEF Next

LEMMA QueueCorrect ==
  ASSUME QueueInv
  PROVE  InOrder /\ IdleMeansDone /\ OneWorker
<1>0. TypeOK /\ Turns /\ Waiting /\ Counts /\ UnderWay /\ Executed
  BY DEF QueueInv
<1>1. InOrder
  BY <1>0 DEF Executed
<1>2. ASSUME NEW b \in Batches, Alive(b) PROVE b = Current /\ active
  BY <1>2, WorkerIsCurrent DEF Alive
<1>3. active => Current \in Batches /\ Alive(Current)
  BY <1>0, QueueNumbers, QueueAssumption DEF Turns, Alive, Batches
<1>4. OneWorker
  BY <1>2, <1>3 DEF OneWorker
<1>5. IdleMeansDone
  <2>1. SUFFICES ASSUME ~status.running, size # <<>>
                 PROVE  LET b == Len(size) IN
                        /\ ran # <<>> /\ ran[Len(ran)] = [batch |-> b, nth |-> size[b]]
                        /\ status.batch = b /\ status.done + status.failed = size[b]
    BY DEF IdleMeansDone
  <2>2. ~active /\ Current = Len(size)
    BY <1>0, <2>1 DEF Turns, Waiting
  <2>3. Len(size) \in Nat \ {0}
    BY <1>0, <2>1 DEF TypeOK
  <2>4. worker[Current] = "ended" /\ size[Current] > 0
    BY <1>0, <2>2, <2>3, QueueFacts DEF Turns
  <2>5. Run = size[Current] /\ status.done = done /\ status.failed = failed
    BY <1>0, <2>2, <2>3, <2>4 DEF Counts
  <2>6. ran # <<>> /\ ran[Len(ran)] = [batch |-> Current, nth |-> Run]
    BY <1>0, <2>4, <2>5 DEF Executed
  <2> QED BY <2>2, <2>5, <2>6 DEF Current, Run
<1> QED BY <1>1, <1>4, <1>5

LEMMA QueueInit == Init => QueueInv
<1> SUFFICES ASSUME Init PROVE QueueInv
  OBVIOUS
<1>0. size = <<>> /\ ran = <<>> /\ items = <<>> /\ pending = <<>> /\ active = FALSE
  BY DEF Init
<1>1. Len(size) = 0 /\ Len(ran) = 0 /\ Len(pending) = 0 /\ Len(items) = 0
  BY <1>0
<1>2. Current = 0 /\ ~status.running /\ Run = 0
  BY DEF Init, Current, Run
<1>3. \A b \in Batches : worker[b] = "none" /\ sent[b] = 0 /\ b \in Nat \ {0}
  BY QueueAssumption DEF Init, Batches
<1>4. TypeOK
  <2>1. size \in Seq(1..MaxTasks) /\ items \in Seq(Tasks) /\ pending \in Seq(Batches) /\ ran \in Seq(Tasks)
    BY <1>0
  <2>2. Len(size) <= MaxBatches
    BY <1>1, QueueAssumption
  <2>3. active \in BOOLEAN /\ total \in Nat /\ done \in Nat /\ failed \in Nat
    BY DEF Init
  <2>4. status \in [batch : 0..MaxBatches, running : BOOLEAN, done : Nat, failed : Nat]
    BY QueueAssumption DEF Init
  <2>5. worker \in [Batches -> {"none", "started", "receive", "execute", "publish",
                                 "complete", "ended"}]
    BY DEF Init
  <2>6. goal \in [Batches -> Nat] /\ sent \in [Batches -> Nat]
    BY DEF Init
  <2>7. item \in [Batches -> Tasks \union {NoTask}]
    BY DEF Init
  <2> QED BY <2>1, <2>2, <2>3, <2>4, <2>5, <2>6, <2>7 DEF TypeOK
<1>5. Turns
  BY <1>0, <1>1, <1>2, <1>3 DEF Turns
<1>6. Waiting
  BY <1>1, <1>2 DEF Waiting
<1>7. Counts
  BY <1>2 DEF Counts
<1>8. UnderWay
  BY <1>0, <1>2, <1>3 DEF UnderWay
<1>9. InOrder
  BY <1>0, <1>1 DEF InOrder
<1>10. Executed
  BY <1>0, <1>1, <1>2, <1>9 DEF Executed
<1> QED BY <1>4, <1>5, <1>6, <1>7, <1>8, <1>10 DEF QueueInv

-----------------------------------------------------------------------------
(* CronScheduler                                                           *)

Executions == [job : Jobs, schedule : Cron!Schedules, phase : {"run", "ran"}]
Busy(e) == exec[e] # Idle

CronTypes == /\ Cron!TypeOK
             /\ exec \in [Slots -> Executions \union {Idle}]

\* What is executed or listed.
Claims ==
    /\ \A e, f \in Slots : Busy(e) /\ Busy(f) /\ exec[e].job = exec[f].job => e = f
    /\ \A e \in Slots : Busy(e) => /\ exec[e].job \in exists \ found
                                   /\ exec[e].schedule = schedule[exec[e].job]
                                   /\ next[exec[e].job] = "sentinel"
    /\ \A j \in found : j \in exists /\ Cron!IsDue(j) /\ listed[j] = schedule[j]

\* A job that has been started is on the sentinel for ever when its moment has passed.
OneTime ==
    \A j \in Jobs : schedule[j] \in Once =>
        /\ launches[j] <= 1
        /\ next[j] \in {"none", "sentinel", schedule[j]}
        /\ launches[j] > 0 => /\ next[j] = "sentinel" /\ schedule[j] \in passed
                              /\ j \in exists \ found

CronInv == CronTypes /\ Claims /\ OneTime

LEMMA CronFacts ==
  /\ Every # Weekly /\ Every \notin Once /\ Weekly \notin Once
  /\ \A s \in Once : s \notin Cron!Spans
  /\ \A s \in Cron!Schedules : Cron!NextRunTime(s) \in Cron!NextRuns /\ Cron!NextRunTime(s) # "sentinel"
  /\ \A s \in Once : Cron!NextRunTime(s) = IF s \in passed THEN "none" ELSE s
  /\ \A x \in Executions : x # Idle
  /\ DOMAIN Cron!Nearer = {"week", "days", "soon"}
  /\ \A n \in DOMAIN Cron!Nearer : Cron!Nearer[n] \in {"days", "soon", "due"}
<1>1. /\ Every # Weekly /\ Every \notin Once /\ Weekly \notin Once
      /\ \A s \in Once : s \notin Cron!Spans
  BY CronAssumption DEF Cron!Spans
<1>2. \A s \in Cron!Schedules : Cron!NextRunTime(s) \in Cron!NextRuns /\ Cron!NextRunTime(s) # "sentinel"
  BY <1>1 DEF Cron!Schedules, Cron!NextRunTime, Cron!NextRuns, Cron!Spans
<1>3. \A s \in Once : Cron!NextRunTime(s) = IF s \in passed THEN "none" ELSE s
  BY <1>1 DEF Cron!NextRunTime
<1>4. ASSUME NEW x \in Executions PROVE x # Idle
  <2>1. x = [job |-> x.job, schedule |-> x.schedule, phase |-> x.phase]
        /\ x.job \in Jobs /\ x.schedule \in {Every, Weekly} \union Once /\ x.phase \in {"run", "ran"}
    BY DEF Executions, Cron!Schedules
  <2> QED BY <2>1, CronAssumption
<1>5. /\ DOMAIN Cron!Nearer = {"week", "days", "soon"}
      /\ \A n \in DOMAIN Cron!Nearer : Cron!Nearer[n] \in {"days", "soon", "due"}
  BY DEF Cron!Nearer
<1> QED BY <1>1, <1>2, <1>3, <1>4, <1>5

LEMMA ApproachKeeps ==
  ASSUME CronInv, NEW j \in Jobs, Cron!Approach(j)
  PROVE  CronInv'
<1>0. CronTypes /\ Claims /\ OneTime
  BY DEF CronInv
<1>1. next[j] \in DOMAIN Cron!Nearer /\ next' = [next EXCEPT ![j] = Cron!Nearer[next[j]]]
      /\ UNCHANGED <<exists, enabled, executed, schedule, passed, up, stops, found, listed, exec, edit, launches>>
  BY DEF Cron!Approach, Cron!memory
<1>2. next[j] \in {"week", "days", "soon"} /\ next'[j] \in {"days", "soon", "due"}
      /\ \A k \in Jobs : k # j => next'[k] = next[k]
  BY <1>0, <1>1, CronFacts DEF CronTypes, Cron!TypeOK
<1>3. CronTypes'
  BY <1>0, <1>1, <1>2 DEF CronTypes, Cron!TypeOK, Cron!NextRuns, Cron!Spans
<1>4. Claims'
  BY <1>0, <1>1, <1>2, CronFacts DEF CronTypes, Cron!TypeOK, Claims, Busy, Cron!IsDue, Cron!Spans
<1>5. OneTime'
  BY <1>0, <1>1, <1>2, CronFacts DEF OneTime, Cron!Spans
<1> QED BY <1>3, <1>4, <1>5 DEF CronInv

LEMMA PassKeeps ==
  ASSUME CronInv, NEW s \in Once, Cron!Pass(s)
  PROVE  CronInv'
<1>0. CronTypes /\ Claims /\ OneTime
  BY DEF CronInv
<1>1. passed' = passed \union {s}
      /\ UNCHANGED <<exists, enabled, executed, schedule, next, up, stops, found, listed, exec, edit, launches>>
  BY DEF Cron!Pass, Cron!memory, Cron!rows
<1>2. CronTypes'
  BY <1>0, <1>1 DEF CronTypes, Cron!TypeOK
<1>3. Claims'
  BY <1>0, <1>1 DEF Claims, Busy, Cron!IsDue
<1>4. OneTime'
  BY <1>0, <1>1 DEF OneTime
<1> QED BY <1>2, <1>3, <1>4 DEF CronInv

LEMMA CreateKeeps ==
  ASSUME CronInv, NEW j \in Jobs, NEW s \in Cron!Schedules, Cron!Create(j, s)
  PROVE  CronInv'
<1>0. CronTypes /\ Claims /\ OneTime
  BY DEF CronInv
<1>1. /\ j \notin exists /\ launches[j] = 0
      /\ exists' = exists \union {j} /\ enabled' = enabled \union {j}
      /\ schedule' = [schedule EXCEPT ![j] = s]
      /\ next' = [next EXCEPT ![j] = Cron!NextRunTime(s)]
      /\ UNCHANGED <<executed, passed, up, stops, found, listed, exec, edit, launches>>
  BY DEF Cron!Create, Cron!memory
<1>2. /\ schedule'[j] = s /\ next'[j] = Cron!NextRunTime(s)
      /\ \A k \in Jobs : k # j => schedule'[k] = schedule[k] /\ next'[k] = next[k]
  BY <1>0, <1>1 DEF CronTypes, Cron!TypeOK
<1>3. CronTypes'
  BY <1>0, <1>1, CronFacts DEF CronTypes, Cron!TypeOK
<1>4. Claims'
  BY <1>0, <1>1, <1>2, CronFacts DEF CronTypes, Executions, Cron!TypeOK, Claims, Busy, Cron!IsDue
<1>5. OneTime'
  BY <1>0, <1>1, <1>2, CronFacts DEF OneTime
<1> QED BY <1>3, <1>4, <1>5 DEF CronInv

LEMMA PollListKeeps ==
  ASSUME CronInv, Cron!PollList
  PROVE  CronInv'
<1>0. CronTypes /\ Claims /\ OneTime
  BY DEF CronInv
<1>1. /\ up /\ found' = {j \in enabled : Cron!IsDue(j)} /\ listed' = schedule
      /\ UNCHANGED <<exists, enabled, executed, schedule, next, passed, up, stops, exec, edit, launches>>
  BY DEF Cron!PollList, Cron!rows
<1>2. \A j \in found' : j \in enabled /\ j \in exists /\ j \in Jobs /\ next[j] # "sentinel"
  BY <1>0, <1>1, CronFacts DEF CronTypes, Cron!TypeOK, Cron!IsDue, Cron!Spans
<1>3. CronTypes'
  BY <1>0, <1>1, <1>2 DEF CronTypes, Cron!TypeOK
<1>4. Claims'
  BY <1>0, <1>1, <1>2 DEF Claims, Busy, Cron!IsDue
<1>5. OneTime'
  BY <1>0, <1>1, <1>2 DEF OneTime
<1> QED BY <1>3, <1>4, <1>5 DEF CronInv

LEMMA LaunchKeeps ==
  ASSUME CronInv, NEW j \in Jobs, NEW e \in Slots, Cron!Launch(j, e)
  PROVE  CronInv'
<1>0. CronTypes /\ Claims /\ OneTime
  BY DEF CronInv
<1> DEFINE x == [job |-> j, schedule |-> listed[j], phase |-> "run"]
<1>1. /\ j \in found /\ j \in exists /\ ~Busy(e) /\ Cron!IsDue(j) /\ listed[j] = schedule[j]
      /\ found' = found \ {j}
      /\ next' = [next EXCEPT ![j] = "sentinel"]
      /\ exec' = [exec EXCEPT ![e] = x]
      /\ launches' = [launches EXCEPT ![j] = IF launches[j] < 2 THEN launches[j] + 1 ELSE launches[j]]
      /\ UNCHANGED <<exists, enabled, executed, schedule, passed, up, stops, listed, edit>>
  BY <1>0 DEF Cron!Launch, Claims, Busy
<1>2. x \in Executions /\ x # Idle /\ x.job = j /\ x.schedule = schedule[j]
  BY <1>0, <1>1, CronFacts DEF CronTypes, Cron!TypeOK, Executions
<1> HIDE DEF x
<1>3. /\ exec'[e] = x /\ \A f \in Slots : f # e => exec'[f] = exec[f]
      /\ next'[j] = "sentinel" /\ \A k \in Jobs : k # j => next'[k] = next[k] /\ launches'[k] = launches[k]
      /\ up
  BY <1>0, <1>1 DEF CronTypes, Cron!TypeOK
<1>4. CronTypes'
  BY <1>0, <1>1, <1>2, <1>3 DEF CronTypes, Cron!TypeOK, Cron!NextRuns, Cron!Spans
<1>5. next[j] # "sentinel"
  BY <1>0, <1>1, CronFacts DEF CronTypes, Cron!TypeOK, Cron!IsDue, Cron!Spans
<1>6. \A f \in Slots : Busy(f) => exec[f].job # j /\ exec[f].job \in Jobs
  BY <1>0, <1>5 DEF Claims, CronTypes, Cron!TypeOK
<1>7. Claims'
  <2>1. \A f, g \in Slots : Busy(f)' /\ Busy(g)' /\ exec'[f].job = exec'[g].job => f = g
    BY <1>0, <1>2, <1>3, <1>6 DEF Claims, Busy
  <2>2. \A f \in Slots : Busy(f)' => /\ exec'[f].job \in exists \ found'
                                   /\ exec'[f].schedule = schedule[exec'[f].job]
                                   /\ next'[exec'[f].job] = "sentinel"
    BY <1>0, <1>1, <1>2, <1>3, <1>6 DEF Claims, Busy
  <2>3. \A k \in found' : k \in exists /\ Cron!IsDue(k)' /\ listed[k] = schedule[k]
    BY <1>0, <1>1, <1>3 DEF CronTypes, Cron!TypeOK, Claims, Cron!IsDue
  <2> QED BY <1>1, <2>1, <2>2, <2>3 DEF Claims
<1>8. ASSUME schedule[j] \in Once PROVE launches'[j] = 1 /\ schedule[j] \in passed
  <2>1. launches[j] = 0
    BY <1>0, <1>1, <1>8 DEF OneTime, CronTypes, Cron!TypeOK
  <2>2. schedule[j] \in passed
    BY <1>0, <1>1, <1>5, <1>8, CronFacts DEF OneTime, Cron!IsDue, Cron!Spans, CronTypes, Cron!TypeOK
  <2> QED BY <1>0, <1>1, <2>1, <2>2 DEF CronTypes, Cron!TypeOK
<1>9. OneTime'
  BY <1>0, <1>1, <1>3, <1>8 DEF OneTime
<1> QED BY <1>4, <1>7, <1>9 DEF CronInv

LEMMA ExecutedKeeps ==
  ASSUME CronInv, NEW e \in Slots, Cron!Executed(e)
  PROVE  CronInv'
<1>0. CronTypes /\ Claims /\ OneTime
  BY DEF CronInv
<1>1. /\ Busy(e) /\ exec[e].job \in exists
      /\ executed' = executed \union {exec[e].job}
      /\ exec' = [exec EXCEPT ![e].phase = "ran"]
      /\ UNCHANGED <<exists, enabled, schedule, next, passed, up, stops, found, listed, edit, launches>>
  BY <1>0 DEF Cron!Executed, Claims, Busy
<1>2. exec[e] \in Executions
  BY <1>0, <1>1 DEF CronTypes, Busy
<1>3. exec'[e] \in Executions /\ exec'[e].job = exec[e].job /\ exec'[e].schedule = exec[e].schedule
      /\ \A f \in Slots : f # e => exec'[f] = exec[f]
  BY <1>0, <1>1, <1>2 DEF CronTypes, Executions
<1>4. exec' \in [Slots -> Executions \union {Idle}]
  BY <1>0, <1>1, <1>3 DEF CronTypes
<1>5. \A f \in Slots : (Busy(f)' <=> Busy(f))
         /\ (Busy(f) => exec'[f].job = exec[f].job /\ exec'[f].schedule = exec[f].schedule)
  BY <1>1, <1>2, <1>3, CronFacts DEF Busy
<1>6. CronTypes'
  BY <1>0, <1>1, <1>4, <1>5 DEF CronTypes, Cron!TypeOK, Busy
<1>7. Claims'
  BY <1>0, <1>1, <1>5 DEF Claims, Cron!IsDue
<1>8. OneTime'
  BY <1>0, <1>1 DEF OneTime
<1> QED BY <1>6, <1>7, <1>8 DEF CronInv

LEMMA EndKeeps ==
  ASSUME CronInv, NEW e \in Slots, Cron!Reschedule(e) \/ Cron!ExecPanics(e)
  PROVE  CronInv'
<1>0. CronTypes /\ Claims /\ OneTime
  BY DEF CronInv
<1> DEFINE j == exec[e].job
           n == Cron!NextRunTime(schedule[j])
<1>1. Busy(e) /\ j \in exists /\ j \in Jobs /\ j \notin found /\ next[j] = "sentinel"
      /\ exec[e].schedule = schedule[j] /\ schedule[j] \in Cron!Schedules
  BY <1>0 DEF Cron!Reschedule, Cron!ExecPanics, Claims, Busy, CronTypes, Cron!TypeOK
<1>2. /\ exec' = [exec EXCEPT ![e] = Idle]
      /\ next' = next \/ (n # "none" /\ next' = [next EXCEPT ![j] = n])
      /\ enabled' \subseteq enabled
      /\ UNCHANGED <<exists, executed, schedule, passed, up, stops, found, listed, edit, launches>>
  BY <1>1 DEF Cron!Reschedule, Cron!ExecPanics, Cron!rows
<1>3. /\ exec'[e] = Idle /\ \A f \in Slots : f # e => exec'[f] = exec[f]
      /\ \A k \in Jobs : k # j => next'[k] = next[k]
      /\ next'[j] = "sentinel" \/ (n # "none" /\ next'[j] = n)
      /\ next' \in [Jobs -> Cron!NextRuns]
      /\ exec' \in [Slots -> Executions \union {Idle}]
  BY <1>0, <1>1, <1>2, CronFacts DEF CronTypes, Cron!TypeOK
<1>4. CronTypes'
  BY <1>0, <1>2, <1>3 DEF CronTypes, Cron!TypeOK
<1>5. \A f \in Slots : Busy(f)' => f # e /\ Busy(f) /\ exec[f].job # j /\ exec[f].job \in Jobs
  BY <1>0, <1>1, <1>3 DEF Busy, Claims, CronTypes, Cron!TypeOK
<1>6. Claims'
  BY <1>0, <1>1, <1>2, <1>3, <1>5 DEF Claims, Cron!IsDue, CronTypes, Cron!TypeOK, Busy
<1>7. ASSUME schedule[j] \in Once PROVE next'[j] \in {"sentinel", schedule[j]} /\ (launches[j] > 0 => next'[j] = "sentinel")
  BY <1>0, <1>1, <1>3, <1>7, CronFacts DEF OneTime
<1>8. OneTime'
  BY <1>0, <1>1, <1>2, <1>3, <1>7 DEF OneTime
<1> QED BY <1>4, <1>6, <1>8 DEF CronInv

LEMMA DownKeeps ==
  ASSUME CronInv, Cron!Down
  PROVE  CronInv'
<1>0. CronTypes /\ Claims /\ OneTime
  BY DEF CronInv
<1>1. /\ stops < MaxStops /\ stops' = stops + 1 /\ ~up' /\ up' \in BOOLEAN /\ found' = {} /\ exec' = [e \in Slots |-> Idle]
      /\ UNCHANGED <<exists, enabled, executed, schedule, next, passed, listed, launches>>
  BY DEF Cron!Down, Cron!rows
<1>2. CronTypes'
  BY <1>0, <1>1, CronAssumption DEF CronTypes, Cron!TypeOK
<1>3. Claims'
  BY <1>1 DEF Claims, Busy
<1>4. OneTime'
  BY <1>0, <1>1 DEF OneTime
<1> QED BY <1>2, <1>3, <1>4 DEF CronInv

LEMMA StartKeeps ==
  ASSUME CronInv, Cron!Start
  PROVE  CronInv'
<1>0. CronTypes /\ Claims /\ OneTime
  BY DEF CronInv
<1>1. /\ ~up /\ up' /\ up' \in BOOLEAN
      /\ next' = [j \in Jobs |-> IF Cron!Recovered(j) THEN Cron!NextRunTime(schedule[j]) ELSE next[j]]
      /\ UNCHANGED <<exists, enabled, executed, schedule, passed, stops, found, listed, exec, edit, launches>>
  BY DEF Cron!Start, Cron!memory
<1>2. \A j \in Jobs : \/ next'[j] = next[j]
                      \/ next'[j] = Cron!NextRunTime(schedule[j]) /\ next'[j] # "none"
  BY <1>1 DEF Cron!Recovered
<1>3. next' \in [Jobs -> Cron!NextRuns]
  BY <1>0, <1>1, CronFacts DEF CronTypes, Cron!TypeOK
<1>4. CronTypes'
  BY <1>0, <1>1, <1>3 DEF CronTypes, Cron!TypeOK
<1>5. Claims'
  BY <1>0, <1>1 DEF Claims, Busy, CronTypes, Cron!TypeOK
<1>6. OneTime'
  BY <1>0, <1>1, <1>2, CronFacts DEF OneTime
<1> QED BY <1>4, <1>5, <1>6 DEF CronInv

LEMMA CronStep ==
  ASSUME CronInv, Cron!Works \/ Cron!Fails
  PROVE  CronInv'
<1>1. ASSUME NEW j \in Jobs, Cron!Approach(j) PROVE CronInv'
  BY <1>1, ApproachKeeps
<1>2. ASSUME NEW j \in Jobs, NEW s \in Cron!Schedules, Cron!Create(j, s) PROVE CronInv'
  BY <1>2, CreateKeeps
<1>3. ASSUME NEW j \in Jobs, NEW e \in Slots, Cron!Launch(j, e) PROVE CronInv'
  BY <1>3, LaunchKeeps
<1>4. ASSUME NEW s \in Once, Cron!Pass(s) PROVE CronInv'
  BY <1>4, PassKeeps
<1>5. ASSUME NEW e \in Slots, Cron!Execution(e) \/ Cron!ExecPanics(e) PROVE CronInv'
  BY <1>5, ExecutedKeeps, EndKeeps DEF Cron!Execution
<1>6. ASSUME Cron!PollList \/ Cron!Start \/ Cron!Stop \/ Cron!Crash PROVE CronInv'
  BY <1>6, PollListKeeps, StartKeeps, DownKeeps DEF Cron!Stop, Cron!Crash
<1> QED BY <1>1, <1>2, <1>3, <1>4, <1>5, <1>6 DEF Cron!Works, Cron!Fails

Unstuck == \A j \in enabled : next[j] = "sentinel" => \E e \in Slots : Busy(e) /\ exec[e].job = j

LEMMA UnstuckStep ==
  ASSUME CronInv, Unstuck, Cron!Works
  PROVE  Unstuck'
<1>0. CronTypes /\ Claims /\ OneTime
  BY DEF CronInv
<1>1. ASSUME NEW j \in Jobs, Cron!Approach(j) PROVE Unstuck'
  BY <1>0, <1>1, CronFacts DEF Cron!Approach, Cron!memory, Unstuck, Busy, CronTypes, Cron!TypeOK
<1>2. ASSUME NEW j \in Jobs, NEW s \in Cron!Schedules, Cron!Create(j, s) PROVE Unstuck'
  BY <1>0, <1>2, CronFacts DEF Cron!Create, Cron!memory, Unstuck, Busy, CronTypes, Cron!TypeOK
<1>3. ASSUME NEW j \in Jobs, NEW e \in Slots, Cron!Launch(j, e) PROVE Unstuck'
  <2> DEFINE x == [job |-> j, schedule |-> listed[j], phase |-> "run"]
  <2>1. x \in Executions /\ x # Idle /\ x.job = j
    BY <1>0, <1>3, CronFacts DEF CronTypes, Cron!TypeOK, Executions
  <2>2. exec' = [exec EXCEPT ![e] = x] /\ exec[e] = Idle /\ enabled' = enabled
        /\ \A k \in Jobs : k # j => next'[k] = next[k]
    BY <1>0, <1>3 DEF Cron!Launch, CronTypes, Cron!TypeOK
  <2> HIDE DEF x
  <2>3. exec'[e] = x /\ \A f \in Slots : f # e => exec'[f] = exec[f]
    BY <1>0, <2>2 DEF CronTypes
  <2> QED BY <1>0, <2>1, <2>2, <2>3 DEF Unstuck, Busy, CronTypes, Cron!TypeOK
<1>4. ASSUME NEW s \in Once, Cron!Pass(s) PROVE Unstuck'
  BY <1>4 DEF Cron!Pass, Cron!memory, Cron!rows, Unstuck, Busy
<1>5. ASSUME NEW e \in Slots, Cron!Executed(e) PROVE Unstuck'
  <2>1. exec[e] \in Executions /\ exec' = [exec EXCEPT ![e].phase = "ran"] /\ UNCHANGED <<enabled, next>>
    BY <1>0, <1>5 DEF Cron!Executed, CronTypes
  <2>2. exec'[e] \in Executions /\ exec'[e].job = exec[e].job /\ \A f \in Slots : f # e => exec'[f] = exec[f]
    BY <1>0, <2>1 DEF CronTypes, Executions
  <2> QED BY <2>1, <2>2, CronFacts DEF Unstuck, Busy
<1>6. ASSUME NEW e \in Slots, Cron!Reschedule(e) PROVE Unstuck'
  <2> DEFINE j == exec[e].job
             n == Cron!NextRunTime(schedule[j])
  <2>1. Busy(e) /\ j \in exists /\ j \in Jobs /\ exec[e].schedule = schedule[j] /\ n # "sentinel"
    BY <1>0, <1>6, CronFacts DEF Cron!Reschedule, Claims, Busy, CronTypes, Cron!TypeOK
  <2>2. /\ exec' = [exec EXCEPT ![e] = Idle]
        /\ IF n = "none" THEN enabled' = enabled \ {j} /\ next' = next
           ELSE enabled' = enabled /\ next' = [next EXCEPT ![j] = n]
    BY <1>6, <2>1 DEF Cron!Reschedule
  <2> HIDE DEF n
  <2>3. /\ \A f \in Slots : f # e => exec'[f] = exec[f]
        /\ \A k \in enabled' : k \in enabled /\ k \in Jobs /\ (k = j => next'[k] = n) /\ (k # j => next'[k] = next[k])
    BY <1>0, <2>1, <2>2 DEF CronTypes, Cron!TypeOK
  <2> QED BY <2>1, <2>3 DEF Unstuck, Busy
<1>7. ASSUME Cron!PollList \/ Cron!Stop PROVE Unstuck'
  BY <1>0, <1>7 DEF Cron!PollList, Cron!Stop, Cron!Down, Cron!rows, Unstuck, Busy
<1>8. ASSUME Cron!Start PROVE Unstuck'
  <2>1. \A j \in Jobs : next'[j] = next[j] \/ next'[j] # "sentinel"
    BY <1>0, <1>8, CronFacts DEF Cron!Start, CronTypes, Cron!TypeOK
  <2> QED BY <1>0, <1>8, <2>1 DEF Cron!Start, Cron!memory, Unstuck, Busy, CronTypes, Cron!TypeOK
<1> QED BY <1>1, <1>2, <1>3, <1>4, <1>5, <1>6, <1>7, <1>8 DEF Cron!Works, Cron!Execution

LEMMA CronInit ==
  ASSUME Cron!Init
  PROVE  CronInv /\ Unstuck
<1>1. CronTypes
  BY CronAssumption DEF Cron!Init, CronTypes, Cron!TypeOK, Cron!Schedules, Cron!NextRuns, Cron!Spans
<1>2. Claims /\ Unstuck
  BY DEF Cron!Init, Claims, Busy, Unstuck
<1>3. OneTime
  BY CronFacts DEF Cron!Init, OneTime
<1> QED BY <1>1, <1>2, <1>3 DEF CronInv

LEMMA CronCorrect ==
  ASSUME CronInv
  PROVE  /\ Cron!OneExecution /\ Cron!OnceIsOnce
         /\ Unstuck => Cron!NoJobLost
<1>1. Cron!OneExecution
  BY DEF CronInv, Claims, Busy, Cron!OneExecution, Cron!Executing
<1>2. Cron!OnceIsOnce
  BY DEF CronInv, OneTime, Cron!OnceIsOnce
<1>3. Unstuck => Cron!NoJobLost
  BY DEF Unstuck, Busy, Cron!NoJobLost, Cron!Executing
<1> QED BY <1>1, <1>2, <1>3

-----------------------------------------------------------------------------
(* IPAllocation                                                            *)

LEMMA LeastNat ==
  ASSUME NEW S \in SUBSET Nat, S # {}
  PROVE  \E n \in S : \A m \in S : n <= m
<1> DEFINE R == OpToRel(<, Nat)
<1>1. IsWellFoundedOn(R, Nat)
  BY NatLessThanWellFounded
<1>2. \A x, y \in Nat : x < y => <<x, y>> \in R
  BY DEF OpToRel
<1> HIDE DEF R
<1>3. PICK x \in S : \A y \in S : <<y, x>> \notin R
  BY <1>1, WFMin, Zenon
<1>4. \A y \in S : y \in Nat /\ x \in Nat /\ ~(y < x)
  BY <1>2, <1>3
<1> QED BY <1>4

Has(i) == ip[rows[i]] # 0
Newest(i) == /\ i \in DOMAIN rows /\ Has(i)
             /\ \A k \in DOMAIN rows : Has(k) => k <= i

LEMMA BaseIsNewest ==
  ASSUME Addresses!TypeOK
  PROVE  \/ Addresses!Base = 1 /\ \A i \in DOMAIN rows : ~Has(i)
         \/ \E i \in DOMAIN rows : Newest(i) /\ Addresses!Base = ip[rows[i]]
<1> USE DEF Addresses!TypeOK
<1> DEFINE S == {n \in Nat : \E i \in DOMAIN rows : Has(i) /\ n = Len(rows) - i}
<1>1. Addresses!Holding = {} <=> \A i \in DOMAIN rows : ~Has(i)
  BY DEF Addresses!Holding, Addresses!Listed, Addresses!ToSet, Has
<1>2. CASE Addresses!Holding = {}
  BY <1>1, <1>2 DEF Addresses!Base
<1>3. CASE Addresses!Holding # {}
  <2>0. DOMAIN rows = 1..Len(rows) /\ Len(rows) \in Nat
    OBVIOUS
  <2>1. PICK j \in DOMAIN rows : Has(j)
    BY <1>1, <1>3
  <2>2. S # {}
    <3>1. Len(rows) - j \in S
      BY <2>0, <2>1
    <3> QED BY <3>1
  <2>3. PICK n \in S : \A m \in S : n <= m
    BY <2>2, LeastNat
  <2>4. PICK i \in DOMAIN rows : Has(i) /\ n = Len(rows) - i
    BY <2>3
  <2>5. ASSUME NEW k \in DOMAIN rows, Has(k) PROVE k <= i
    <3>1. Len(rows) - k \in S
      BY <2>0, <2>5
    <3>2. n <= Len(rows) - k
      BY <2>3, <3>1
    <3> QED BY <2>0, <2>4, <3>2
  <2>6. Newest(i)
    BY <2>4, <2>5 DEF Newest
  <2>7. \A k \in DOMAIN rows :
            (Addresses!Allocated(k) /\ \A l \in DOMAIN rows : Addresses!Allocated(l) => l <= k) <=> Newest(k)
    BY DEF Newest, Has, Addresses!Allocated
  <2>8. \A k \in DOMAIN rows : Newest(k) => k = i
    BY <2>0, <2>6 DEF Newest
  <2>9. Addresses!Base = ip[rows[i]]
    BY <1>3, <2>6, <2>7, <2>8 DEF Addresses!Base
  <2> QED BY <2>6, <2>9
<1> QED BY <1>2, <1>3

Calls == [pc : {"none", "own", "last", "write"}, for : {"init", "sandbox"}, ip : {0} \union 2..MaxIP]

LEMMA AddressTypes ==
  ASSUME Addresses!TypeOK, NEW u \in Users, Addresses!Step(u)
  PROVE  Addresses!TypeOK'
<1> USE DEF Addresses!TypeOK
<1>0. call[u] \in Calls /\ call[u].ip \in {0} \union 2..MaxIP /\ ip[u] \in {0} \union 2..MaxIP
      /\ Hash[u] \in 2..MaxIP /\ MaxIP \in Nat /\ MaxIP >= 2
  BY IPAssumption DEF Calls
<1>1. CASE Addresses!AddUser(u)
  <2> DEFINE r == Append(rows, u)
  <2>1. r \in Seq(Users) /\ DOMAIN r = 1..Len(rows) + 1 /\ r[Len(rows) + 1] = u
        /\ \A i \in 1..Len(rows) : r[i] = rows[i]
    OBVIOUS
  <2>2. \A i \in 1..Len(rows) : rows[i] # u
    BY <1>1 DEF Addresses!AddUser, Addresses!Listed, Addresses!ToSet
  <2>3. \A i \in DOMAIN r : i \in 1..Len(rows) \/ i = Len(rows) + 1
    BY <2>1
  <2> HIDE DEF r
  <2>4. Addresses!IsInjective(r)
    BY <2>1, <2>2, <2>3 DEF Addresses!IsInjective
  <2>5. rows' = r
    BY <1>1 DEF Addresses!AddUser, r
  <2>6. call' \in [Users -> Calls]
    BY <1>1 DEF Addresses!AddUser, Calls
  <2> QED BY <1>1, <2>1, <2>4, <2>5, <2>6 DEF Addresses!AddUser, Calls, Addresses!IsInjective
<1>2. CASE Addresses!Login(u) \/ Addresses!Setup(u)
  <2>1. /\ call' = [call EXCEPT ![u] = [pc |-> "own", for |-> call'[u].for, ip |-> 0]]
        /\ call'[u].for \in {"init", "sandbox"}
        /\ refused' = FALSE /\ UNCHANGED <<rows, ip, addr>>
    BY <1>2 DEF Addresses!Login, Addresses!Setup
  <2>2. call' \in [Users -> Calls]
    BY <1>0, <2>1 DEF Calls
  <2> QED BY <2>1, <2>2 DEF Calls, Addresses!IsInjective
<1>3. CASE Addresses!DeleteUser(u)
  <2>1. PICK i \in DOMAIN rows : rows[i] = u /\ rows' = Addresses!RemoveAt(rows, i)
    BY <1>3 DEF Addresses!DeleteUser
  <2>2. i \in 1..Len(rows) /\ Len(rows) \in Nat
    BY <2>1
  <2> DEFINE a == SubSeq(rows, 1, i - 1)
             b == SubSeq(rows, i + 1, Len(rows))
  <2>3. a \in Seq(Users) /\ Len(a) = i - 1 /\ \A k \in 1..i - 1 : a[k] = rows[k]
    BY <2>2
  <2>4. b \in Seq(Users) /\ Len(b) = Len(rows) - i /\ \A k \in 1..Len(rows) - i : b[k] = rows[i + k]
    BY <2>2
  <2>5. rows' = a \o b
    BY <2>1 DEF Addresses!RemoveAt
  <2> HIDE DEF a, b
  <2>6. /\ rows' \in Seq(Users) /\ DOMAIN rows' = 1..Len(rows) - 1
        /\ \A k \in 1..Len(rows) - 1 : rows'[k] = IF k < i THEN rows[k] ELSE rows[k + 1]
    BY <2>2, <2>3, <2>4, <2>5
  <2>7. Addresses!IsInjective(rows)'
    <3> SUFFICES ASSUME NEW k \in 1..Len(rows) - 1, NEW l \in 1..Len(rows) - 1, rows'[k] = rows'[l]
                 PROVE  k = l
      BY <2>6 DEF Addresses!IsInjective
    <3>1. \A m, n \in 1..Len(rows) : rows[m] = rows[n] => m = n
      BY <2>2 DEF Addresses!IsInjective
    <3>2. k \in 1..Len(rows) /\ k + 1 \in 1..Len(rows) /\ l \in 1..Len(rows) /\ l + 1 \in 1..Len(rows)
      BY <2>2
    <3>3. rows'[k] = (IF k < i THEN rows[k] ELSE rows[k + 1]) /\ rows'[l] = (IF l < i THEN rows[l] ELSE rows[l + 1])
      BY <2>6
    <3>4. CASE k < i /\ l < i
      BY <3>1, <3>2, <3>3, <3>4
    <3>5. CASE k < i /\ ~(l < i)
      <4>1. k = l + 1
        BY <3>1, <3>2, <3>3, <3>5
      <4> QED BY <2>2, <3>5, <4>1
    <3>6. CASE ~(k < i) /\ l < i
      <4>1. k + 1 = l
        BY <3>1, <3>2, <3>3, <3>6
      <4> QED BY <2>2, <3>6, <4>1
    <3>7. CASE ~(k < i) /\ ~(l < i)
      <4>1. k + 1 = l + 1
        BY <3>1, <3>2, <3>3, <3>7
      <4> QED BY <2>2, <4>1
    <3> QED BY <3>4, <3>5, <3>6, <3>7
  <2> QED BY <1>3, <2>6, <2>7 DEF Addresses!DeleteUser
<1>4. CASE Addresses!Teardown(u)
  BY <1>4 DEF Addresses!Teardown, Addresses!IsInjective
<1>5. \A n \in 2..MaxIP : Addresses!Answer(u, n) => /\ call' \in [Users -> Calls]
                                                   /\ addr' \in [Users -> {0} \union 2..MaxIP]
  BY DEF Addresses!Answer, Addresses!NoCall, Calls
<1>6. CASE Addresses!ReadOwn(u)
  <2>1. call' \in [Users -> Calls] /\ addr' \in [Users -> {0} \union 2..MaxIP]
    BY <1>0, <1>5, <1>6 DEF Addresses!ReadOwn, Calls
  <2> QED BY <1>6, <2>1 DEF Addresses!ReadOwn, Calls, Addresses!IsInjective
<1>7. CASE Addresses!ReadLast(u)
  <2>1. Addresses!Base \in 1..MaxIP
    <3>1. \A i \in DOMAIN rows : Has(i) => ip[rows[i]] \in 1..MaxIP
      BY <1>0 DEF Has
    <3> QED BY <1>0, <3>1, BaseIsNewest DEF Newest
  <2>2. call' \in [Users -> Calls] /\ addr' \in [Users -> {0} \union 2..MaxIP]
    <3>1. CASE Addresses!Base < MaxIP
      <4>1. Addresses!Base + 1 \in 2..MaxIP
        BY <1>0, <2>1, <3>1
      <4> DEFINE n == Addresses!Base + 1
      <4>2. addr' = addr /\ call' = [call EXCEPT ![u].pc = "write", ![u].ip = n]
        BY <1>7, <3>1 DEF Addresses!ReadLast
      <4> HIDE DEF n
      <4>3. call \in [Users -> Calls] /\ addr \in [Users -> {0} \union 2..MaxIP]
        BY DEF Calls
      <4>4. call' \in [Users -> Calls]
        <5>0. n \in 2..MaxIP
          BY <4>1 DEF n
        <5>1. call'[u] = [call[u] EXCEPT !.pc = "write", !.ip = n]
          BY <4>2, <4>3
        <5>2. call'[u] \in Calls
          BY <5>0, <5>1, <1>0 DEF Calls
        <5> QED BY <4>2, <4>3, <5>2
      <4> QED BY <4>2, <4>3, <4>4
    <3>2. CASE ~(Addresses!Base < MaxIP)
      BY <1>0, <1>5, <1>7, <3>2 DEF Addresses!ReadLast
    <3> QED BY <3>1, <3>2
  <2> QED BY <1>7, <2>2 DEF Addresses!ReadLast, Calls, Addresses!IsInjective
<1>8. CASE Addresses!Write(u)
  <2>1. call' \in [Users -> Calls] /\ addr' \in [Users -> {0} \union 2..MaxIP]
    BY <1>0, <1>8 DEF Addresses!Write, Addresses!Answer, Addresses!NoCall, Calls
  <2> QED BY <1>0, <1>8, <2>1 DEF Addresses!Write, Calls, Addresses!IsInjective
<1> QED BY <1>1, <1>2, <1>3, <1>4, <1>6, <1>7, <1>8
        DEF Addresses!Step, Addresses!Ask, Addresses!Allocate, Addresses!Free

\* One call at a time: the users get the addresses in the order of their rows.
Single == \A u, v \in Users : call[u].pc # "none" /\ call[v].pc # "none" => u = v

ByUser == \A u \in Users :
    /\ u \notin Addresses!Listed => ip[u] = 0 /\ call[u].pc = "none"
    /\ call[u].pc \in {"last", "write"} => ip[u] = 0
    /\ call[u].pc = "write" => Len(rows) < MaxIP /\ u = rows[Len(rows)] /\ call[u].ip = Len(rows) + 1

ByRow == \A i \in 1..Len(rows) :
    /\ Has(i) => i < MaxIP /\ ip[rows[i]] = i + 1
    /\ ~Has(i) => i >= MaxIP \/ (i = Len(rows) /\ call[rows[i]].pc # "none")

InTurn == Single /\ ByUser /\ ByRow /\ (refused => Len(rows) >= MaxIP)

LEMMA InTurnInit == Addresses!Init => Addresses!TypeOK /\ InTurn
<1> SUFFICES ASSUME Addresses!Init PROVE Addresses!TypeOK /\ InTurn
  OBVIOUS
<1>1. /\ rows = <<>> /\ Len(rows) = 0 /\ DOMAIN rows = {} /\ rows \in Seq(Users) /\ refused = FALSE
      /\ \A u \in Users : ip[u] = 0 /\ call[u].pc = "none"
  BY DEF Addresses!Init, Addresses!NoCall
<1>2. Addresses!TypeOK
  BY <1>1, IPAssumption DEF Addresses!Init, Addresses!NoCall, Addresses!TypeOK, Addresses!IsInjective
<1>3. InTurn
  BY <1>1 DEF InTurn, Single, ByUser, ByRow
<1> QED BY <1>2, <1>3

LEMMA RowFacts ==
  ASSUME Addresses!TypeOK
  PROVE  /\ rows \in Seq(Users) /\ Len(rows) \in Nat /\ DOMAIN rows = 1..Len(rows)
         /\ ip \in [Users -> {0} \union 2..MaxIP] /\ call \in [Users -> Calls]
         /\ MaxIP \in Nat /\ MaxIP >= 2
         /\ \A i, k \in 1..Len(rows) : rows[i] = rows[k] => i = k
         /\ \A i \in 1..Len(rows) : rows[i] \in Users /\ rows[i] \in Addresses!Listed
         /\ \A v \in Addresses!Listed : v \in Users /\ \E i \in 1..Len(rows) : rows[i] = v
<1>1. /\ rows \in Seq(Users) /\ Len(rows) \in Nat /\ DOMAIN rows = 1..Len(rows)
      /\ ip \in [Users -> {0} \union 2..MaxIP] /\ call \in [Users -> Calls]
      /\ MaxIP \in Nat /\ MaxIP >= 2
      /\ \A i \in 1..Len(rows) : rows[i] \in Users
  BY IPAssumption DEF Addresses!TypeOK, Calls
<1>2. \A i, k \in 1..Len(rows) : rows[i] = rows[k] => i = k
  BY <1>1 DEF Addresses!TypeOK, Addresses!IsInjective
<1>3. /\ \A i \in 1..Len(rows) : rows[i] \in Addresses!Listed
      /\ \A v \in Addresses!Listed : v \in Users /\ \E i \in 1..Len(rows) : rows[i] = v
  BY <1>1 DEF Addresses!Listed, Addresses!ToSet
<1> QED BY <1>1, <1>2, <1>3

LEMMA Sizes == ASSUME Addresses!TypeOK PROVE Len(rows) \in Nat /\ MaxIP \in Nat /\ MaxIP >= 2
BY RowFacts

LEMMA Parts == InTurn <=> Single /\ ByUser /\ ByRow /\ (refused => Len(rows) >= MaxIP)
BY DEF InTurn

\* The base of a call is the end of the pool, or the place of the last row.
LEMMA InTurnBase ==
  ASSUME Addresses!TypeOK, InTurn, NEW u \in Users, call[u].pc = "last"
  PROVE  IF Len(rows) < MaxIP THEN Addresses!Base = Len(rows) /\ u = rows[Len(rows)]
                              ELSE Addresses!Base = MaxIP
<1>0. Single /\ ByUser /\ ByRow
  BY Parts
<1>1. PICK p \in 1..Len(rows) : rows[p] = u /\ ~Has(p)
  <2>1. ip[u] = 0 /\ u \in Addresses!Listed
    BY <1>0 DEF ByUser
  <2> QED BY <2>1, RowFacts DEF Has
<1>2. CASE Len(rows) < MaxIP
  <2>1. p = Len(rows)
    BY <1>0, <1>1, <1>2, Sizes DEF ByRow
  <2>2. \A i \in 1..Len(rows) : ~Has(i) => i = Len(rows)
    BY <1>0, <1>2, Sizes DEF ByRow
  <2>3. CASE Len(rows) = 1
    <3>1. \A i \in DOMAIN rows : i = 1
      BY <2>3, RowFacts
    <3>2. \A i \in DOMAIN rows : ~Newest(i)
      BY <1>1, <2>1, <2>3, <3>1 DEF Newest
    <3> QED BY <1>1, <1>2, <2>1, <2>3, <3>2, BaseIsNewest
  <2>4. CASE Len(rows) # 1
    <3>0. PICK q \in Nat : q = Len(rows) - 1
      BY <1>1, <2>1, Sizes
    <3>1. q \in 1..Len(rows) /\ q # Len(rows) /\ q + 1 = Len(rows)
      BY <1>1, <2>1, <2>4, <3>0, Sizes
    <3>2. Has(q)
      BY <2>2, <3>1
    <3>3. ip[rows[q]] = Len(rows)
      BY <1>0, <3>1, <3>2 DEF ByRow
    <3>4. \A i \in 1..Len(rows) : Has(i) => i <= q
      BY <1>1, <2>1, <3>1, Sizes
    <3>5. \A i \in DOMAIN rows : Newest(i) => q <= i
      BY <3>1, <3>2, RowFacts DEF Newest
    <3>6. \A i \in DOMAIN rows : Newest(i) => i <= q /\ i \in Nat
      BY <3>4, RowFacts DEF Newest
    <3>7. \A i \in DOMAIN rows : Newest(i) => i = q
      BY <3>1, <3>5, <3>6, Sizes
    <3>8. q \in DOMAIN rows
      BY <3>1, RowFacts
    <3>9. Addresses!Base = ip[rows[q]]
      BY <3>2, <3>7, <3>8, BaseIsNewest
    <3> QED BY <1>1, <1>2, <2>1, <3>3, <3>9
  <2> QED BY <2>3, <2>4
<1>3. CASE ~(Len(rows) < MaxIP)
  <2> DEFINE q == MaxIP - 1
  <2>1. q \in 1..Len(rows) /\ q # Len(rows) /\ q < MaxIP /\ q + 1 = MaxIP /\ q \in Nat
    BY <1>3, Sizes
  <2>2. Has(q)
    BY <1>0, <2>1, Sizes DEF ByRow
  <2>3. ip[rows[q]] = MaxIP
    BY <1>0, <2>1, <2>2 DEF ByRow
  <2>4. \A i \in 1..Len(rows) : Has(i) => i < MaxIP
    BY <1>0 DEF ByRow
  <2>5. \A i \in DOMAIN rows : Newest(i) => i < MaxIP /\ q <= i /\ i \in Nat
    BY <2>1, <2>2, <2>4, RowFacts DEF Newest
  <2>6. \A i \in DOMAIN rows : Newest(i) => i = q
    BY <2>5, Sizes
  <2>7. q \in DOMAIN rows
    BY <2>1, RowFacts
  <2> HIDE DEF q
  <2>8. Addresses!Base = ip[rows[q]]
    BY <2>2, <2>6, <2>7, BaseIsNewest
  <2> QED BY <1>3, <2>3, <2>8
<1> QED BY <1>2, <1>3

LEMMA AskInTurn ==
  ASSUME Addresses!TypeOK, InTurn, NEW u \in Users, Addresses!Calling = {}, Addresses!Ask(u)
  PROVE  InTurn'
<1>0. Single /\ ByUser /\ ByRow
  BY Parts
<1>1. \A v \in Users : call[v].pc = "none"
  BY DEF Addresses!Calling
<1>2. CASE Addresses!AddUser(u)
  <2>1. /\ rows' = Append(rows, u) /\ ip' = ip /\ refused' = FALSE /\ u \notin Addresses!Listed
        /\ call' = [call EXCEPT ![u] = [pc |-> "own", for |-> "init", ip |-> 0]]
    BY <1>2 DEF Addresses!AddUser
  <2>2. /\ Len(rows') = Len(rows) + 1 /\ rows'[Len(rows) + 1] = u /\ DOMAIN rows' = 1..Len(rows) + 1
        /\ \A i \in 1..Len(rows) : rows'[i] = rows[i]
    BY <2>1, RowFacts
  <2>3. call'[u].pc = "own" /\ \A v \in Users : v # u => call'[v].pc = "none"
    BY <1>1, <2>1, RowFacts
  <2>4. u \in Addresses!Listed' /\ \A v \in Addresses!Listed : v \in Addresses!Listed'
    BY <2>2, RowFacts DEF Addresses!Listed, Addresses!ToSet
  <2>5. ip[u] = 0
    BY <2>1 DEF InTurn, Single, ByUser, ByRow
  <2>6. \A i \in 1..Len(rows') :
          /\ Has(i)' => i < MaxIP /\ ip'[rows'[i]] = i + 1
          /\ ~Has(i)' => i >= MaxIP \/ (i = Len(rows') /\ call'[rows'[i]].pc # "none")
    <3> SUFFICES ASSUME NEW i \in 1..Len(rows')
                 PROVE  /\ Has(i)' => i < MaxIP /\ ip'[rows'[i]] = i + 1
                        /\ ~Has(i)' => i >= MaxIP \/ (i = Len(rows') /\ call'[rows'[i]].pc # "none")
      OBVIOUS
    <3>1. CASE i = Len(rows')
      BY <2>1, <2>2, <2>3, <2>5, <3>1 DEF Has
    <3>2. CASE i \in 1..Len(rows)
      BY <1>1, <2>1, <2>2, <3>2, RowFacts DEF Has, InTurn, ByUser, ByRow
    <3> QED BY <2>2, <3>1, <3>2, RowFacts
  <2> QED BY <2>1, <2>3, <2>4, <2>6 DEF InTurn, Single, ByUser, ByRow
<1>3. CASE Addresses!Login(u) \/ Addresses!Setup(u)
  <2>1. /\ call'[u].pc = "own" /\ \A v \in Users : v # u => call'[v].pc = "none"
        /\ u \in Addresses!Listed /\ refused' = FALSE /\ UNCHANGED <<rows, ip>>
    BY <1>1, <1>3, RowFacts DEF Addresses!Login, Addresses!Setup
  <2>2. Addresses!Listed' = Addresses!Listed /\ \A i \in 1..Len(rows) : Has(i)' <=> Has(i)
    BY <2>1 DEF Addresses!Listed, Addresses!ToSet, Has
  <2>3. Single' /\ ByUser'
    BY <1>0, <2>1, <2>2 DEF Single, ByUser
  <2>4. \A i \in 1..Len(rows) : call[rows[i]].pc = "none"
    BY <1>1, RowFacts
  <2>5. ByRow'
    BY <1>0, <2>1, <2>2, <2>4 DEF ByRow
  <2> QED BY <2>1, <2>3, <2>5 DEF InTurn
<1> QED BY <1>2, <1>3 DEF Addresses!Ask

LEMMA AllocateInTurn ==
  ASSUME Addresses!TypeOK, InTurn, NEW u \in Users, Addresses!Allocate(u)
  PROVE  InTurn'
<1>0. Single /\ ByUser /\ ByRow
  BY Parts
<1>1. call[u].pc # "none" /\ u \in Addresses!Listed /\ rows' = rows /\ Addresses!Listed' = Addresses!Listed
      /\ \A v \in Users : v # u => call[v].pc = "none"
  <2>1. call[u].pc # "none" /\ rows' = rows
    BY DEF Addresses!Allocate, Addresses!ReadOwn, Addresses!ReadLast, Addresses!Write
  <2>2. u \in Addresses!Listed /\ \A v \in Users : v # u => call[v].pc = "none"
    BY <1>0, <2>1 DEF ByUser, Single
  <2> QED BY <2>1, <2>2 DEF Addresses!Listed
<1>2. \A n : Addresses!Answer(u, n) => call'[u].pc = "none" /\ \A v \in Users : v # u => call'[v].pc = "none"
  BY <1>1, RowFacts DEF Addresses!Answer, Addresses!NoCall
<1>3. CASE Addresses!ReadOwn(u)
  <2>1. refused' = FALSE /\ ip' = ip /\ \A i \in 1..Len(rows) : Has(i)' <=> Has(i)
    BY <1>1, <1>3 DEF Addresses!ReadOwn, Has
  <2>2. CASE ip[u] # 0
    <3>1. call'[u].pc = "none" /\ \A v \in Users : v # u => call'[v].pc = "none"
      BY <1>1, <1>2, <1>3, <2>2 DEF Addresses!ReadOwn
    <3>2. Single' /\ ByUser'
      BY <1>0, <1>1, <2>1, <3>1 DEF Single, ByUser
    <3>3. \A i \in 1..Len(rows) : rows[i] = u => Has(i)
      BY <2>2 DEF Has
    <3>4. \A i \in 1..Len(rows) : call[rows[i]].pc # "none" => rows[i] = u
      BY <1>1, RowFacts
    <3>5. ByRow'
      BY <1>0, <1>1, <2>1, <3>3, <3>4 DEF ByRow
    <3> QED BY <2>1, <3>2, <3>5 DEF InTurn
  <2>3. CASE ip[u] = 0
    <3>1. call'[u].pc = "last" /\ \A v \in Users : v # u => call'[v].pc = "none"
      BY <1>1, <1>3, <2>3, RowFacts DEF Addresses!ReadOwn, Calls
    <3>2. Single' /\ ByUser'
      BY <1>0, <1>1, <2>1, <2>3, <3>1 DEF Single, ByUser
    <3>3. \A i \in 1..Len(rows) : call[rows[i]].pc # "none" => rows[i] = u
      BY <1>1, RowFacts
    <3>4. ByRow'
      BY <1>0, <1>1, <2>1, <3>1, <3>3 DEF ByRow
    <3> QED BY <2>1, <3>2, <3>4 DEF InTurn
  <2> QED BY <2>2, <2>3
<1>4. CASE Addresses!ReadLast(u)
  <2>1. ip' = ip /\ ip[u] = 0 /\ call[u].pc = "last" /\ \A i \in 1..Len(rows) : Has(i)' <=> Has(i)
    BY <1>1, <1>4 DEF Addresses!ReadLast, Has, InTurn, ByUser
  <2>2. CASE Len(rows) < MaxIP
    <3>1. Addresses!Base = Len(rows) /\ u = rows[Len(rows)]
      BY <2>1, <2>2, InTurnBase
    <3>2. refused' = FALSE /\ call' = [call EXCEPT ![u].pc = "write", ![u].ip = Len(rows) + 1]
      <4>1. Addresses!Base < MaxIP
        BY <2>2, <3>1, Sizes
      <4> QED BY <1>4, <3>1, <4>1 DEF Addresses!ReadLast
    <3>3. call'[u].pc = "write" /\ call'[u].ip = Len(rows) + 1
          /\ \A v \in Users : v # u => call'[v].pc = "none"
      BY <1>1, <3>2, RowFacts DEF Calls
    <3>4. Single' /\ ByUser'
      BY <1>0, <1>1, <2>1, <2>2, <3>1, <3>3 DEF Single, ByUser
    <3>5. \A i \in 1..Len(rows) : call[rows[i]].pc # "none" => rows[i] = u
      BY <1>1, RowFacts
    <3>6. ByRow'
      BY <1>0, <1>1, <2>1, <3>3, <3>5 DEF ByRow
    <3> QED BY <3>2, <3>4, <3>6 DEF InTurn
  <2>3. CASE ~(Len(rows) < MaxIP)
    <3>1. Addresses!Base = MaxIP
      BY <2>1, <2>3, InTurnBase
    <3>2. Addresses!Answer(u, Hash[u])
      BY <1>4, <3>1, RowFacts DEF Addresses!ReadLast
    <3>3. call'[u].pc = "none" /\ \A v \in Users : v # u => call'[v].pc = "none"
      BY <1>2, <3>2
    <3>4. \A i \in 1..Len(rows) : ~Has(i) => i >= MaxIP
      <4>1. PICK p \in 1..Len(rows) : rows[p] = u
        BY <1>1, RowFacts
      <4> QED BY <1>0, <2>3, Sizes DEF ByRow
    <3>5. Single' /\ ByUser'
      BY <1>0, <1>1, <2>1, <3>3 DEF Single, ByUser
    <3>6. ByRow'
      BY <1>0, <1>1, <2>1, <3>4 DEF ByRow
    <3>7. Len(rows) >= MaxIP
      BY <2>3, Sizes
    <3> QED BY <1>1, <3>5, <3>6, <3>7 DEF InTurn
  <2> QED BY <2>2, <2>3
<1>5. CASE Addresses!Write(u)
  <2>1. Len(rows) < MaxIP /\ u = rows[Len(rows)] /\ Len(rows) \in 1..Len(rows)
    <3>1. call[u].pc = "write"
      BY <1>5 DEF Addresses!Write
    <3>2. PICK p \in 1..Len(rows) : rows[p] = u
      BY <1>1, RowFacts
    <3>3. Len(rows) \in 1..Len(rows)
      BY <3>2, Sizes
    <3> QED BY <1>0, <3>1, <3>3 DEF ByUser
  <2>2. ip' = [ip EXCEPT ![u] = Len(rows) + 1] /\ refused' = FALSE /\ Addresses!Answer(u, call[u].ip)
    BY <1>1, <1>5 DEF Addresses!Write, InTurn, ByUser
  <2>3. call'[u].pc = "none" /\ \A v \in Users : v # u => call'[v].pc = "none"
    BY <1>2, <2>2
  <2>4. ip'[u] = Len(rows) + 1 /\ \A v \in Users : v # u => ip'[v] = ip[v]
    BY <2>2, RowFacts
  <2>5. \A i \in 1..Len(rows) : i # Len(rows) => rows[i] # u /\ rows[i] \in Users
    BY <2>1, RowFacts
  <2>6. \A i \in 1..Len(rows) : i # Len(rows) => (Has(i)' <=> Has(i)) /\ ip'[rows[i]] = ip[rows[i]]
    BY <1>1, <2>4, <2>5 DEF Has
  <2>7. Has(Len(rows))' /\ ip'[rows[Len(rows)]] = Len(rows) + 1
    BY <1>1, <2>1, <2>4, Sizes DEF Has
  <2>8. ByRow'
    BY <1>0, <1>1, <2>1, <2>6, <2>7 DEF ByRow
  <2>9. Single' /\ ByUser'
    BY <1>0, <1>1, <2>3, <2>4 DEF Single, ByUser
  <2> QED BY <2>2, <2>8, <2>9 DEF InTurn
<1> QED BY <1>3, <1>4, <1>5 DEF Addresses!Allocate

LEMMA InTurnCorrect ==
  ASSUME Addresses!TypeOK, InTurn
  PROVE  Addresses!UniqueIPs /\ Addresses!FullWhenRefused
<1>0. ByRow
  BY Parts
<1>1. \A u \in Addresses!Holding : \E i \in 1..Len(rows) : rows[i] = u /\ ip[u] = i + 1 /\ i < MaxIP
  <2> SUFFICES ASSUME NEW u \in Addresses!Holding
               PROVE  \E i \in 1..Len(rows) : rows[i] = u /\ ip[u] = i + 1 /\ i < MaxIP
    OBVIOUS
  <2>1. u \in Addresses!Listed /\ ip[u] # 0
    BY DEF Addresses!Holding
  <2>2. PICK i \in 1..Len(rows) : rows[i] = u
    BY <2>1, RowFacts
  <2>3. Has(i)
    BY <2>1, <2>2 DEF Has
  <2> QED BY <1>0, <2>2, <2>3 DEF ByRow
<1>2. Addresses!UniqueIPs
  <2> SUFFICES ASSUME NEW u \in Addresses!Holding, NEW v \in Addresses!Holding, ip[u] = ip[v]
               PROVE  u = v
    BY DEF Addresses!UniqueIPs
  <2>1. PICK i \in 1..Len(rows) : rows[i] = u /\ ip[u] = i + 1
    BY <1>1
  <2>2. PICK k \in 1..Len(rows) : rows[k] = v /\ ip[v] = k + 1
    BY <1>1
  <2>3. i = k
    <3>1. i + 1 = k + 1
      BY <2>1, <2>2, Zenon
    <3>2. i \in Nat /\ k \in Nat
      BY Sizes
    <3> QED BY <3>1, <3>2
  <2> QED BY <2>1, <2>2, <2>3
<1>3. ASSUME refused PROVE {ip[u] : u \in Addresses!Holding} = 2..MaxIP
  <2>1. Len(rows) >= MaxIP
    BY <1>3 DEF InTurn
  <2>2. ASSUME NEW n \in 2..MaxIP PROVE \E u \in Addresses!Holding : ip[u] = n
    <3> DEFINE i == n - 1
    <3>1. i \in 1..Len(rows) /\ i < MaxIP /\ i # Len(rows) /\ i + 1 = n /\ n # 0
      BY <2>1, Sizes
    <3>2. Has(i)
      BY <1>0, <3>1, Sizes DEF ByRow
    <3>3. ip[rows[i]] = n
      BY <1>0, <3>1, <3>2 DEF ByRow
    <3>4. rows[i] \in Addresses!Listed
      BY <3>1, RowFacts
    <3> QED BY <3>1, <3>3, <3>4 DEF Addresses!Holding
  <2>3. \A u \in Addresses!Holding : ip[u] \in 2..MaxIP
    BY <1>1, Sizes
  <2> QED BY <2>2, <2>3
<1> QED BY <1>2, <1>3 DEF Addresses!FullWhenRefused

-----------------------------------------------------------------------------
(* The parts together                                                      *)

JobsInv == /\ part = "queue" => QueueInv
           /\ part \in {"quiet", "crash"} => CronInv
           /\ part = "quiet" => Unstuck
           /\ part \in {"growing", "shared"} => Addresses!TypeOK
           /\ part = "growing" => InTurn

LEMMA JobsInvInit == JobsInit => JobsInv
BY QueueInit, CronInit, InTurnInit DEF JobsInit, JobsInv

LEMMA CronStands == CronInv /\ UNCHANGED cronVars => CronInv' /\ (Unstuck => Unstuck')
BY DEF cronVars, CronInv, CronTypes, Cron!TypeOK, Claims, OneTime, Busy, Cron!IsDue, Unstuck

LEMMA AddressesStand ==
  UNCHANGED ipVars => (Addresses!TypeOK => Addresses!TypeOK') /\ (InTurn => InTurn')
BY DEF ipVars, Addresses!TypeOK, InTurn, Single, ByUser, ByRow, Has, Addresses!Listed

LEMMA JobsInvStep == JobsInv /\ [JobsNext]_all => JobsInv'
<1> SUFFICES ASSUME JobsInv, [JobsNext]_all PROVE JobsInv'
  OBVIOUS
<1>1. part' = part
  BY DEF JobsNext, QueuePart, CronPart, IPPart, all
<1>2. part = "queue" => QueueInv'
  <2>1. part = "queue" => [Next]_vars
    BY DEF JobsNext, QueuePart, CronPart, IPPart, all, queueVars
  <2> QED BY <2>1, QueueStep DEF JobsInv
<1>3. part \in {"quiet", "crash"} => CronInv' /\ (part = "quiet" => Unstuck')
  <2> SUFFICES ASSUME part \in {"quiet", "crash"} PROVE CronInv' /\ (part = "quiet" => Unstuck')
    OBVIOUS
  <2>1. CronInv /\ (part = "quiet" => Unstuck)
    BY DEF JobsInv
  <2>2. CASE UNCHANGED cronVars
    BY <2>1, <2>2, CronStands
  <2>3. CASE part = "quiet" /\ Cron!Works
    BY <2>1, <2>3, CronStep, UnstuckStep
  <2>4. CASE part = "crash" /\ (Cron!Works \/ Cron!Fails)
    BY <2>1, <2>4, CronStep
  <2> QED BY <2>2, <2>3, <2>4 DEF JobsNext, QueuePart, CronPart, IPPart, all
<1>4. part \in {"growing", "shared"} => Addresses!TypeOK' /\ (part = "growing" => InTurn')
  <2> SUFFICES ASSUME part \in {"growing", "shared"}
               PROVE  Addresses!TypeOK' /\ (part = "growing" => InTurn')
    OBVIOUS
  <2>1. Addresses!TypeOK /\ (part = "growing" => InTurn)
    BY DEF JobsInv
  <2>2. CASE UNCHANGED ipVars
    BY <2>1, <2>2, AddressesStand
  <2>3. ASSUME part = "growing", NEW u \in Users, Addresses!Grow(u)
        PROVE  Addresses!TypeOK' /\ InTurn'
    <3>1. Addresses!Step(u)
      BY <2>3 DEF Addresses!Grow, Addresses!Step
    <3>2. InTurn'
      BY <2>1, <2>3, AskInTurn, AllocateInTurn DEF Addresses!Grow
    <3> QED BY <2>1, <3>1, <3>2, AddressTypes
  <2>4. ASSUME part = "shared", NEW u \in Sharing, Addresses!Step(u)
        PROVE  Addresses!TypeOK'
    <3>1. u \in Users
      BY IPAssumption
    <3> QED BY <2>1, <2>4, <3>1, AddressTypes
  <2> QED BY <2>2, <2>3, <2>4 DEF JobsNext, QueuePart, CronPart, IPPart, all
<1> QED BY <1>1, <1>2, <1>3, <1>4 DEF JobsInv

LEMMA JobsInvHolds == JobsSpec => []JobsInv
BY JobsInvInit, JobsInvStep, PTL DEF JobsSpec

\* Tasks are executed in the order of the batches and of their task lists, none
\* dropped or repeated: sendTasks, the channel and the worker of queue.go.
THEOREM TasksOrdered == JobsSpec => []TasksInOrder
<1>1. JobsInv => TasksInOrder
  BY QueueCorrect DEF JobsInv, TasksInOrder
<1> QED BY <1>1, JobsInvHolds, PTL

\* A queue that says it is not running has executed the last batch to its end
\* and shows its result, and no two batches are ever worked on at a time.
THEOREM StatusTruthful == JobsSpec => []StatusFinal
<1>1. JobsInv => StatusFinal
  BY QueueCorrect DEF JobsInv, StatusFinal
<1> QED BY <1>1, JobsInvHolds, PTL

\* A job is executed once at a time, crashes and panics included, and no restart
\* repeats a one-time job: the sentinel of poll and RecoverStaleJobs.
THEOREM RunOnce == JobsSpec => []JobsRunOnce
<1>1. JobsInv => JobsRunOnce
  BY CronCorrect DEF JobsInv, JobsRunOnce
<1> QED BY <1>1, JobsInvHolds, PTL

\* While nothing fails, an enabled job on the sentinel is being executed.
THEOREM NothingLost == JobsSpec => []NoJobLost
<1>1. JobsInv => NoJobLost
  BY CronCorrect DEF JobsInv, NoJobLost
<1> QED BY <1>1, JobsInvHolds, PTL

\* AllocateIP gives addresses of the pool, whatever happens; while calls do not
\* overlap and nothing is freed, no two users have the same and a call fails
\* only when all are taken.
THEOREM AddressesGiven == JobsSpec => []AddressesSound
<1>1. JobsInv => AddressesSound
  BY InTurnCorrect DEF JobsInv, AddressesSound
<1> QED BY <1>1, JobsInvHolds, PTL
=============================================================================
