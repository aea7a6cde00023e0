------------------------------ MODULE TaskQueue ------------------------------
(***************************************************************************)
(* internal/web/taskqueue.go: batches of one task per user, run one batch  *)
(* at a time.  The request that finds the queue idle starts a worker       *)
(* (processQueue) and a feeder that sends the users over the channel       *)
(* items; later batches wait in pending, and the worker of a batch starts  *)
(* the next one as it ends.  Nothing but the order of these steps keeps    *)
(* two batches from mixing: the channel and the counters are shared.       *)
(***************************************************************************)
EXTENDS Naturals, Sequences, FiniteSets

CONSTANTS MaxBatches,   \* bound: batches submitted
          MaxTasks,     \* bound: users of a batch
          Capacity      \* taskQueueSize, 64

ASSUME QueueAssumption == MaxBatches \in Nat /\ MaxTasks \in Nat /\ Capacity \in Nat

Batches == 1..MaxBatches
Tasks == [batch : Batches, nth : 1..MaxTasks]   \* for the nth user of a batch
NoTask == [batch |-> 0, nth |-> 0]

VARIABLES size,      \* users of each submitted batch, in the order of submission
          items,     \* the channel
          pending,   \* taskQueue.pending
          active,    \* taskQueue.active
          total, done, failed,   \* the counters
          status,    \* taskQueue.status: the batch, its running and counts
          worker,    \* processQueue of each batch
          goal,      \* the worker's copy of total
          item,      \* the item each worker has
          sent,      \* how many tasks each batch's feeder has sent
          ran        \* history: the tasks executed, in order

counters == <<total, done, failed>>
vars == <<size, items, pending, active, counters, status, worker, goal, item, sent, ran>>

Init == /\ size = <<>> /\ items = <<>> /\ pending = <<>> /\ ran = <<>>
        /\ active = FALSE
        /\ total = 0 /\ done = 0 /\ failed = 0
        /\ status = [batch |-> 0, running |-> FALSE, done |-> 0, failed |-> 0]
        /\ worker = [b \in Batches |-> "none"]
        /\ goal = [b \in Batches |-> 0]
        /\ item = [b \in Batches |-> NoTask]
        /\ sent = [b \in Batches |-> 0]

-----------------------------------------------------------------------------
(* Submitting and starting a batch, under taskQueue.mu                     *)

\* The counters and the status of batch b, of n users.
StartBatch(b, n) ==
    /\ total' = n /\ done' = 0 /\ failed' = 0
    /\ active' = TRUE
    /\ status' = [batch |-> b, running |-> TRUE, done |-> 0, failed |-> 0]

\* The queue looked at before the lock: a batch started next to another.
Enqueue_always(n) ==
    LET b == Len(size) + 1 IN
    /\ b \in Batches
    /\ size' = Append(size, n)
    /\ StartBatch(b, n)
    /\ worker' = [worker EXCEPT ![b] = "started"]
    /\ UNCHANGED <<items, pending, goal, item, sent, ran>>

\* enqueueTask: superadmins are already left out; no users is an error.
Enqueue(n) ==
    LET b == Len(size) + 1 IN
    /\ b \in Batches
    /\ size' = Append(size, n)
    /\ IF active
       THEN /\ pending' = Append(pending, b)
            /\ UNCHANGED <<counters, active, status, worker>>
       ELSE /\ StartBatch(b, n)
            /\ worker' = [worker EXCEPT ![b] = "started"]
            /\ UNCHANGED pending
    /\ UNCHANGED <<items, goal, item, sent, ran>>

\* The feeder, started with the worker, sends the next user's task; the channel
\* blocks it when full.
Feed(b) ==
    /\ worker[b] # "none" /\ sent[b] < size[b] /\ Len(items) < Capacity
    /\ items' = Append(items, [batch |-> b, nth |-> sent[b] + 1])
    /\ sent' = [sent EXCEPT ![b] = @ + 1]
    /\ UNCHANGED <<size, pending, active, counters, status, worker, goal, item, ran>>

-----------------------------------------------------------------------------
(* processQueue                                                            *)

\* The goroutine reads the total of its batch.
Begin(b) == /\ worker[b] = "started"
            /\ goal' = [goal EXCEPT ![b] = total]
            /\ worker' = [worker EXCEPT ![b] = "receive"]
            /\ UNCHANGED <<size, items, pending, active, counters, status, item, sent, ran>>

Receive(b) == /\ worker[b] = "receive" /\ items # <<>>
              /\ item' = [item EXCEPT ![b] = Head(items)]
              /\ items' = Tail(items)
              /\ worker' = [worker EXCEPT ![b] = "execute"]
              /\ UNCHANGED <<size, pending, active, counters, status, goal, sent, ran>>

\* Fn, then one of the counters.
Execute(b) == /\ worker[b] = "execute"
              /\ ran' = Append(ran, item[b])
              /\ \/ done' = done + 1 /\ UNCHANGED failed
                 \/ failed' = failed + 1 /\ UNCHANGED done
              /\ worker' = [worker EXCEPT ![b] = "publish"]
              /\ UNCHANGED <<size, items, pending, active, total, status, goal, item, sent>>

\* Off by one: the last task of the batch not waited for.
Publish_early(b) ==
    /\ worker[b] = "publish"
    /\ status' = [status EXCEPT !.done = done, !.failed = failed]
    /\ worker' = [worker EXCEPT ![b] = IF done + failed + 1 >= goal[b] THEN "complete" ELSE "receive"]
    /\ UNCHANGED <<size, items, pending, active, counters, goal, item, sent, ran>>

\* The counts into the status; past the last task the loop ends.
Publish(b) ==
    /\ worker[b] = "publish"
    /\ status' = [status EXCEPT !.done = done, !.failed = failed]
    /\ worker' = [worker EXCEPT ![b] = IF done + failed >= goal[b] THEN "complete" ELSE "receive"]
    /\ UNCHANGED <<size, items, pending, active, counters, goal, item, sent, ran>>

\* The last lock of processQueue: the batch is over, the next one starts.
Complete(b) ==
    /\ worker[b] = "complete"
    /\ IF pending = <<>>
       THEN /\ active' = FALSE
            /\ status' = [status EXCEPT !.running = FALSE, !.done = done, !.failed = failed]
            /\ worker' = [worker EXCEPT ![b] = "ended"]
            /\ UNCHANGED <<pending, counters>>
       ELSE LET n == Head(pending) IN
            /\ pending' = Tail(pending)
            /\ StartBatch(n, size[n])
            /\ worker' = [worker EXCEPT ![b] = "ended", ![n] = "started"]
    /\ UNCHANGED <<size, items, goal, item, sent, ran>>

-----------------------------------------------------------------------------
Worker(b) == Begin(b) \/ Receive(b) \/ Execute(b) \/ Publish(b) \/ Complete(b)

Next == \/ \E n \in 1..MaxTasks : Enqueue(n)
        \/ \E b \in Batches : Feed(b) \/ Worker(b)

Spec == Init /\ [][Next]_vars

\* Goroutines run, and the tasks return.
Fairness == \A b \in Batches : WF_vars(Feed(b)) /\ WF_vars(Worker(b))
LiveSpec == Spec /\ Fairness

-----------------------------------------------------------------------------
(* Properties                                                              *)

TypeOK == /\ size \in Seq(1..MaxTasks) /\ Len(size) <= MaxBatches
          /\ items \in Seq(Tasks) /\ pending \in Seq(Batches) /\ ran \in Seq(Tasks)
          /\ active \in BOOLEAN
          /\ total \in Nat /\ done \in Nat /\ failed \in Nat
          /\ status \in [batch : 0..MaxBatches, running : BOOLEAN, done : Nat, failed : Nat]
          /\ worker \in [Batches -> {"none", "started", "receive", "execute", "publish",
                                     "complete", "ended"}]
          /\ goal \in [Batches -> Nat] /\ sent \in [Batches -> Nat]
          /\ item \in [Batches -> Tasks \union {NoTask}]

\* Task t is the one submitted after task s.
Follows(s, t) == \/ t.batch = s.batch /\ t.nth = s.nth + 1 /\ t.nth <= size[s.batch]
                 \/ t.batch = s.batch + 1 /\ s.nth = size[s.batch] /\ t.nth = 1

\* The tasks are executed once each, in the order of submission: no task is
\* dropped, repeated, or run for a batch that came later before one of a batch
\* that came earlier.
InOrder == /\ ran # <<>> => ran[1] = [batch |-> 1, nth |-> 1]
           /\ \A k \in 1..Len(ran) - 1 : Follows(ran[k], ran[k + 1])

\* One batch at a time: only one worker is alive, and the queue is active.
Alive(b) == worker[b] \notin {"none", "ended"}
OneWorker == /\ \A b, c \in Batches : Alive(b) /\ Alive(c) => b = c
             /\ active <=> \E b \in Batches : Alive(b)

\* A status that says "not running" is final: every task accepted so far has
\* been executed, and the counts are those of the whole last batch.
IdleMeansDone == ~status.running /\ size # <<>> =>
    LET b == Len(size) IN
    /\ ran # <<>> /\ ran[Len(ran)] = [batch |-> b, nth |-> size[b]]
    /\ status.batch = b /\ status.done + status.failed = size[b]

\* Every batch accepted is executed to its last task.
BatchesEnd == \A b \in Batches : b <= Len(size) ~> worker[b] = "ended"
=============================================================================
