------------------------------- MODULE MCJobs -------------------------------
(***************************************************************************)
(* What the server does in the background, for TLC: the batches of the     *)
(* task queue (TaskQueue), the scheduled jobs (CronScheduler) and the      *)
(* addresses of the sandboxes (IPAllocation).  They share no state: part   *)
(* says which of them, under which constants, a behaviour is about, and    *)
(* the others stand still.                                                 *)
(***************************************************************************)
EXTENDS TaskQueue

CONSTANTS \* of CronScheduler; bound: the jobs of the part where users edit them
          Jobs, Every, Weekly, Once, Slots, Handlers, Idle, MaxStops, Edited,
          \* of IPAllocation; bound: the users of the part where addresses are freed
          Users, MaxIP, Hash, Sharing

\* CronScheduler: a moment is no span of time, and a free slot no execution.
ASSUME CronAssumption ==
    /\ Every # Weekly /\ Every \notin Once /\ Weekly \notin Once
    /\ Once \intersect {"none", "due", "soon", "days", "week", "sentinel"} = {}
    /\ \A j \in Jobs, s \in {Every, Weekly} \union Once, p \in {"run", "ran"} :
           Idle # [job |-> j, schedule |-> s, phase |-> p]
    /\ MaxStops \in Nat /\ Edited \subseteq Jobs

\* IPAllocation: the hash of a name is an address of the pool.
ASSUME IPAssumption ==
    /\ MaxIP \in Nat /\ MaxIP >= 2
    /\ Hash \in [Users -> 2..MaxIP]
    /\ Sharing \subseteq Users

VARIABLES part,
          \* CronScheduler
          exists, enabled, schedule, next, executed, passed, up, stops,
          found, listed, exec, edit, launches,
          \* IPAllocation
          rows, ip, call, addr, refused

queueVars == vars
cronVars == <<exists, enabled, schedule, next, executed, passed, up, stops,
              found, listed, exec, edit, launches>>
ipVars == <<rows, ip, call, addr, refused>>
all == <<part, queueVars, cronVars, ipVars>>

\* For TLC: the names of all users have the same hash.
AnyHash == [u \in Users |-> 2]

Cron == INSTANCE CronScheduler WITH ran <- executed
Addresses == INSTANCE IPAllocation

-----------------------------------------------------------------------------
JobsInit ==
    /\ part \in {"queue", "quiet", "crash", "edits", "growing", "shared"}
    /\ Init /\ Cron!Init /\ Addresses!Init

QueuePart == part = "queue" /\ Next /\ UNCHANGED <<part, cronVars, ipVars>>

\* quiet: nothing goes wrong and nobody edits a job; crash: crashes and panics
\* in any place; edits: the same with users who edit the jobs of Edited, one restart less.
CronPart == /\ \/ part = "quiet" /\ Cron!Works
               \/ part = "crash" /\ (Cron!Works \/ Cron!Fails)
               \/ /\ part = "edits" /\ Cron!Next
                  /\ exists' \subseteq Edited /\ stops' < MaxStops
            /\ UNCHANGED <<part, queueVars, ipVars>>

\* growing: users come, log in and start sandboxes, one call at a time, past the
\* pool; shared: the users of Sharing, and everything the code allows.
IPPart == /\ \/ part = "growing" /\ \E u \in Users : Addresses!Grow(u)
             \/ part = "shared" /\ \E u \in Sharing : Addresses!Step(u)
          /\ UNCHANGED <<part, queueVars, cronVars>>

JobsNext == QueuePart \/ CronPart \/ IPPart

\* The fairness of each module, for the part it is.
QueueFairness ==
    \A b \in Batches : /\ WF_queueVars(part = "queue" /\ Feed(b))
                       /\ WF_queueVars(part = "queue" /\ Worker(b))

Timely == part \in {"quiet", "edits"}

CronFairness ==
    /\ \A j \in Jobs : /\ WF_cronVars(Timely /\ Cron!Approach(j))
                       /\ WF_cronVars(Timely /\ \E e \in Slots : Cron!Launch(j, e))
    /\ \A s \in Once : WF_cronVars(Timely /\ Cron!Pass(s))
    /\ \A e \in Slots : WF_cronVars(Timely /\ Cron!Execution(e))
    /\ WF_cronVars(Timely /\ Cron!PollList)
    /\ WF_cronVars(Timely /\ Cron!Start)

JobsSpec == /\ JobsInit /\ [][JobsNext]_all
            /\ QueueFairness /\ CronFairness

-----------------------------------------------------------------------------
(* The properties of the parts                                             *)

\* TaskQueue!InOrder: no task is dropped, repeated or out of order.
TasksInOrder == part = "queue" => InOrder

\* TaskQueue!IdleMeansDone, with one worker at a time.
StatusFinal == part = "queue" => IdleMeansDone /\ OneWorker

\* CronScheduler: one execution of a job at a time, as long as nobody edits it,
\* and no restart repeats a one-time job.
JobsRunOnce == /\ part \in {"quiet", "crash"} => Cron!OneExecution
               /\ part = "crash" => Cron!OnceIsOnce

\* CronScheduler!NoJobLost, as long as nothing fails.
NoJobLost == part = "quiet" => Cron!NoJobLost

\* IPAllocation: addresses are of the pool, whatever happens, and one user's as
\* long as calls do not overlap and nothing is freed: then a call fails only
\* when all are taken.
AddressesSound == /\ part = "growing" => Addresses!UniqueIPs /\ Addresses!FullWhenRefused
                  /\ part \in {"growing", "shared"} => Addresses!TypeOK

\* TaskQueue!BatchesEnd: every batch accepted is executed to its end.
\* CronScheduler!Recurs, as long as nothing fails, and DueTakenUp, whatever
\* fails and whoever edits: a job that is due runs and gets its next time.
WorkGetsDone == /\ part = "queue" => BatchesEnd
                /\ part = "quiet" => Cron!Recurs
                /\ part = "edits" => Cron!DueTakenUp
=============================================================================
