---------------------------- MODULE CronScheduler ----------------------------
(***************************************************************************)
(* internal/scheduler: the poller, the goroutines it starts for due jobs,  *)
(* the recovery at start-up, and the table cron_jobs they share with the   *)
(* handlers of internal/web/user_cron.go.  Every SQL statement is atomic;  *)
(* the program never uses a transaction here, so everything read before a  *)
(* write may be stale when it is written.                                  *)
(*                                                                         *)
(* Times are abstract: a job's next run is "none" (an empty string), "due",*)
(* within two days ("soon"), a few days ("days") or a week away, the       *)
(* sentinel a hundred years away, or the moment of a one-time schedule.    *)
(***************************************************************************)
EXTENDS Naturals

CONSTANTS Jobs, Every, Weekly,   \* schedules "every": of minutes, of a week
          Once,         \* schedules "at": each a moment
          Slots,        \* bound: executions at a time
          Handlers,     \* bound: user requests at a time
          Idle,         \* a free slot or handler
          MaxStops      \* bound: restarts of the server

Schedules == {Every, Weekly} \union Once
Spans == {"none", "due", "soon", "days", "week", "sentinel"}
NextRuns == Spans \union Once

VARIABLES exists,       \* rows of cron_jobs
          enabled,      \* rows with enabled = 1
          schedule,     \* column schedule
          next,         \* column next_run_at
          ran,          \* rows whose last_run_at is not empty
          passed,       \* the moments of Once that have gone by
          up,           \* the server runs
          stops,        \* how often it was stopped
          found,        \* jobs poll has listed as due and not yet come to
          listed,       \* their schedules, as poll read them
          exec,         \* the executions: job, the schedule poll read, phase
          edit,         \* handlers between GetByID and Update
          launches      \* history: times the job was started, up to two

rows == <<exists, enabled, schedule, next, ran>>
memory == <<found, listed, exec, edit>>
vars == <<rows, passed, up, stops, memory, launches>>

Init == /\ exists = {} /\ enabled = {} /\ ran = {}
        /\ schedule = [j \in Jobs |-> Every]
        /\ next = [j \in Jobs |-> "none"]
        /\ passed = {}
        /\ up = TRUE /\ stops = 0
        /\ found = {} /\ listed = [j \in Jobs |-> Every]
        /\ exec = [e \in Slots |-> Idle]
        /\ edit = [h \in Handlers |-> Idle]
        /\ launches = [j \in Jobs |-> 0]

\* NextRunTime: a moment that has gone by has no next run.
NextRunTime(s) == IF s = Every THEN "soon"
                  ELSE IF s = Weekly THEN "week"
                  ELSE IF s \in passed THEN "none" ELSE s

IsDue(j) == next[j] = "due" \/ next[j] \in passed

-----------------------------------------------------------------------------
(* Time                                                                    *)

Nearer == [week |-> "days", days |-> "soon", soon |-> "due"]

Approach(j) == /\ next[j] \in DOMAIN Nearer
               /\ next' = [next EXCEPT ![j] = Nearer[@]]
               /\ UNCHANGED <<exists, enabled, schedule, ran, passed, up, stops, memory, launches>>

Pass(s) == /\ s \notin passed
           /\ passed' = passed \union {s}
           /\ UNCHANGED <<rows, up, stops, memory, launches>>

-----------------------------------------------------------------------------
(* The handlers: create, update, toggle, delete                            *)

\* handleCronCreate and picoaide_cron_create: Insert.  Ids are never reused.
Create(j, s) ==
    /\ up /\ j \notin exists /\ launches[j] = 0 /\ next[j] = "none"
    /\ exists' = exists \union {j}
    /\ enabled' = enabled \union {j}
    /\ schedule' = [schedule EXCEPT ![j] = s]
    /\ next' = [next EXCEPT ![j] = NextRunTime(s)]
    /\ UNCHANGED <<ran, passed, up, stops, memory, launches>>

\* GetByID: the handler has the row in hand, changed as the user asked.
ReadForUpdate(h, j, s) ==
    /\ up /\ edit[h] = Idle /\ j \in exists
    /\ edit' = [edit EXCEPT ![h] = [job |-> j, schedule |-> s, on |-> j \in enabled]]
    /\ UNCHANGED <<rows, passed, up, stops, found, listed, exec, launches>>

ReadForToggle(h, j) ==
    /\ up /\ edit[h] = Idle /\ j \in exists
    /\ edit' = [edit EXCEPT ![h] = [job |-> j, schedule |-> schedule[j],
                                    on |-> j \notin enabled]]
    /\ UNCHANGED <<rows, passed, up, stops, found, listed, exec, launches>>

\* SQLCronStore.Update, of both: the schedule, enabled and next_run_at columns;
\* a row deleted meanwhile is not updated.
WriteRow(h) ==
    /\ edit[h] # Idle
    /\ LET j == edit[h].job IN
         IF j \notin exists THEN UNCHANGED <<enabled, schedule, next>>
         ELSE /\ enabled' = IF edit[h].on THEN enabled \union {j} ELSE enabled \ {j}
              /\ schedule' = [schedule EXCEPT ![j] = edit[h].schedule]
              /\ next' = [next EXCEPT ![j] = NextRunTime(edit[h].schedule)]
    /\ edit' = [edit EXCEPT ![h] = Idle]
    /\ UNCHANGED <<exists, ran, passed, up, stops, found, listed, exec, launches>>

\* handleCronDelete and picoaide_cron_delete; an execution goes on.
Delete(j) == /\ up /\ j \in exists
             /\ exists' = exists \ {j}
             /\ enabled' = enabled \ {j}
             /\ ran' = ran \ {j}
             /\ UNCHANGED <<schedule, next, passed, up, stops, memory, launches>>

-----------------------------------------------------------------------------
(* poll                                                                    *)

\* ListActiveJobs, and the comparison with the time just after it.
PollList ==
    LET due == {j \in enabled : IsDue(j)} IN
    /\ up /\ found = {} /\ due # {}
    /\ found' = due
    /\ listed' = schedule
    /\ UNCHANGED <<rows, passed, up, stops, exec, edit, launches>>

\* A launch that leaves the next run where it was.
Launch_unclaimed(j, e) ==
    /\ j \in found /\ exec[e] = Idle
    /\ found' = found \ {j}
    /\ exec' = [exec EXCEPT ![e] = [job |-> j, schedule |-> listed[j], phase |-> "run"]]
    /\ launches' = [launches EXCEPT ![j] = IF @ < 2 THEN @ + 1 ELSE @]
    /\ UNCHANGED <<rows, passed, up, stops, listed, edit>>

\* The sentinel is written first, so that no later poll starts the job again.
Launch(j, e) ==
    /\ j \in found /\ exec[e] = Idle
    /\ found' = found \ {j}
    /\ next' = IF j \in exists THEN [next EXCEPT ![j] = "sentinel"] ELSE next
    /\ exec' = [exec EXCEPT ![e] = [job |-> j, schedule |-> listed[j], phase |-> "run"]]
    /\ launches' = [launches EXCEPT ![j] = IF @ < 2 THEN @ + 1 ELSE @]
    /\ UNCHANGED <<exists, enabled, schedule, ran, passed, up, stops, listed, edit>>

-----------------------------------------------------------------------------
(* The goroutine of one execution                                          *)

\* execFn returns, with an error or not; UpdateLastRun.
Executed(e) ==
    /\ exec[e] # Idle /\ exec[e].phase = "run"
    /\ ran' = IF exec[e].job \in exists THEN ran \union {exec[e].job} ELSE ran
    /\ exec' = [exec EXCEPT ![e].phase = "ran"]
    /\ UNCHANGED <<exists, enabled, schedule, next, passed, up, stops, found, listed, edit,
                   launches>>

\* A goroutine that stops at UpdateLastRun.
Reschedule_skipped(e) ==
    /\ exec[e] # Idle /\ exec[e].phase = "ran"
    /\ exec' = [exec EXCEPT ![e] = Idle]
    /\ UNCHANGED <<rows, passed, up, stops, found, listed, edit, launches>>

\* UpdateNextRun, or DisableJob when there is no next run, from the schedule
\* that poll read.
Reschedule(e) ==
    LET j == exec[e].job
        n == NextRunTime(exec[e].schedule)
    IN  /\ exec[e] # Idle /\ exec[e].phase = "ran"
        /\ exec' = [exec EXCEPT ![e] = Idle]
        /\ next' = IF j \in exists /\ n # "none" THEN [next EXCEPT ![j] = n] ELSE next
        /\ enabled' = IF n = "none" THEN enabled \ {j} ELSE enabled
        /\ UNCHANGED <<exists, schedule, ran, passed, up, stops, found, listed, edit, launches>>

\* execFn panics: the recovery logs it, and nothing more is written.
ExecPanics(e) == /\ exec[e] # Idle /\ exec[e].phase = "run"
                 /\ exec' = [exec EXCEPT ![e] = Idle]
                 /\ UNCHANGED <<rows, passed, up, stops, found, listed, edit, launches>>

-----------------------------------------------------------------------------
(* Stop, crash and start                                                   *)

Down == /\ up /\ stops < MaxStops
        /\ up' = FALSE
        /\ stops' = stops + 1
        /\ found' = {}
        /\ exec' = [e \in Slots |-> Idle]
        /\ edit' = [h \in Handlers |-> Idle]
        /\ UNCHANGED <<rows, passed, listed, launches>>

\* Stop waits for the executions.
Stop == found = {} /\ (\A e \in Slots : exec[e] = Idle) /\ Down

\* A crash takes them along.
Crash == Down

\* RecoverStaleJobs: jobs that never ran and are more than two days away.
Recovered(j) == /\ j \in enabled /\ j \notin ran
                /\ next[j] \in {"sentinel", "week", "days"}
                /\ NextRunTime(schedule[j]) # "none"

Start == /\ ~up
         /\ up' = TRUE
         /\ next' = [j \in Jobs |-> IF Recovered(j) THEN NextRunTime(schedule[j]) ELSE next[j]]
         /\ UNCHANGED <<exists, enabled, schedule, ran, passed, stops, memory, launches>>

-----------------------------------------------------------------------------
Execution(e) == Executed(e) \/ Reschedule(e)

\* Nobody edits a job, and nothing goes wrong.
Works == \/ \E j \in Jobs : \/ Approach(j)
                            \/ \E s \in Schedules : Create(j, s)
                            \/ \E e \in Slots : Launch(j, e)
         \/ \E s \in Once : Pass(s)
         \/ PollList
         \/ \E e \in Slots : Execution(e)
         \/ Stop \/ Start

Fails == Crash \/ \E e \in Slots : ExecPanics(e)

Edits == \/ \E j \in Jobs : Delete(j)
         \/ \E h \in Handlers : \/ WriteRow(h)
                                \/ \E j \in Jobs : \/ ReadForToggle(h, j)
                                                   \/ \E s \in Schedules : ReadForUpdate(h, j, s)

Next == Works \/ Fails \/ Edits

\* Time passes, the ticker ticks, executions end (jobTimeout, the sandbox's
\* limit) and a stopped server is started again.
Fairness == /\ \A j \in Jobs : /\ WF_vars(Approach(j))
                               /\ WF_vars(\E e \in Slots : Launch(j, e))
            /\ \A s \in Once : WF_vars(Pass(s))
            /\ \A e \in Slots : WF_vars(Execution(e))
            /\ WF_vars(PollList) /\ WF_vars(Start)

Spec == Init /\ [][Next]_vars
LiveSpec == Spec /\ Fairness

\* Nothing goes wrong but a crash of the process, and nobody edits a job.
CrashSpec == Init /\ [][Works \/ Crash]_vars

-----------------------------------------------------------------------------
(* Properties                                                              *)

TypeOK == /\ exists \subseteq Jobs
          /\ enabled \subseteq exists /\ ran \subseteq exists
          /\ schedule \in [Jobs -> Schedules] /\ listed \in [Jobs -> Schedules]
          /\ next \in [Jobs -> NextRuns]
          /\ passed \subseteq Once /\ found \subseteq Jobs
          /\ up \in BOOLEAN /\ stops \in 0..MaxStops
          /\ launches \in [Jobs -> 0..2]
          /\ ~up => found = {} /\ \A e \in Slots : exec[e] = Idle

Executing(j) == {e \in Slots : exec[e] # Idle /\ exec[e].job = j}

\* A job is executed once at a time ("set next_run_at far away at once, so
\* that the next poll does not execute it again", cron.go:218).
OneExecution == \A j \in Jobs : \A e, f \in Executing(j) : e = f

\* A one-time job is started at most once, whatever restarts come between.
OnceIsOnce == \A j \in Jobs : schedule[j] \in Once => launches[j] <= 1

\* A sentinel means that the job is being executed: no job that is enabled
\* stays a hundred years away ("at start-up, recover the sentinel jobs that a
\* crash of the process left behind", cron.go:140).
NoJobLost == \A j \in enabled : up /\ next[j] = "sentinel" => Executing(j) # {}

\* Recovery moves only jobs that are stuck on the sentinel ("it says that it
\* is stuck on the sentinel", cron.go:170): a start never postpones another.
RecoveryOnlyUnsticks ==
    [][~up /\ up' => \A j \in Jobs : next'[j] # next[j] => next[j] = "sentinel"]_vars

\* A due job is taken up, by poll or by whoever disables, changes or deletes it.
DueTakenUp == \A j \in Jobs :
    up /\ j \in enabled /\ next[j] = "due" ~> j \notin enabled \/ next[j] # "due"

\* A recurring job recurs.
Recurs == \A j \in Jobs :
    j \in enabled /\ schedule[j] = Every ~> Executing(j) # {}
=============================================================================
