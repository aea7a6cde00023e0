----------------------------- MODULE SubAgents -----------------------------
(* The sub-agents of one picoagent process: goroutines with an engine of      *)
(* their own, found by name in the manager's map, collected with a timeout.   *)
(* internal/agent/subagent.go.  Sub-agents use the process's tool registry,   *)
(* the spawn and collect tools included, so they are callers too.             *)
EXTENDS Naturals

CONSTANTS Names,      \* names that callers give
          MaxAgents   \* bound: sub-agents in all

Ids == 1..MaxAgents
Main == 0
None == 0
Callers == {Main} \cup Ids

VARIABLES agents,     \* name -> the sub-agent it is mapped to, or None
          owner, state, cancelled,  \* of each sub-agent; state: new, run, done
          name,       \* the name it was spawned under
          call,       \* caller -> what it is doing: idle, wait, drop
          target,     \* caller -> the sub-agent its Collect looked up
          outcome,    \* caller -> result, timeout
          collected   \* sub-agent -> who was given its result, in order

vars == <<agents, owner, state, cancelled, name, call, target, outcome, collected>>
subs == <<owner, state, cancelled, name>>
calls == <<call, target, outcome, collected>>

Init == /\ agents = [n \in Names |-> None]
        /\ owner = [i \in Ids |-> None] /\ state = [i \in Ids |-> "new"]
        /\ cancelled = [i \in Ids |-> FALSE]
        /\ name = [i \in Ids |-> CHOOSE n \in Names : TRUE]
        /\ call = [c \in Callers |-> "idle"] /\ target = [c \in Callers |-> None]
        /\ outcome = [c \in Callers |-> "none"] /\ collected = [i \in Ids |-> {}]

(* A caller runs its tools one after another, a sub-agent only while its task *)
(* runs.                                                                      *)
Free(c) == call[c] = "idle" /\ (c # Main => state[c] = "run")

(* SpawnAgent, by the tool subagent_spawn: refused while the name is mapped.  *)
SpawnAgent(c, n, i) ==
    /\ Free(c) /\ state[i] = "new" /\ \A j \in 1..(i - 1) : state[j] # "new"
    /\ agents[n] = None
    /\ agents' = [agents EXCEPT ![n] = i] /\ owner' = [owner EXCEPT ![i] = c]
    /\ state' = [state EXCEPT ![i] = "run"] /\ name' = [name EXCEPT ![i] = n]
    /\ UNCHANGED <<cancelled, calls>>

(* runSubAgent returns a result, an error or the panic it died of; a          *)
(* cancelled one fails its request and ends too.                              *)
RunSubAgent(i) == /\ state[i] = "run"
                  /\ call[i] = "idle"
                  /\ state' = [state EXCEPT ![i] = "done"]
                  /\ UNCHANGED <<agents, owner, cancelled, name, calls>>

(* Collect looks the name up ...                                              *)
Collect(c, n) == /\ Free(c) /\ agents[n] # None
                 /\ call' = [call EXCEPT ![c] = "wait"]
                 /\ target' = [target EXCEPT ![c] = agents[n]]
                 /\ UNCHANGED <<agents, subs, outcome, collected>>

(* ... waits for the sub-agent to be done ...                                 *)
SeeDone(c) == /\ call[c] = "wait" /\ state[target[c]] = "done"
              /\ call' = [call EXCEPT ![c] = "drop"] /\ outcome' = [outcome EXCEPT ![c] = "result"]
              /\ UNCHANGED <<agents, subs, target, collected>>

(* ... or for the timer, and cancels it ...                                   *)
TimesOut(c) == /\ call[c] = "wait"
               /\ cancelled' = [cancelled EXCEPT ![target[c]] = TRUE]
               /\ call' = [call EXCEPT ![c] = "drop"] /\ outcome' = [outcome EXCEPT ![c] = "timeout"]
               /\ UNCHANGED <<agents, owner, state, name, target, collected>>

(* ... and takes the name out of the map, whoever it stands for by then.      *)
Drop(c) ==
    /\ call[c] = "drop"
    /\ agents' = [agents EXCEPT ![name[target[c]]] = None]
    /\ call' = [call EXCEPT ![c] = "idle"]
    /\ target' = [target EXCEPT ![c] = None] /\ outcome' = [outcome EXCEPT ![c] = "none"]
    /\ collected' = IF outcome[c] = "result"
                    THEN [collected EXCEPT ![target[c]] = @ \cup {c}] ELSE collected
    /\ UNCHANGED subs

Next == \/ \E c \in Callers, n \in Names : Collect(c, n) \/ \E i \in Ids : SpawnAgent(c, n, i)
        \/ \E i \in Ids : RunSubAgent(i)
        \/ \E c \in Callers : SeeDone(c) \/ TimesOut(c) \/ Drop(c)
(* The timer of a Collect fires.  No sub-agent need ever be done.             *)
Fairness == \A c \in Callers : WF_vars(SeeDone(c) \/ TimesOut(c)) /\ WF_vars(Drop(c))
Spec == Init /\ [][Next]_vars /\ Fairness

---------------------------------------------------------------------------
(* A sub-agent that nobody has given up or is just now collecting can be      *)
(* found under its name: none is forgotten while it works.  Needs one caller: *)
(* with several, the second of two collectors of one name removes whoever has *)
(* the name by then.                                                          *)
Findable ==
    \A i \in Ids : state[i] = "run" /\ ~cancelled[i] => agents[name[i]] = i

(* Each result is given to one caller, the one that spawned it; again with    *)
(* one caller.                                                                *)
OwnResult == \A i \in Ids : collected[i] \subseteq {owner[i]}
OneCaller == \A i \in Ids : call[i] = "idle" /\ owner[i] = Main

(* A Collect returns, even one of a sub-agent that never ends.                *)
CollectReturns == \A c \in Callers : call[c] # "idle" ~> call[c] = "idle"

(* "子代理中不能再次创建子代理" (subagent.go): a sub-agent has no sub-agents.  *)
NoNesting == \A i \in Ids : state[i] # "new" => owner[i] = Main
=============================================================================
