------------------------------ MODULE MCPClient ------------------------------
(* The agent's side of its MCP servers: sessions opened at start-up, tools    *)
(* registered once, calls from the agent and its sub-agents under one mutex,  *)
(* a broken session replaced and the call repeated.                           *)
(* internal/agent/mcp_tool.go, cmd/picoagent/main.go and tool_registry.go;    *)
(* the MCP library is external.                                               *)
EXTENDS Naturals

CONSTANTS Callers,   \* goroutines: the agent's, which starts, and its helpers'
          Servers,   \* of the configuration, a map: connected in any order
          MaxCalls, MaxBreaks   \* bounds

VARIABLES sessions,  \* server -> its session, 0 for none
          last,      \* sessions opened so far
          closed,    \* sessions closed by a reconnection
          broken,    \* sessions whose connection is gone
          registered,\* servers whose tools the agent knows
          booting,   \* servers still to connect
          mu,        \* holder of the mutex, or "none"
          st,        \* of each caller
          calls, breaks,
          ran        \* history variable: executions of the present call

vars == <<sessions, last, closed, broken, registered, booting, mu, st, calls, breaks, ran>>
Main == "agent"
Idle == [pc |-> "idle", server |-> "none", using |-> 0, again |-> FALSE, tries |-> 0, result |-> "none"]

Init == /\ sessions = [s \in Servers |-> 0] /\ last = 0 /\ closed = {} /\ broken = {}
        /\ registered = {} /\ booting = Servers /\ mu = "none"
        /\ st = [c \in Callers |-> Idle] /\ calls = 0 /\ breaks = 0
        /\ ran = [c \in Callers |-> 0]

Booted == booting = {}

(* Start-up: each server in turn.                                             *)
Boot == /\ ~Booted /\ st[Main].pc = "idle"
        /\ \E s \in booting : st' = [st EXCEPT ![Main] = [Idle EXCEPT !.pc = "connect", !.server = s]]
        /\ UNCHANGED <<sessions, last, closed, broken, registered, booting, mu, calls, breaks, ran>>

(* Connect tries twice; connectOnce opens the session without the mutex, and  *)
(* takes it to install it.  A server that cannot be connected at start-up has *)
(* no tools for the life of the process.                                      *)
Dial(c) ==
    /\ st[c].pc = "connect"
    /\ \/ st' = [st EXCEPT ![c].pc = "install", ![c].tries = 0] /\ UNCHANGED booting
       \/ /\ st[c].tries = 0 /\ st' = [st EXCEPT ![c].tries = 1] /\ UNCHANGED booting
       \/ /\ st[c].tries = 1
          /\ IF Booted THEN st' = [st EXCEPT ![c].pc = "done", ![c].result = "crash"] /\ UNCHANGED booting
                       ELSE st' = [st EXCEPT ![c] = Idle] /\ booting' = booting \ {st[c].server}
    /\ UNCHANGED <<sessions, last, closed, broken, registered, mu, calls, breaks, ran>>

Install(c) ==
    /\ st[c].pc = "install" /\ mu = "none"
    /\ last' = last + 1 /\ sessions' = [sessions EXCEPT ![st[c].server] = last']
    /\ closed' = closed \cup ({sessions[st[c].server]} \ {0})
    /\ IF Booted THEN /\ st' = [st EXCEPT ![c].pc = "lock"] /\ UNCHANGED <<booting, registered>>
       ELSE /\ st' = [st EXCEPT ![c] = Idle]
            /\ registered' = registered \cup {st[c].server} /\ booting' = booting \ {st[c].server}
    /\ UNCHANGED <<broken, mu, calls, breaks, ran>>

(* A tool call; query_server finds the same executor.                         *)
Call(c) ==
    /\ Booted /\ st[c].pc = "idle" /\ calls < MaxCalls /\ calls' = calls + 1
    /\ \E s \in registered : st' = [st EXCEPT ![c] = [Idle EXCEPT !.pc = "lock", !.server = s]]
    /\ ran' = [ran EXCEPT ![c] = 0]
    /\ UNCHANGED <<sessions, last, closed, broken, registered, booting, mu, breaks>>

(* Mutant: the mutex protects the map only.                                   *)
Lock_briefly(c) ==
    /\ st[c].pc = "lock" /\ mu = "none"
    /\ st' = [st EXCEPT ![c].pc = "calling", ![c].using = sessions[st[c].server]]
    /\ UNCHANGED <<sessions, last, closed, broken, registered, booting, mu, calls, breaks, ran>>

(* CallTool keeps the mutex while the server works, so that no reconnection   *)
(* closes the session.                                                        *)
Lock(c) ==
    /\ st[c].pc = "lock" /\ mu = "none" /\ mu' = c
    /\ st' = [st EXCEPT ![c].pc = "calling", ![c].using = sessions[st[c].server]]
    /\ UNCHANGED <<sessions, last, closed, broken, registered, booting, calls, breaks, ran>>

Release(c) == mu' = IF mu = c THEN "none" ELSE mu
Good(c) == st[c].using \notin closed \cup broken
(* The server answers.                                                        *)
Answer(c) == /\ st[c].pc = "calling" /\ Good(c) /\ Release(c)
             /\ st' = [st EXCEPT ![c].pc = "done", ![c].result = "ok"]
             /\ ran' = [ran EXCEPT ![c] = @ + 1]
             /\ UNCHANGED <<sessions, last, closed, broken, registered, booting, calls, breaks>>
(* Mutant: the early return forgets the mutex.                                *)
Refuse_holds(c) == /\ st[c].pc = "calling" /\ Good(c) /\ mu' = mu
                   /\ st' = [st EXCEPT ![c].pc = "done", ![c].result = "crash"]
                   /\ ran' = [ran EXCEPT ![c] = @ + 1]
                   /\ UNCHANGED <<sessions, last, closed, broken, registered, booting, calls, breaks>>
(* An error that is not one of the connection: no result and no error are     *)
(* returned, Execute uses the missing result, and the registry recovers.  So  *)
(* does a second failure's first caller when the server stays away; only the  *)
(* repeated call's error is reported as what it is.                           *)
Refuse(c) == /\ st[c].pc = "calling" /\ Good(c) /\ Release(c)
             /\ st' = [st EXCEPT ![c].pc = "done", ![c].result = IF st[c].again THEN "error" ELSE "crash"]
             /\ ran' = [ran EXCEPT ![c] = @ + 1]
             /\ UNCHANGED <<sessions, last, closed, broken, registered, booting, calls, breaks>>
(* The connection is gone, before or after the tool ran; once, the session is *)
(* replaced and the call repeated.                                            *)
Disconnected(c) ==
    /\ st[c].pc = "calling" /\ ~Good(c) /\ Release(c)
    /\ st' = [st EXCEPT ![c] = IF @.again THEN [@ EXCEPT !.pc = "done", !.result = "error"]
                               ELSE [@ EXCEPT !.pc = "connect", !.again = TRUE, !.using = 0]]
    /\ \E k \in {0, 1} : ran' = [ran EXCEPT ![c] = @ + k]
    /\ UNCHANGED <<sessions, last, closed, broken, registered, booting, calls, breaks>>
Return(c) == /\ st[c].pc = "done" /\ st' = [st EXCEPT ![c] = Idle]
             /\ UNCHANGED <<sessions, last, closed, broken, registered, booting, mu, calls, breaks, ran>>

(* The server's end: a reload or restart breaks its session.                  *)
Break(s) == /\ breaks < MaxBreaks /\ breaks' = breaks + 1 /\ sessions[s] # 0
            /\ broken' = broken \cup {sessions[s]}
            /\ UNCHANGED <<sessions, last, closed, registered, booting, mu, st, calls, ran>>

Work(c) == Dial(c) \/ Install(c) \/ Lock(c) \/ Answer(c) \/ Refuse(c) \/ Disconnected(c) \/ Return(c)
Next == Boot \/ (\E c \in Callers : Call(c) \/ Work(c)) \/ (\E s \in Servers : Break(s))
(* A request ends within ten seconds (the HTTP client's limit), and the mutex *)
(* is handed on.                                                              *)
Fairness == \A c \in Callers : WF_vars(Work(c)) /\ SF_vars(Install(c)) /\ SF_vars(Lock(c))
Spec == Init /\ [][Next]_vars /\ Fairness

---------------------------------------------------------------------------
(* No session is closed under a call ("防止并发 connectOnce 关闭正在使用的       *)
(* session"), a result reported as good was produced, and a tool runs at most *)
(* twice for one call.                                                        *)
MCPClientSafe ==
    \A c \in Callers :
      /\ st[c].pc = "calling" => st[c].using \notin closed \cup {0}
      /\ st[c].result = "ok" => ran[c] > 0
      /\ ran[c] <= 2
MCPCallsEnd == \A c \in Callers : st[c].pc = "lock" ~> st[c].pc = "idle"
=============================================================================
