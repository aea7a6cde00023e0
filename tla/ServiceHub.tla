------------------------------ MODULE ServiceHub ------------------------------
(***************************************************************************)
(* internal/web/service_hub.go: the WebSocket connections of one user's    *)
(* browser or desktop agent to one hub, and the tool calls in flight on    *)
(* them.  The goroutines are the handler that registers a connection, each *)
(* connection's readPump, each call of SendCommand and its timer; what     *)
(* they share is guarded by the hub's lock, the pending map and the lock   *)
(* of each PendingCall.  Connections are numbered as they register.        *)
(***************************************************************************)
EXTENDS Naturals, FiniteSets

CONSTANTS Calls,        \* tool calls
          MaxConns,     \* bound: connections the agent makes
          NoCall        \* not a call

Conns == 1..MaxConns

VARIABLES registered,   \* connections registered so far
          current,      \* ServiceHub.conns of the user; 0 when it has none
          registering,  \* a Register holds ServiceHub.mu: "closing", "adding"
          toCancel,     \* calls its Close has found pending
          ws,           \* each connection's socket
          pump,         \* each connection's readPump
          handling,     \* the call whose answer the pump has taken from pending
          wire,         \* answers the agent has sent
          pc,           \* the steps of SendCommand
          conn,         \* the connection the call was made on
          pending,      \* calls in AgentConn.pending
          resolved,     \* PendingCall.resolved
          ch,           \* PendingCall.resultCh
          timer,        \* PendingCall.timer
          ret,          \* what the call returned
          panicked      \* a send or a close met a closed channel

hubVars == <<registered, current, registering, toCancel>>
connVars == <<ws, pump, handling, wire>>
callVars == <<pc, conn, ret>>
sharedVars == <<pending, resolved, ch, timer, panicked>>
vars == <<hubVars, connVars, callVars, sharedVars>>

Init == /\ registered = 0 /\ current = 0
        /\ registering = "no" /\ toCancel = {}
        /\ ws = [k \in Conns |-> "none"]
        /\ pump = [k \in Conns |-> "none"]
        /\ handling = [k \in Conns |-> NoCall]
        /\ wire = {}
        /\ pc = [x \in Calls |-> "idle"]
        /\ conn = [x \in Calls |-> 0]
        /\ ret = [x \in Calls |-> "none"]
        /\ pending = {} /\ resolved = {}
        /\ ch = [x \in Calls |-> "empty"]
        /\ timer = [x \in Calls |-> "none"]
        /\ panicked = FALSE

Stopped(x) == IF timer[x] = "armed" THEN "stopped" ELSE timer[x]

\* close(resultCh), by whoever resolves the call first; it stops the timer.
CloseResult(x, t) ==
    IF x \in resolved THEN UNCHANGED <<resolved, ch, panicked, timer>>
    ELSE /\ resolved' = resolved \union {x}
         /\ ch' = [ch EXCEPT ![x] = "closed"]
         /\ panicked' = (panicked \/ ch[x] = "closed")
         /\ timer' = [timer EXCEPT ![x] = t]

-----------------------------------------------------------------------------
(* Register, with Close of the connection it replaces                      *)

\* The old socket is closed first; Range then visits at least the calls that
\* are pending now.  A connection whose done is closed is left alone.
RegisterStart ==
    LET kick == current # 0 /\ pump[current] = "reading" IN
    /\ registering = "no" /\ registered < MaxConns
    /\ registering' = IF kick THEN "closing" ELSE "adding"
    /\ ws' = IF kick THEN [ws EXCEPT ![current] = "closed"] ELSE ws
    /\ toCancel' = IF kick THEN {x \in pending : conn[x] = current} ELSE {}
    /\ UNCHANGED <<registered, current, pump, handling, wire, callVars, sharedVars>>

\* Range visits a pending call: one of those, or one stored meanwhile.
CancelCall(x) ==
    /\ registering = "closing" /\ x \in pending /\ conn[x] = current
    /\ pending' = pending \ {x}
    /\ CloseResult(x, Stopped(x))
    /\ UNCHANGED <<hubVars, connVars, callVars>>

RegisterFinish ==
    LET k == registered + 1 IN
    /\ registering # "no" /\ toCancel \intersect pending = {}
    /\ registering' = "no" /\ toCancel' = {}
    /\ registered' = k
    /\ current' = k
    /\ ws' = [ws EXCEPT ![k] = "open"]
    /\ pump' = [pump EXCEPT ![k] = "reading"]
    /\ UNCHANGED <<handling, wire, callVars, sharedVars>>

-----------------------------------------------------------------------------
(* The agent and the network                                               *)

Drop(k) == /\ ws[k] = "open"
           /\ ws' = [ws EXCEPT ![k] = "closed"]
           /\ UNCHANGED <<hubVars, pump, handling, wire, callVars, sharedVars>>

\* The agent may answer late, and more than once.
Answer(x) == /\ pc[x] \in {"wait", "returned"} /\ ret[x] \notin {"noAgent", "sendFailed"}
             /\ ws[conn[x]] = "open" /\ x \notin wire
             /\ wire' = wire \union {x}
             /\ UNCHANGED <<hubVars, ws, pump, handling, callVars, sharedVars>>

-----------------------------------------------------------------------------
(* readPump                                                                *)

\* An answer is read; a call that is no longer pending is dropped.
PumpRead(k, x) ==
    /\ pump[k] = "reading" /\ handling[k] = NoCall
    /\ ws[k] = "open" /\ x \in wire /\ conn[x] = k
    /\ wire' = wire \ {x}
    /\ handling' = [handling EXCEPT ![k] = IF x \in pending THEN x ELSE NoCall]
    /\ pending' = pending \ {x}
    /\ UNCHANGED <<hubVars, ws, pump, callVars, resolved, ch, timer, panicked>>

\* A delivery that does not look at resolved.
PumpDeliver_unchecked(k) ==
    LET x == handling[k] IN
    /\ x # NoCall
    /\ handling' = [handling EXCEPT ![k] = NoCall]
    /\ resolved' = resolved \union {x}
    /\ ch' = [ch EXCEPT ![x] = "value"]
    /\ panicked' = (panicked \/ ch[x] = "closed")
    /\ timer' = [timer EXCEPT ![x] = Stopped(x)]
    /\ UNCHANGED <<hubVars, ws, pump, wire, callVars, pending>>

\* Under the call's lock: the first to resolve it wins.
PumpDeliver(k) ==
    LET x == handling[k] IN
    /\ x # NoCall
    /\ handling' = [handling EXCEPT ![k] = NoCall]
    /\ IF x \in resolved THEN UNCHANGED <<resolved, ch, timer, panicked>>
       ELSE /\ resolved' = resolved \union {x}
            /\ ch' = [ch EXCEPT ![x] = "value"]
            /\ panicked' = (panicked \/ ch[x] = "closed")
            /\ timer' = [timer EXCEPT ![x] = Stopped(x)]
    /\ UNCHANGED <<hubVars, ws, pump, wire, callVars, pending>>

\* The deferred function: close(done), then Unregister under the hub's lock.
PumpFails(k) == /\ pump[k] = "reading" /\ handling[k] = NoCall /\ ws[k] = "closed"
                /\ pump' = [pump EXCEPT ![k] = "leaving"]
                /\ UNCHANGED <<hubVars, ws, handling, wire, callVars, sharedVars>>

\* Unregister without the identity check.
Unregister_any(k) == /\ pump[k] = "leaving" /\ registering = "no"
                     /\ pump' = [pump EXCEPT ![k] = "gone"]
                     /\ current' = 0
                     /\ UNCHANGED <<registered, registering, toCancel, ws, handling, wire,
                                    callVars, sharedVars>>

Unregister(k) == /\ pump[k] = "leaving" /\ registering = "no"
                 /\ pump' = [pump EXCEPT ![k] = "gone"]
                 /\ current' = IF current = k THEN 0 ELSE current
                 /\ UNCHANGED <<registered, registering, toCancel, ws, handling, wire,
                                callVars, sharedVars>>

-----------------------------------------------------------------------------
(* SendCommand                                                             *)

\* The deferred pending.Delete goes with every return.
Return(x, what) == /\ pc' = [pc EXCEPT ![x] = "returned"]
                   /\ ret' = [ret EXCEPT ![x] = what]
                   /\ pending' = pending \ {x}
                   /\ timer' = [timer EXCEPT ![x] = Stopped(x)]

\* GetConnection, by the handler of the MCP request.
GetConnection(x) ==
    /\ pc[x] = "idle" /\ registering = "no"
    /\ IF current = 0
       THEN Return(x, "noAgent") /\ UNCHANGED conn
       ELSE /\ conn' = [conn EXCEPT ![x] = current]
            /\ pc' = [pc EXCEPT ![x] = "store"]
            /\ UNCHANGED <<ret, pending, timer>>
    /\ UNCHANGED <<hubVars, connVars, resolved, ch, panicked>>

StoreCall(x) == /\ pc[x] = "store"
                /\ timer' = [timer EXCEPT ![x] = "armed"]
                /\ pending' = pending \union {x}
                /\ pc' = [pc EXCEPT ![x] = "write"]
                /\ UNCHANGED <<hubVars, connVars, conn, ret, resolved, ch, panicked>>

WriteCommand(x) ==
    /\ pc[x] = "write"
    /\ IF ws[conn[x]] = "open"
       THEN pc' = [pc EXCEPT ![x] = "wait"] /\ UNCHANGED <<ret, pending, timer>>
       ELSE Return(x, "sendFailed")
    /\ UNCHANGED <<hubVars, connVars, conn, resolved, ch, panicked>>

\* A closed channel is reported as a timeout.
ReceiveResult(x) ==
    /\ pc[x] = "wait" /\ ch[x] # "empty"
    /\ Return(x, IF ch[x] = "value" THEN "answer" ELSE "timeout")
    /\ UNCHANGED <<hubVars, connVars, conn, resolved, ch, panicked>>

ContextDone(x) == /\ pc[x] = "wait"
                  /\ Return(x, "cancelled")
                  /\ UNCHANGED <<hubVars, connVars, conn, resolved, ch, panicked>>

ConnDone(x) == /\ pc[x] = "wait" /\ pump[conn[x]] \in {"leaving", "gone"}
               /\ Return(x, "disconnected")
               /\ UNCHANGED <<hubVars, connVars, conn, resolved, ch, panicked>>

\* The AfterFunc of commandTimeout: delete, then resolve under the lock.
TimerFires(x) == /\ timer[x] = "armed"
                 /\ timer' = [timer EXCEPT ![x] = "firing"]
                 /\ pending' = pending \ {x}
                 /\ UNCHANGED <<hubVars, connVars, callVars, resolved, ch, panicked>>

TimerResolves(x) ==
    /\ timer[x] = "firing"
    /\ IF x \in resolved
       THEN timer' = [timer EXCEPT ![x] = "fired"] /\ UNCHANGED <<resolved, ch, panicked>>
       ELSE CloseResult(x, "fired")
    /\ UNCHANGED <<hubVars, connVars, callVars, pending>>

-----------------------------------------------------------------------------
Pump(k) == PumpDeliver(k) \/ PumpFails(k) \/ Unregister(k)
Command(x) == \/ StoreCall(x) \/ WriteCommand(x) \/ ReceiveResult(x)
              \/ TimerFires(x) \/ TimerResolves(x)

Next == \/ RegisterStart \/ RegisterFinish
        \/ \E x \in Calls : \/ CancelCall(x) \/ Answer(x) \/ GetConnection(x)
                            \/ Command(x) \/ ContextDone(x) \/ ConnDone(x)
        \/ \E k \in Conns : \/ Drop(k) \/ Pump(k)
                            \/ \E x \in Calls : PumpRead(k, x)

\* Goroutines run, a write returns and a timer fires; no agent has to answer,
\* connect, stay or leave.
Fairness == /\ \A x \in Calls : WF_vars(Command(x)) /\ WF_vars(CancelCall(x))
            /\ \A k \in Conns : WF_vars(Pump(k))
            /\ WF_vars(RegisterFinish)

Spec == Init /\ [][Next]_vars
LiveSpec == Spec /\ Fairness

-----------------------------------------------------------------------------
(* Properties                                                              *)

TypeOK == /\ registered \in 0..MaxConns /\ current \in 0..registered
          /\ registering \in {"no", "closing", "adding"} /\ toCancel \subseteq Calls
          /\ ws \in [Conns -> {"none", "open", "closed"}]
          /\ pump \in [Conns -> {"none", "reading", "leaving", "gone"}]
          /\ handling \in [Conns -> Calls \union {NoCall}]
          /\ wire \subseteq Calls
          /\ pc \in [Calls -> {"idle", "store", "write", "wait", "returned"}]
          /\ conn \in [Calls -> 0..registered]
          /\ pending \subseteq {x \in Calls : pc[x] \in {"write", "wait"} /\ conn[x] # 0}
          /\ resolved \subseteq Calls
          /\ ch \in [Calls -> {"empty", "value", "closed"}]
          /\ timer \in [Calls -> {"none", "armed", "stopped", "firing", "fired"}]
          /\ ret \in [Calls -> {"none", "answer", "timeout", "cancelled",
                                "disconnected", "sendFailed", "noAgent"}]
          /\ panicked \in BOOLEAN

\* A late answer, the timer and a replaced connection may all resolve a call;
\* its channel is written or closed once (a second time kills the server).
ResolvedOnce == ~panicked

\* What a call returns as an answer is an answer the agent gave it.
AnswersAreReal == \A x \in Calls : ret[x] = "answer" => ch[x] = "value"

\* The map follows the newest connection: it is in the map while its socket
\* is open, an old one's departure does not take it out, and a connection whose
\* pump is gone is not handed out any more.
NewestReachable == /\ registered > 0 /\ ws[registered] = "open" => current = registered
                   /\ current # 0 => pump[current] # "gone"

\* A call reported as timed out ran into its timer ("tool call timed out
\* (30s)", service_hub.go:175).
TimeoutsAreReal == \A x \in Calls : ret[x] = "timeout" => timer[x] \in {"firing", "fired"}

\* A tool call returns, answered or not.
CallReturns(x) == pc[x] = "store" ~> pc[x] = "returned"
=============================================================================
