------------------------------ MODULE MCPProxies ------------------------------
(* internal/web/mcp_proxy.go, with the requests of admin_mcp.go that change   *)
(* the table mcp_servers and the route of a tool call in mcp_service.go: the  *)
(* third-party MCP servers as proxies, subprocesses and services.             *)
(*                                                                            *)
(* A load (LoadMCPServers) reads the table, connects to every server of it,   *)
(* puts the new proxies in the place of the old ones and registers their      *)
(* services.  Boot is the load of Serve; each other load is run by a request  *)
(* that has changed the table.  A proxy is the pair of its load and its name. *)
EXTENDS Naturals, Sequences, FiniteSets

CONSTANTS Names, Calls,
          AtOnce,       \* bound: loads that run at once
          MaxLoads      \* bound: loads after the one of Serve

Boot == 0
Loads == Boot..MaxLoads
Proxies == Loads \X Names
None == "none"
NoProxy == <<>>

VARIABLES rows,       \* mcp_servers: the transport of an enabled server
          load,       \* the steps of each load
          want,       \* the rows it read
          todo,       \* the names its loop has left
          old,        \* the proxies it took out of the manager
          table,      \* globalMCPManager.proxies
          service,    \* serviceRegistry: whose tools are listed
          proc,       \* each proxy's subprocess
          running,    \* MCPProxy.running
          holder,     \* MCPProxy.mu
          asked,      \* the subprocess's stdin
          answers,    \* and its stdout: requests by their callers, all have id 3
          call, lister

loadVars == <<rows, load, want, todo, old>>
callVars == <<call, asked, answers>>
vars == <<loadVars, table, service, proc, running, holder, callVars, lister>>

Empty == [n \in Names |-> NoProxy]
Idle == [at |-> "idle", server |-> None, on |-> NoProxy, got |-> None]

Init == /\ rows \in [Names -> {None, "stdio", "http"}]
        /\ load = [r \in Loads |-> IF r = Boot THEN "read" ELSE "idle"]
        /\ want = [r \in Loads |-> [n \in Names |-> None]] /\ todo = [r \in Loads |-> {}] /\ old = [r \in Loads |-> Empty]
        /\ table = Empty /\ service = Empty
        /\ proc = [p \in Proxies |-> None] /\ running = {}
        /\ holder = [p \in Proxies |-> None]
        /\ asked = [p \in Proxies |-> <<>>] /\ answers = [p \in Proxies |-> <<>>]
        /\ call = [c \in Calls |-> Idle] /\ lister = None

Transport(p) == want[p[1]][p[2]]
Loading == {r \in Loads : load[r] \notin {"idle", "done"}}
Wanted(r) == {n \in Names : want[r][n] # None}
\* RLock waits while a writer does.
Readable == ~(lister # None /\ \E r \in Loads : load[r] = "swap")

-----------------------------------------------------------------------------
(* LoadMCPServers                                                             *)

\* Create, update, delete or plain reload: the row, then a load under the
\* context of the request.
Edit(r, n, transport) ==
    /\ r # Boot /\ load[r] = "idle" /\ \A q \in Loads : q < r => load[q] # "idle"
    /\ load[Boot] = "done"      \* the server listens
    /\ Cardinality(Loading) < AtOnce
    /\ rows' = [rows EXCEPT ![n] = transport]
    /\ load' = [load EXCEPT ![r] = "read"]
    /\ UNCHANGED <<want, todo, old, table, service, proc, running, holder, callVars, lister>>

Read(r) == /\ load[r] = "read"
           /\ want' = [want EXCEPT ![r] = rows]
           /\ todo' = [todo EXCEPT ![r] = {n \in Names : rows[n] # None}]
           /\ load' = [load EXCEPT ![r] = "fetch"]
           /\ UNCHANGED <<rows, old, table, service, proc, running, holder, callVars, lister>>

\* Connected, the subprocess stays with the proxy; any failure ends it.
StdioHandshake(p) == \/ proc' = [proc EXCEPT ![p] = "up"] /\ running' = running \union {p}
                     \/ UNCHANGED <<proc, running>>

\* Counts as running whether it answers or not.
HTTPHandshake(p) == running' = running \union {p} /\ UNCHANGED proc

Fetch(r, n) ==
    LET p == <<r, n>> IN
    /\ load[r] = "fetch" /\ n \in todo[r]
    /\ todo' = [todo EXCEPT ![r] = @ \ {n}]
    /\ IF Transport(p) = "stdio" THEN StdioHandshake(p) ELSE HTTPHandshake(p)
    /\ UNCHANGED <<rows, load, want, old, table, service, holder, callVars, lister>>

Fetched(r) == /\ load[r] = "fetch" /\ todo[r] = {}
              /\ load' = [load EXCEPT ![r] = "swap"]
              /\ UNCHANGED <<rows, want, todo, old, table, service, proc, running, holder, callVars, lister>>

\* Under the manager's lock.
Swap(r) == /\ load[r] = "swap" /\ lister = None
           /\ old' = [old EXCEPT ![r] = table]
           /\ table' = [n \in Names |-> IF n \in Wanted(r) THEN <<r, n>> ELSE NoProxy]
           /\ todo' = [todo EXCEPT ![r] = Wanted(r)]
           /\ load' = [load EXCEPT ![r] = "register"]
           /\ UNCHANGED <<rows, want, service, proc, running, holder, callVars, lister>>

RegisterService(r, n) ==
    /\ load[r] = "register" /\ n \in todo[r]
    /\ service' = [service EXCEPT ![n] = <<r, n>>]
    /\ todo' = [todo EXCEPT ![r] = @ \ {n}]
    /\ UNCHANGED <<rows, load, want, old, table, proc, running, holder, callVars, lister>>

\* The old proxies whose names are not kept; one that is replaced under its
\* name is not stopped.
Registered(r) == /\ load[r] = "register" /\ todo[r] = {}
                 /\ todo' = [todo EXCEPT ![r] = {n \in Names : old[r][n] # NoProxy} \ Wanted(r)]
                 /\ load' = [load EXCEPT ![r] = "drop"]
                 /\ UNCHANGED <<rows, want, old, table, service, proc, running, holder, callVars, lister>>

\* stop, under the proxy's lock, and unregisterService.
Drop(r, n) ==
    LET p == old[r][n] IN
    /\ load[r] = "drop" /\ n \in todo[r] /\ holder[p] = None
    /\ proc' = [proc EXCEPT ![p] = IF @ = "up" THEN "stopped" ELSE @]
    /\ running' = running \ {p}
    /\ service' = [service EXCEPT ![n] = NoProxy]
    /\ todo' = [todo EXCEPT ![r] = @ \ {n}]
    /\ UNCHANGED <<rows, load, want, old, table, holder, callVars, lister>>

Loaded(r) == /\ load[r] = "drop" /\ todo[r] = {}
             /\ load' = [load EXCEPT ![r] = "done"]
             /\ UNCHANGED <<rows, want, todo, old, table, service, proc, running, holder, callVars, lister>>

\* The request has returned: its context ends, and with it the subprocesses
\* started under it (exec.CommandContext).
RequestEnds(p) == /\ p[1] # Boot /\ load[p[1]] = "done" /\ proc[p] = "up"
                  /\ proc' = [proc EXCEPT ![p] = "cancelled"]
                  /\ UNCHANGED <<loadVars, table, service, running, holder, callVars, lister>>

Dies(p) == /\ proc[p] = "up"
           /\ proc' = [proc EXCEPT ![p] = "died"]
           /\ UNCHANGED <<loadVars, table, service, running, holder, callVars, lister>>

-----------------------------------------------------------------------------
(* A tool call, and the pages that count tools                                *)

At(c, where) == call' = [call EXCEPT ![c].at = where]
\* An error of the proxy is dropped: without a hub for the tool the caller is
\* told that the tool is not known.
Returns(c, what) == call' = [call EXCEPT ![c].at = "done", ![c].got = what]
Unlock(c) == holder' = [holder EXCEPT ![call[c].on] = None]

Post(c, n) == /\ call[c].at = "idle" /\ service[n] # NoProxy
              /\ call' = [call EXCEPT ![c].at = "route", ![c].server = n]
              /\ UNCHANGED <<loadVars, table, service, proc, running, holder, asked, answers, lister>>

GetProxy(c) ==
    LET p == table[call[c].server] IN
    /\ call[c].at = "route" /\ Readable
    /\ IF p = NoProxy THEN Returns(c, "unknown")
                   ELSE call' = [call EXCEPT ![c].at = "lock", ![c].on = p]
    /\ UNCHANGED <<loadVars, table, service, proc, running, holder, asked, answers, lister>>

LockProxy(c) ==
    LET p == call[c].on IN
    /\ call[c].at = "lock" /\ holder[p] = None
    /\ IF p \in running
       THEN holder' = [holder EXCEPT ![p] = c] /\ At(c, IF Transport(p) = "stdio" THEN "write" ELSE "http")
       ELSE Returns(c, "unknown") /\ UNCHANGED holder
    /\ UNCHANGED <<loadVars, table, service, proc, running, asked, answers, lister>>

\* A write after which the lock is given up.
CallStdio_unlocked(c) ==
    LET p == call[c].on IN
    /\ call[c].at = "write"
    /\ Unlock(c)
    /\ IF proc[p] = "up"
       THEN asked' = [asked EXCEPT ![p] = Append(@, c)] /\ At(c, "wait")
       ELSE Returns(c, "unknown") /\ UNCHANGED asked
    /\ UNCHANGED <<loadVars, table, service, proc, running, answers, lister>>

\* callStdio: the request is written; the lock is held until it is answered.
CallStdio(c) ==
    LET p == call[c].on IN
    /\ call[c].at = "write"
    /\ \/ /\ proc[p] = "up"
          /\ asked' = [asked EXCEPT ![p] = Append(@, c)] /\ At(c, "wait")
          /\ UNCHANGED holder
       \/ /\ proc[p] # "up"
          /\ Returns(c, "unknown") /\ Unlock(c)
          /\ UNCHANGED asked
    /\ UNCHANGED <<loadVars, table, service, proc, running, answers, lister>>

\* The server answers a request (a result or an error, both with its id).
Answers(p) == /\ proc[p] = "up" /\ asked[p] # <<>>
              /\ answers' = [answers EXCEPT ![p] = Append(@, Head(asked[p]))]
              /\ asked' = [asked EXCEPT ![p] = Tail(@)]
              /\ UNCHANGED <<loadVars, table, service, proc, running, holder, call, lister>>

ReadLine(c) ==
    LET p == call[c].on IN
    /\ call[c].at = "wait" /\ answers[p] # <<>>
    /\ Returns(c, Head(answers[p])) /\ Unlock(c)
    /\ answers' = [answers EXCEPT ![p] = Tail(@)]
    /\ UNCHANGED <<loadVars, table, service, proc, running, asked, lister>>

\* A read error that leaves the lock taken.
ReadFails_holds(c) ==
    LET p == call[c].on IN
    /\ call[c].at = "wait" /\ proc[p] # "up" /\ answers[p] = <<>>
    /\ Returns(c, "unknown")
    /\ UNCHANGED <<loadVars, table, service, proc, running, holder, asked, answers, lister>>

ReadFails(c) ==
    LET p == call[c].on IN
    /\ call[c].at = "wait" /\ proc[p] # "up" /\ answers[p] = <<>>
    /\ Returns(c, "unknown") /\ Unlock(c)
    /\ UNCHANGED <<loadVars, table, service, proc, running, asked, answers, lister>>

\* callHTTP: a request of its own, answered or not.
CallHTTP(c) == /\ call[c].at = "http"
               /\ \/ Returns(c, c)
                  \/ Returns(c, "unknown")
               /\ Unlock(c)
               /\ UNCHANGED <<loadVars, table, service, proc, running, asked, answers, lister>>

\* ToolCount and GetServerTools hold the manager's lock while they wait for a
\* proxy's.
ListTools(n) == /\ lister = None /\ table[n] # NoProxy /\ Readable
                /\ \A r \in Loads : load[r] # "swap"
                /\ lister' = n
                /\ UNCHANGED <<loadVars, table, service, proc, running, holder, callVars>>

ToolsListed == /\ lister # None /\ holder[table[lister]] = None
               /\ lister' = None
               /\ UNCHANGED <<loadVars, table, service, proc, running, holder, callVars>>

-----------------------------------------------------------------------------
LoadStep(r) == \/ Read(r) \/ Fetched(r) \/ Swap(r) \/ Registered(r) \/ Loaded(r)
               \/ \E n \in Names : Fetch(r, n) \/ RegisterService(r, n) \/ Drop(r, n)
CallStep(c) == \/ GetProxy(c) \/ LockProxy(c) \/ CallStdio(c) \/ ReadLine(c) \/ ReadFails(c)
               \/ CallHTTP(c)

Next == \/ \E r \in Loads, n \in Names : \E t \in {None, "stdio", "http"} : Edit(r, n, t)
        \/ \E r \in Loads : LoadStep(r)
        \/ \E p \in Proxies : RequestEnds(p) \/ Dies(p) \/ Answers(p)
        \/ \E c \in Calls : CallStep(c) \/ \E n \in Names : Post(c, n)
        \/ \E n \in Names : ListTools(n)
        \/ ToolsListed

Spec == Init /\ [][Next]_vars

-----------------------------------------------------------------------------
(* Properties                                                                 *)

TypeOK == /\ rows \in [Names -> {None, "stdio", "http"}]
          /\ load \in [Loads -> {"idle", "read", "fetch", "swap", "register", "drop", "done"}]
          /\ \A r \in Loads : todo[r] \subseteq Names
          /\ \A n \in Names : {table[n], service[n]} \subseteq Proxies \union {NoProxy}
          /\ proc \in [Proxies -> {None, "up", "died", "stopped", "cancelled"}]
          /\ running \subseteq Proxies
          /\ \A p \in Proxies : holder[p] \in Calls \union {None}

\* Every request to a subprocess has the id 3 and is taken by that id: a call
\* gets the answer to its own request because the lock is held until then.
OwnAnswers == \A c \in Calls : call[c].got \in Calls => call[c].got = c

\* While loads come one at a time (AtOnce = 1), whenever none is running the
\* proxies are the enabled servers with their newest settings and each is the
\* service of its name ("swap the manager atomically and clean up", mcp_proxy.go:121).
TablesAgree == Loading = {} =>
    \A n \in Names : /\ table[n] # NoProxy <=> rows[n] # None
                     /\ table[n] # NoProxy => Transport(table[n]) = rows[n]
                     /\ service[n] = table[n]

ProxiesSound == OwnAnswers /\ TablesAgree

\* A subprocess runs until its proxy is stopped ("the cancel function is called
\* by proxy.stop()", mcp_proxy.go:419): it may die, nothing else ends it.
OnlyStopEnds == \A p \in Proxies : proc[p] # "cancelled"
=============================================================================
