------------------------------ MODULE TLSServer ------------------------------
(* internal/web/admin_tls.go and the HTTPS server of server.go: requests that *)
(* save, switch or clear the certificate, each of which writes the database,  *)
(* takes the new configuration into memory and replaces the server on :443.   *)
(* A server is named by the reload that built it; Boot is the one of Serve.   *)
EXTENDS Naturals, FiniteSets

CONSTANTS Certs,        \* valid pairs of certificate and key
          AtOnce,       \* bound: requests that run at once
          MaxRequests,  \* bound: requests
          MaxFaults     \* bound: failures of the database

Boot == 0
Reqs == Boot..MaxRequests
NoCert == "none"
BadCert == "bad"        \* a pair that another page's save has left unusable
NoServer == MaxRequests + 1
Configs == [enabled : BOOLEAN, cert : Certs \union {NoCert, BadCert}]

VARIABLES db,           \* web.tls in the database
          mem,          \* and in s.cfg
          req,          \* the steps of each request
          read,         \* what it has read back from the database
          stopping,     \* the server it has taken out of s.tlsSrv
          tlsSrv,       \* Server.tlsSrv
          server,       \* what each http.Server does
          cert,         \* the certificate it was built with
          failures      \* failures of the database so far
vars == <<db, mem, req, read, stopping, tlsSrv, server, cert, failures>>

Init == /\ db \in Configs /\ mem = db
        /\ req = [r \in Reqs |-> IF r = Boot THEN "stop" ELSE "idle"]
        /\ read = [r \in Reqs |-> db] /\ stopping = [r \in Reqs |-> NoServer]
        /\ tlsSrv = NoServer /\ server = [r \in Reqs |-> "none"]
        /\ cert = [r \in Reqs |-> NoCert]
        /\ failures = 0

Running == {r \in Reqs : req[r] \notin {"idle", "done"}}
Listening == {k \in Reqs : server[k] = "listening"}
Step(r, where) == req' = [req EXCEPT ![r] = where]

-----------------------------------------------------------------------------
(* The requests                                                               *)

\* tlsAwareHandler sends everyone to :443 while HTTPS is on.
Reaches == ~mem.enabled \/ Listening # {}

\* handleAdminTLSSave (any valid pair), Toggle and Clear: what each writes.
Written(what) ==
    CASE what[1] = "save"   -> [enabled |-> what[2], cert |-> what[3]]
      [] what[1] = "toggle" -> [db EXCEPT !.enabled = what[2]]
      [] what[1] = "clear"  -> [enabled |-> FALSE, cert |-> NoCert]
Changes == ({"save"} \X BOOLEAN \X Certs) \union ({"toggle"} \X BOOLEAN) \union {<<"clear">>}

SaveRawToDB(r, what) ==
    /\ r # Boot /\ req[r] = "idle" /\ \A q \in Reqs : q < r => req[q] # "idle"
    /\ Reaches /\ Cardinality(Running) < AtOnce
    /\ what = <<"toggle", TRUE>> => mem.cert # NoCert
    /\ db' = Written(what)
    /\ Step(r, "load")
    /\ UNCHANGED <<mem, read, stopping, tlsSrv, server, cert, failures>>

LoadFromDB(r) == /\ req[r] = "load"
                 /\ read' = [read EXCEPT ![r] = db]
                 /\ Step(r, "store")
                 /\ UNCHANGED <<db, mem, stopping, tlsSrv, server, cert, failures>>

\* A failure is not reported: the old configuration is reloaded.
LoadFails(r) == /\ req[r] = "load" /\ failures < MaxFaults
                /\ failures' = failures + 1
                /\ Step(r, "stop")
                /\ UNCHANGED <<db, mem, read, stopping, tlsSrv, server, cert>>

StoreConfig(r) == /\ req[r] = "store"
                  /\ mem' = read[r]
                  /\ Step(r, "stop")
                  /\ UNCHANGED <<db, read, stopping, tlsSrv, server, cert, failures>>

-----------------------------------------------------------------------------
(* reloadTLS                                                                  *)

\* A reload that stops the old server only when HTTPS is switched off.
StopOld_off(r) ==
    /\ req[r] = "stop"
    /\ IF mem.enabled \/ tlsSrv = NoServer
       THEN Step(r, "build") /\ UNCHANGED <<stopping, tlsSrv>>
       ELSE /\ stopping' = [stopping EXCEPT ![r] = tlsSrv]
            /\ tlsSrv' = NoServer
            /\ Step(r, "shutdown")
    /\ UNCHANGED <<db, mem, read, server, cert, failures>>

StopOld(r) == /\ req[r] = "stop"
              /\ stopping' = [stopping EXCEPT ![r] = tlsSrv]
              /\ tlsSrv' = NoServer
              /\ Step(r, IF tlsSrv = NoServer THEN "build" ELSE "shutdown")
              /\ UNCHANGED <<db, mem, read, server, cert, failures>>

\* The listener is closed, or will never open; waiting for the requests of the
\* old server, this one among them, ends after five seconds.
Shutdown(r) == /\ req[r] = "shutdown"
               /\ server' = [server EXCEPT ![stopping[r]] = "shut"]
               /\ Step(r, "build")
               /\ UNCHANGED <<db, mem, read, stopping, tlsSrv, cert, failures>>

\* buildTLSServer, with the configuration of this moment; an unusable pair is
\* an error that is only logged.
Build(r) == LET usable == mem.enabled /\ mem.cert \in Certs IN
            /\ req[r] = "build"
            /\ IF usable THEN /\ tlsSrv' = r
                              /\ server' = [server EXCEPT ![r] = "new"]
                              /\ cert' = [cert EXCEPT ![r] = mem.cert]
                         ELSE UNCHANGED <<tlsSrv, server, cert>>
            /\ Step(r, "done")
            /\ UNCHANGED <<db, mem, read, stopping, failures>>

\* The goroutine of ListenAndServeTLS; it ends when :443 is taken.
Listen(k) == /\ server[k] = "new"
             /\ server' = [server EXCEPT ![k] = IF Listening = {} THEN "listening" ELSE "failed"]
             /\ UNCHANGED <<db, mem, req, read, stopping, tlsSrv, cert, failures>>

-----------------------------------------------------------------------------
ReqStep(r) == \/ LoadFromDB(r) \/ LoadFails(r) \/ StoreConfig(r)
              \/ StopOld(r) \/ Shutdown(r) \/ Build(r)
Next == \/ \E r \in Reqs : \E what \in Changes : SaveRawToDB(r, what)
        \/ \E r \in Reqs : ReqStep(r) \/ Listen(r)
Spec == Init /\ [][Next]_vars

-----------------------------------------------------------------------------
(* Properties                                                                 *)

TypeOK == /\ {db, mem} \subseteq Configs
          /\ req \in [Reqs -> {"idle", "load", "store", "stop", "shutdown", "build", "done"}]
          /\ tlsSrv \in Reqs \union {NoServer}
          /\ server \in [Reqs -> {"none", "new", "listening", "shut", "failed"}]

\* While requests come one at a time (AtOnce = 1), whenever none is running :443
\* is served with the newest certificate if HTTPS is on and by nobody if it is
\* off, and what the superadmin has saved is what the server uses unless reading
\* it back failed ("hot-load or unload the TLS listener", admin_tls.go:321).
TLSFollows ==
    Running = {} =>
        /\ failures = 0 => mem = db
        /\ LET live == {k \in Reqs : server[k] \in {"new", "listening"}} IN
           IF mem.enabled /\ mem.cert \in Certs
           THEN live = {tlsSrv} /\ cert[tlsSrv] = mem.cert
           ELSE live = {} /\ tlsSrv = NoServer
=============================================================================
