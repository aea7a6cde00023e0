------------------------------- MODULE MCServer -------------------------------
(* What the goroutines of the server share, for TLC: the lock of a user       *)
(* (UserLock), the connections of agents (ServiceHub), third-party MCP        *)
(* servers (MCPProxies), the HTTPS server (TLSServer), the login limiter      *)
(* (RateLimiter) and the IM channels (IMChannels).  They share no state: part *)
(* says which of them a behaviour is about, and the others stand still.       *)
EXTENDS UserLock

CONSTANTS \* of ServiceHub and MCPProxies; bounds: one call where there are more connections or loads
          Calls, NoCall, MaxConns, Names, MaxLoads, OneCall, FewConns, FewLoads,
          \* of TLSServer and RateLimiter
          Certs, MaxRequests, MaxFaults, Addresses, Limit, Window, MaxTime, MaxTries,
          \* of IMChannels; bounds: one message or save where there are two of the other
          Creds, Messages, Saves, MaxChannels, MaxCrashes, OneMessage, OneSave, FewChannels

\* What stands for no call, no certificate, no credentials or an unknown tool is none.
ASSUME ServerAssumption ==
    /\ {NoCall, "none", "unknown"} \intersect Calls = {}
    /\ {"none", "bad"} \intersect Certs = {}
    /\ "none" \notin Creds \union Messages
    /\ {MaxConns, MaxLoads, MaxRequests, MaxFaults, MaxChannels, MaxCrashes} \subseteq Nat
    /\ {Limit, Window, MaxTime, MaxTries} \subseteq Nat

VARIABLES part,
  \* ServiceHub
  registered, current, registering, toCancel, ws, pump, handling, answered, hubCall, link, pending,
  resolved, result, timer, ret, panicked,
  \* MCPProxies
  rows, load, want, todo, old, table, service, proc, running, holder, asked, answers, call, lister,
  \* TLSServer
  db, mem, req, read, stopping, tlsSrv, server, cert, failures,
  \* RateLimiter
  now, tries, attempts, cleaner, admitted, refused,
  \* IMChannels
  provider, row, up, crashes, made, conns, conn, seen, push, runs, save, overlapped

lockVars == vars
hubVars == <<registered, current, registering, toCancel, ws, pump, handling, answered, hubCall, link,
             pending, resolved, result, timer, ret, panicked>>
proxyVars == <<rows, load, want, todo, old, table, service, proc, running, holder, asked, answers,
               call, lister>>
tlsVars == <<db, mem, req, read, stopping, tlsSrv, server, cert, failures>>
limitVars == <<now, tries, attempts, cleaner, admitted, refused>>
channelVars == <<provider, row, up, crashes, made, conns, conn, seen, push, runs, save, overlapped>>
all == <<part, lockVars, hubVars, proxyVars, tlsVars, limitVars, channelVars>>

\* For TLC: every interleaving of the requests of one user, on one lock.
OneUser == [r \in Requests |-> CHOOSE u \in Users : TRUE]

Hub == INSTANCE ServiceHub WITH wire <- answered, pc <- hubCall, conn <- link, ch <- result
Proxies == INSTANCE MCPProxies WITH AtOnce <- 1
HTTPS == INSTANCE TLSServer WITH AtOnce <- 1
Limiter == INSTANCE RateLimiter
Channels == INSTANCE IMChannels WITH MaxConns <- MaxChannels

-----------------------------------------------------------------------------
\* What stands still starts in one state.
ServerInit ==
    /\ part \in {"lock", "hub", "pair", "shared", "reloaded", "https", "limiter", "pushed", "saved", "feishu"}
    /\ Init /\ Hub!Init /\ Proxies!Init /\ HTTPS!Init /\ Limiter!Init /\ Channels!Init
    /\ part \notin {"shared", "reloaded"} => \A n \in DOMAIN rows : rows[n] = "none"
    /\ part # "https" => db = [enabled |-> FALSE, cert |-> "none"]
    /\ part \notin {"pushed", "saved", "feishu"} => row.cred = "none" /\ ~row.on
    /\ (provider = "feishu") <=> (part = "feishu")

LockPart == part = "lock" /\ Next /\ UNCHANGED <<part, hubVars, proxyVars, tlsVars, limitVars, channelVars>>

\* hub: a call while its agent connects several times; pair: calls on one connection.
HubPart == /\ part \in {"hub", "pair"} /\ Hub!Next
           /\ part = "hub" => \A c \in Calls \ OneCall : hubCall'[c] = "idle"
           /\ part = "pair" => registered' <= FewConns
           /\ UNCHANGED <<part, lockVars, proxyVars, tlsVars, limitVars, channelVars>>

\* shared: calls of one server during a load; reloaded: a call during several.
ProxyPart == /\ part \in {"shared", "reloaded"} /\ Proxies!Next
             /\ part = "shared" => \A r \in DOMAIN load : r > FewLoads => load'[r] = "idle"
             /\ part = "reloaded" => \A c \in Calls \ OneCall : call'[c].at = "idle"
             /\ UNCHANGED <<part, lockVars, hubVars, tlsVars, limitVars, channelVars>>

WebPart == \/ /\ part = "https" /\ HTTPS!Next
              /\ UNCHANGED <<part, lockVars, hubVars, proxyVars, limitVars, channelVars>>
           \/ /\ part = "limiter" /\ Limiter!Next
              /\ UNCHANGED <<part, lockVars, hubVars, proxyVars, tlsVars, channelVars>>

\* pushed: two conversations; saved: two saves; feishu: one of each.
ChannelPart ==
    /\ part \in {"pushed", "saved", "feishu"} /\ Channels!Next
    /\ part = "pushed" => made' <= FewChannels
    /\ part # "pushed" => \A d \in DOMAIN push : d[1] \notin OneMessage => push'[d].at = "idle"
    /\ part # "saved" => \A s \in Saves \ OneSave : save'[s].at = "idle"
    /\ UNCHANGED <<part, lockVars, hubVars, proxyVars, tlsVars, limitVars>>

ServerNext == LockPart \/ HubPart \/ ProxyPart \/ WebPart \/ ChannelPart

LockFairness == \A r \in Requests : WF_vars(part = "lock" /\ Step(r))
HubFairness == /\ \A c \in OneCall : /\ WF_hubVars(part = "hub" /\ Hub!Command(c))
                                     /\ WF_hubVars(part = "hub" /\ Hub!CancelCall(c))
               /\ \A k \in 1..MaxConns : WF_hubVars(part = "hub" /\ Hub!Pump(k))
               /\ WF_hubVars(part = "hub" /\ Hub!RegisterFinish)
\* Handshakes end (they are timed) and a subprocess that is up answers; a call
\* of a stdio server has no timeout of its own.
ProxyFairness ==
    /\ \A r \in 0..FewLoads : /\ WF_proxyVars(part = "shared" /\ Proxies!LoadStep(r))
                              /\ \A n \in Names : WF_proxyVars(part = "shared" /\ Proxies!Answers(<<r, n>>))
    /\ \A c \in Calls : WF_proxyVars(part = "shared" /\ Proxies!CallStep(c))
    /\ WF_proxyVars(part = "shared" /\ Proxies!ToolsListed)
ServerSpec == ServerInit /\ [][ServerNext]_all
              /\ LockFairness /\ HubFairness /\ ProxyFairness

-----------------------------------------------------------------------------
(* ServiceHub: a call is resolved once, and what it returns as an answer is   *)
(* one.                                                                       *)
CallsResolved == part \in {"hub", "pair"} => Hub!ResolvedOnce /\ Hub!AnswersAreReal

(* ServiceHub: the newest connection of an agent is the one that is used.     *)
NewestReachable == part \in {"hub", "pair"} => Hub!NewestReachable

(* MCPProxies: each call gets the answer to its own request, and after a      *)
(* reload table, services and rows agree.                                     *)
ProxiesSound == part \in {"shared", "reloaded"} => Proxies!ProxiesSound

(* TLSServer and RateLimiter: what listens on :443 follows the configuration; *)
(* nobody gets more attempts to log in than the limit, or fewer.              *)
WebSound == /\ part = "https" => HTTPS!TLSFollows
            /\ part = "limiter" => Limiter!LimitHolds

(* IMChannels: the connection follows the row, a message is handed on once    *)
(* and its reply, and a later result, find their conversation.                *)
ChannelsSound == part \in {"pushed", "saved", "feishu"} => Channels!ChannelsSound

Waiting(c) == part = "shared" /\ call[c].at = "route"
Returned(c) == part = "shared" /\ call[c].at = "done"
Loading(r) == part = "shared" /\ load[r] = "read"
Loaded(r) == part = "shared" /\ load[r] = "done"

(* A tool call of an agent returns, a call of an MCP server returns and a     *)
(* reload ends, though they wait for each other's locks.                      *)
ServerEnds ==
    /\ \A c \in OneCall : part = "hub" => Hub!CallReturns(c)
    /\ \A c \in Calls : Waiting(c) ~> Returned(c)
    /\ \A r \in 0..FewLoads : Loading(r) ~> Loaded(r)
=============================================================================
