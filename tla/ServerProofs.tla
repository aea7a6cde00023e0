---------------------------- MODULE ServerProofs ----------------------------
(* Proofs about what the goroutines of the server share: for every number of  *)
(* calls, connections, loads, requests, addresses, messages and saves, the    *)
(* invariants of MCServer hold of ServerSpec.  The components share no state, *)
(* so each has an inductive invariant of its own (LimitInv, TLSInv, HubInv,   *)
(* ProxyInv, ChannelInv) that its steps preserve; what stands still while     *)
(* another part of the server moves preserves it too.                         *)
EXTENDS MCServer, Sequences, FiniteSetTheorems, TLAPS

-----------------------------------------------------------------------------
(* RateLimiter: what the limiter keeps of an address is what it has admitted  *)
(* in the window that ends now.                                               *)

Kept ==
    \A a \in Addresses :
        /\ attempts[a] \subseteq admitted[a] /\ IsFiniteSet(admitted[a])
        /\ \A s \in admitted[a] : /\ s.at <= now /\ s.nth <= tries
                                  /\ now - s.at < Window => s \in attempts[a]

Past == \A r \in refused : r[1] \in Addresses /\ r[2] \in 0..now

LimitInv == Limiter!TypeOK /\ Kept /\ Past /\ Limiter!LimitHolds

\* The limiter's module counts with the library's operator.
LEMMA SameCardinality == \A S : Limiter!Cardinality(S) = Cardinality(S)
  BY DEF Limiter!Cardinality, Cardinality

\* Within(a) of what was admitted is what is still in attempts.
LEMMA KeptIsWithin ==
    ASSUME Limiter!TypeOK, Kept, NEW a \in Addresses
    PROVE  /\ Limiter!Valid(attempts[a]) = Limiter!Within(a, now)
           /\ IsFiniteSet(Limiter!Within(a, now)) /\ Cardinality(Limiter!Within(a, now)) \in Nat
<1>1. \A s \in admitted[a] : s.at \in Nat /\ s.at <= now
  BY ServerAssumption DEF Limiter!TypeOK, Limiter!Attempt, Kept
<1>2. Limiter!Valid(attempts[a]) = Limiter!Within(a, now)
  BY <1>1 DEF Kept, Limiter!Valid, Limiter!Within
<1>3. Limiter!Within(a, now) \subseteq admitted[a] /\ IsFiniteSet(admitted[a])
  BY DEF Kept, Limiter!Within
<1>4. IsFiniteSet(Limiter!Within(a, now))
  BY <1>3, FS_Subset
<1> QED
  BY <1>2, <1>4, FS_CardinalityType

\* What an address did within the window is a finite set.
LEMMA WithinFinite ==
    ASSUME Kept, NEW a \in Addresses, NEW t
    PROVE  IsFiniteSet(Limiter!Within(a, t)) /\ Cardinality(Limiter!Within(a, t)) \in Nat
<1>1. Limiter!Within(a, t) \subseteq admitted[a] /\ IsFiniteSet(admitted[a])
  BY DEF Kept, Limiter!Within
<1> QED
  BY <1>1, FS_Subset, FS_CardinalityType

\* Time passes: attempts only leave the window.
LEMMA TickStep == ASSUME LimitInv, Limiter!Tick PROVE LimitInv'
<1>0. Limiter!TypeOK /\ Kept /\ Past /\ Limiter!LimitHolds
  BY DEF LimitInv
<1>1. /\ now' = now + 1 /\ now < MaxTime /\ now \in Nat
      /\ tries' = tries /\ attempts' = attempts /\ cleaner' = cleaner
      /\ admitted' = admitted /\ refused' = refused
  BY <1>0 DEF Limiter!Tick, Limiter!TypeOK
<1>2. Limiter!TypeOK'
  BY <1>0, <1>1, ServerAssumption DEF Limiter!TypeOK
<1>3. \A a \in Addresses : \A s \in admitted[a] : s.at \in Nat
  BY <1>0, ServerAssumption DEF Limiter!TypeOK, Limiter!Attempt
<1>4. Kept' /\ Past'
  BY <1>0, <1>1, <1>3, ServerAssumption DEF Kept, Past
<1>5. \A a \in Addresses, t \in Nat : Limiter!Within(a, t)' = Limiter!Within(a, t)
  BY <1>1 DEF Limiter!Within
<1>6. \A a \in Addresses : Cardinality(Limiter!Within(a, now + 1)) <= Limit
  <2> TAKE a \in Addresses
  <2>1. Limiter!Within(a, now + 1) \subseteq Limiter!Within(a, now)
    BY <1>0, <1>1, <1>3, ServerAssumption DEF Kept, Limiter!Within
  <2>2. IsFiniteSet(Limiter!Within(a, now)) /\ Cardinality(Limiter!Within(a, now)) \in Nat
    BY <1>0, KeptIsWithin
  <2>3. Cardinality(Limiter!Within(a, now)) <= Limit
    BY <1>0, <1>1, SameCardinality DEF Limiter!LimitHolds
  <2>4. /\ Cardinality(Limiter!Within(a, now + 1)) <= Cardinality(Limiter!Within(a, now))
        /\ IsFiniteSet(Limiter!Within(a, now + 1))
    BY <2>1, <2>2, FS_Subset
  <2> QED
    BY <2>2, <2>3, <2>4, FS_CardinalityType, ServerAssumption
<1>7. Limiter!LimitHolds'
  <2>1. \A a \in Addresses, t \in 0..(now + 1) : Cardinality(Limiter!Within(a, t)) <= Limit
    <3> TAKE a \in Addresses, t \in 0..(now + 1)
    <3>1. t \in 0..now \/ t = now + 1
      BY <1>1
    <3> QED
      BY <1>0, <1>6, <3>1, SameCardinality DEF Limiter!LimitHolds
  <2>2. \A r \in refused : r[1] \in Addresses /\ r[2] \in Nat
    BY <1>0 DEF Past
  <2> QED
    BY <1>0, <1>1, <1>5, <2>1, <2>2, SameCardinality DEF Limiter!LimitHolds
<1> QED
  BY <1>2, <1>4, <1>7 DEF LimitInv

\* Allow: an attempt is admitted while there are fewer than Limit in the window, else refused.
LEMMA AllowStep == ASSUME LimitInv, NEW a \in Addresses, Limiter!Allow(a) PROVE LimitInv'
<1> DEFINE valid == Limiter!Valid(attempts[a])
           this == [nth |-> tries + 1, at |-> now]
<1>0. Limiter!TypeOK /\ Kept /\ Past /\ Limiter!LimitHolds
  BY DEF LimitInv
<1>1. now' = now /\ cleaner' = cleaner /\ now \in Nat /\ tries \in Nat /\ tries' = tries + 1
  BY <1>0 DEF Limiter!Allow, Limiter!TypeOK
<1>2. this \in Limiter!Attempt /\ this.nth = tries + 1 /\ this.at = now
  BY <1>0, ServerAssumption DEF Limiter!Allow, Limiter!TypeOK, Limiter!Attempt
<1>3. /\ valid = Limiter!Within(a, now) /\ valid \subseteq attempts[a]
      /\ IsFiniteSet(valid) /\ Cardinality(valid) \in Nat
  BY <1>0, KeptIsWithin DEF Limiter!Valid
<1>4. \A b \in Addresses : \A s \in admitted[b] : s.at \in Nat /\ s.at <= now /\ s.nth \in Nat /\ s.nth <= tries
  BY <1>0, ServerAssumption DEF Limiter!TypeOK, Limiter!Attempt, Kept
<1>5. this \notin admitted[a]
  BY <1>1, <1>2, <1>4
<1>6. \A s \in admitted[a] : now - s.at < Window <=> s \in valid
  BY <1>3, <1>4 DEF Limiter!Within
<1>7. attempts \in [Addresses -> SUBSET Limiter!Attempt] /\ admitted \in [Addresses -> SUBSET Limiter!Attempt]
  BY <1>0 DEF Limiter!TypeOK
<1>8. tries' \in 0..MaxTries
  BY <1>1, ServerAssumption DEF Limiter!Allow
<1>9. \A b \in Addresses, t \in 0..now : Cardinality(Limiter!Within(b, t)) <= Limit
  BY <1>0, SameCardinality DEF Limiter!LimitHolds
<1>10. CASE Cardinality(valid) >= Limit
  <2>1. /\ attempts' = [attempts EXCEPT ![a] = valid] /\ admitted' = admitted
        /\ refused' = refused \union {<<a, now>>}
    BY <1>10, SameCardinality DEF Limiter!Allow
  <2>2. attempts'[a] = valid /\ \A b \in Addresses \ {a} : attempts'[b] = attempts[b]
    BY <1>7, <2>1
  <2>3. Limiter!TypeOK'
    BY <1>0, <1>1, <1>3, <1>7, <1>8, <2>1 DEF Limiter!TypeOK
  <2>4. Kept'
    BY <1>0, <1>1, <1>3, <1>4, <1>6, <2>1, <2>2 DEF Kept
  <2>5. Past'
    BY <1>0, <1>1, <2>1 DEF Past
  <2>6. \A b, t : Limiter!Within(b, t)' = Limiter!Within(b, t)
    BY <2>1 DEF Limiter!Within
  <2>7. Limiter!LimitHolds'
    BY <1>0, <1>1, <1>3, <1>9, <1>10, <2>1, <2>6, SameCardinality DEF Limiter!LimitHolds
  <2> QED
    BY <2>3, <2>4, <2>5, <2>7 DEF LimitInv
<1>11. CASE ~(Cardinality(valid) >= Limit)
  <2>1. /\ attempts' = [attempts EXCEPT ![a] = valid \union {this}]
        /\ admitted' = [admitted EXCEPT ![a] = @ \union {this}]
        /\ refused' = refused
    BY <1>11, SameCardinality DEF Limiter!Allow
  <2>2. /\ attempts'[a] = valid \union {this} /\ admitted'[a] = admitted[a] \union {this}
        /\ \A b \in Addresses \ {a} : attempts'[b] = attempts[b] /\ admitted'[b] = admitted[b]
    BY <1>7, <2>1
  <2>3. Limiter!TypeOK'
    <3>1. attempts' \in [Addresses -> SUBSET Limiter!Attempt] /\ admitted' \in [Addresses -> SUBSET Limiter!Attempt]
      BY <1>2, <1>3, <1>7, <2>1
    <3> QED
      BY <1>0, <1>1, <1>8, <2>1, <3>1 DEF Limiter!TypeOK
  <2>4. Kept'
    <3>1. \A b \in Addresses : IsFiniteSet(admitted'[b])
      <4>1. \A b \in Addresses : IsFiniteSet(admitted[b])
        BY <1>0 DEF Kept
      <4>2. IsFiniteSet(admitted[a] \union {this})
        BY <4>1, FS_AddElement
      <4> QED
        BY <2>2, <4>1, <4>2
    <3>2. \A b \in Addresses \ {a} :
              /\ attempts'[b] \subseteq admitted'[b]
              /\ \A s \in admitted'[b] : /\ s.at <= now' /\ s.nth <= tries'
                                         /\ now' - s.at < Window => s \in attempts'[b]
      BY <1>0, <1>1, <1>4, <2>2 DEF Kept
    <3>3. /\ attempts'[a] \subseteq admitted'[a]
          /\ \A s \in admitted'[a] : /\ s.at <= now' /\ s.nth <= tries'
                                     /\ now' - s.at < Window => s \in attempts'[a]
      BY <1>0, <1>1, <1>2, <1>3, <1>4, <1>6, <2>2 DEF Kept
    <3> QED
      BY <3>1, <3>2, <3>3 DEF Kept
  <2>5. Past'
    BY <1>0, <1>1, <2>1 DEF Past
  \* The other windows keep their attempts; the one that ends now has one more.
  <2>6. /\ \A b \in Addresses \ {a} : \A t \in 0..now : Limiter!Within(b, t)' = Limiter!Within(b, t)
        /\ \A t \in 0..now : t # now => Limiter!Within(a, t)' = Limiter!Within(a, t)
    BY <1>1, <1>2, <2>2 DEF Limiter!Within
  <2>7. Limiter!Within(a, now)' = valid \union {this} \/ Limiter!Within(a, now)' = valid
    BY <1>1, <1>2, <1>3, <2>2 DEF Limiter!Within
  <2>8. this \notin valid
    BY <1>3, <1>5 DEF Limiter!Within
  <2>9. /\ Cardinality(valid \union {this}) = Cardinality(valid) + 1
        /\ IsFiniteSet(valid \union {this})
    BY <1>3, <2>8, FS_AddElement
  <2>10. Cardinality(Limiter!Within(a, now)') <= Limit
    BY <1>3, <1>11, <2>7, <2>9, ServerAssumption
  <2>11. \A b \in Addresses, t \in 0..now' : Cardinality(Limiter!Within(b, t)') <= Limit
    BY <1>1, <1>9, <2>6, <2>10
  <2>12. \A b \in Addresses, t \in 0..now : Cardinality(Limiter!Within(b, t)') >= Cardinality(Limiter!Within(b, t))
    <3> SUFFICES ASSUME NEW b \in Addresses, NEW t \in 0..now
                 PROVE  Cardinality(Limiter!Within(b, t)') >= Cardinality(Limiter!Within(b, t))
      OBVIOUS
    <3>1. Limiter!Within(b, t) \subseteq Limiter!Within(b, t)'
      BY <2>2 DEF Limiter!Within
    <3>2. Kept /\ Kept'
      BY <1>0, <2>4
    <3>3. IsFiniteSet(Limiter!Within(b, t)') /\ IsFiniteSet(Limiter!Within(b, t))
      <4>1. Limiter!Within(b, t)' \subseteq admitted'[b] /\ IsFiniteSet(admitted'[b])
        BY <2>4 DEF Kept, Limiter!Within
      <4> QED
        BY <3>1, <4>1, FS_Subset
    <3> QED
      BY <3>1, <3>3, FS_Subset, FS_CardinalityType
  <2>13. \A r \in refused' : Cardinality(Limiter!Within(r[1], r[2])') >= Limit
    <3> SUFFICES ASSUME NEW r \in refused PROVE Cardinality(Limiter!Within(r[1], r[2])') >= Limit
      BY <2>1
    <3>1. r[1] \in Addresses /\ r[2] \in 0..now /\ Cardinality(Limiter!Within(r[1], r[2])) >= Limit
      BY <1>0, SameCardinality DEF Past, Limiter!LimitHolds
    <3>2. Cardinality(Limiter!Within(r[1], r[2])) \in Nat
      BY <1>0, <3>1, WithinFinite
    <3>3. Cardinality(Limiter!Within(r[1], r[2])') \in Nat
      <4>1. Limiter!Within(r[1], r[2])' \subseteq admitted'[r[1]] /\ IsFiniteSet(admitted'[r[1]])
        BY <2>4, <3>1 DEF Kept, Limiter!Within
      <4> QED
        BY <4>1, FS_Subset, FS_CardinalityType
    <3> QED
      BY <2>12, <3>1, <3>2, <3>3, ServerAssumption
  <2>14. Limiter!LimitHolds'
    BY <2>11, <2>13, SameCardinality DEF Limiter!LimitHolds
  <2> QED
    BY <2>3, <2>4, <2>5, <2>14 DEF LimitInv
<1> QED
  BY <1>10, <1>11

\* The cleaner drops addresses none of whose attempts is in the window.
LEMMA CleanupStep == ASSUME LimitInv, Limiter!Cleanup PROVE LimitInv'
<1>0. Limiter!TypeOK /\ Kept /\ Past /\ Limiter!LimitHolds
  BY DEF LimitInv
<1>1. /\ now' = now /\ tries' = tries /\ cleaner' = cleaner /\ admitted' = admitted /\ refused' = refused
      /\ attempts' = [a \in Addresses |-> Limiter!Valid(attempts[a])]
  BY DEF Limiter!Cleanup
<1>2. \A a \in Addresses : /\ attempts'[a] \subseteq attempts[a]
                           /\ \A s \in attempts[a] : now - s.at < Window => s \in attempts'[a]
  BY <1>1 DEF Limiter!Valid
<1>3. Limiter!TypeOK'
  <2>1. attempts' \in [Addresses -> SUBSET Limiter!Attempt]
    BY <1>0, <1>1, <1>2 DEF Limiter!TypeOK
  <2> QED
    BY <1>0, <1>1, <2>1 DEF Limiter!TypeOK
<1>4. Kept' /\ Past'
  BY <1>0, <1>1, <1>2 DEF Kept, Past
<1>5. Limiter!LimitHolds'
  BY <1>0, <1>1 DEF Limiter!LimitHolds, Limiter!Within
<1> QED
  BY <1>3, <1>4, <1>5 DEF LimitInv

\* Every step of the limiter preserves its invariant.
LEMMA LimitStep == LimitInv /\ [Limiter!Next]_limitVars => LimitInv'
<1> SUFFICES ASSUME LimitInv, [Limiter!Next]_limitVars PROVE LimitInv'
  OBVIOUS
<1>1. CASE Limiter!Stop
  BY <1>1 DEF LimitInv, Limiter!Stop, Limiter!TypeOK, Kept, Past, Limiter!LimitHolds, Limiter!Within
<1>2. CASE UNCHANGED limitVars
  BY <1>2 DEF limitVars, LimitInv, Limiter!TypeOK, Kept, Past, Limiter!LimitHolds, Limiter!Within
<1> QED
  BY <1>1, <1>2, TickStep, AllowStep, CleanupStep DEF Limiter!Next

\* The limiter starts with no attempts.
LEMMA LimitStart == Limiter!Init => LimitInv
<1> SUFFICES ASSUME Limiter!Init PROVE LimitInv
  OBVIOUS
<1>1. Limiter!TypeOK /\ Past
  BY ServerAssumption DEF Limiter!Init, Limiter!TypeOK, Past
<1>2. Kept
  BY FS_EmptySet DEF Limiter!Init, Kept
<1>3. \A a \in Addresses, t \in 0..now : Limiter!Within(a, t) = {}
  BY DEF Limiter!Init, Limiter!Within
<1>4. Limiter!LimitHolds
  BY <1>3, FS_EmptySet, ServerAssumption, SameCardinality DEF Limiter!Init, Limiter!LimitHolds
<1> QED
  BY <1>1, <1>2, <1>4 DEF LimitInv

-----------------------------------------------------------------------------
(* TLSServer: one request runs at a time, and there is at most one server     *)
(* alive, whose place in the reload is known.                                 *)

Live == {k \in HTTPS!Reqs : server[k] \in {"new", "listening"}}
Steps == {"idle", "load", "store", "stop", "shutdown", "build", "done"}

TLSTypes == /\ db \in HTTPS!Configs /\ mem \in HTTPS!Configs
            /\ req \in [HTTPS!Reqs -> Steps]
            /\ read \in [HTTPS!Reqs -> HTTPS!Configs]
            /\ stopping \in [HTTPS!Reqs -> HTTPS!Reqs \union {HTTPS!NoServer}]
            /\ tlsSrv \in HTTPS!Reqs \union {HTTPS!NoServer}
            /\ server \in [HTTPS!Reqs -> {"none", "new", "listening", "shut", "failed"}]
            /\ cert \in [HTTPS!Reqs -> Certs \union {HTTPS!NoCert}]
            /\ failures \in Nat

OneRequest == \A r, q \in HTTPS!Running : r = q

Replaced ==
    /\ (\A r \in HTTPS!Reqs : req[r] \notin {"shutdown", "build"}) => Live = {tlsSrv} \ {HTTPS!NoServer}
    /\ \A r \in HTTPS!Reqs : /\ req[r] = "shutdown" => tlsSrv = HTTPS!NoServer /\ Live = {stopping[r]}
                             /\ req[r] = "build" => tlsSrv = HTTPS!NoServer /\ Live = {}

Certified == HTTPS!Running = {} =>
    /\ tlsSrv # HTTPS!NoServer <=> mem.enabled /\ mem.cert \in Certs
    /\ tlsSrv # HTTPS!NoServer => cert[tlsSrv] = mem.cert

Stored ==
    /\ \A r \in HTTPS!Reqs : req[r] = "store" => read[r] = db
    /\ failures = 0 /\ (\A r \in HTTPS!Reqs : req[r] \notin {"load", "store"}) => mem = db

TLSInv == TLSTypes /\ OneRequest /\ Replaced /\ Certified /\ Stored

\* None is not a server, and the boot is a request.
LEMMA NoSuchServer == HTTPS!NoServer \notin HTTPS!Reqs /\ HTTPS!Boot \in HTTPS!Reqs
  BY ServerAssumption DEF HTTPS!NoServer, HTTPS!Reqs, HTTPS!Boot

\* At the boot the configuration is loaded and nothing listens.
LEMMA TLSStart == HTTPS!Init => TLSInv
<1> SUFFICES ASSUME HTTPS!Init PROVE TLSInv
  OBVIOUS
<1>1. /\ \A r \in HTTPS!Reqs : req[r] = IF r = HTTPS!Boot THEN "stop" ELSE "idle"
      /\ db \in HTTPS!Configs /\ mem = db /\ tlsSrv = HTTPS!NoServer /\ failures = 0
      /\ \A r \in HTTPS!Reqs : server[r] = "none"
  BY DEF HTTPS!Init
<1>2. TLSTypes
  BY <1>1 DEF HTTPS!Init, TLSTypes, Steps
<1>3. Live = {} /\ HTTPS!Running = {HTTPS!Boot}
  BY <1>1, NoSuchServer DEF Live, HTTPS!Running
<1> QED
  BY <1>1, <1>2, <1>3 DEF TLSInv, OneRequest, Replaced, Certified, Stored

\* AtOnce = 1: a request that starts finds none running.
LEMMA RunningOne ==
    ASSUME Cardinality(HTTPS!Running) < 1 PROVE HTTPS!Running = {}
<1>1. IsFiniteSet(HTTPS!Reqs) /\ HTTPS!Running \subseteq HTTPS!Reqs
  BY FS_Interval, ServerAssumption DEF HTTPS!Reqs, HTTPS!Boot, HTTPS!Running
<1> QED
  BY <1>1, FS_Subset, FS_EmptySet, FS_CardinalityType

\* TLSServer counts with the same Cardinality.
LEMMA HTTPSCardinality == \A S : HTTPS!Cardinality(S) = Cardinality(S)
  BY DEF HTTPS!Cardinality, Cardinality

\* A handler writes a configuration.
LEMMA WrittenType ==
    ASSUME TLSTypes, NEW what \in HTTPS!Changes PROVE HTTPS!Written(what) \in HTTPS!Configs
<1>1. CASE what \in {"save"} \X BOOLEAN \X Certs
  <2>1. what[1] = "save" /\ what[2] \in BOOLEAN /\ what[3] \in Certs
    BY <1>1
  <2> QED
    BY <2>1 DEF HTTPS!Written, HTTPS!Configs
<1>2. CASE what \in {"toggle"} \X BOOLEAN
  <2>1. what[1] = "toggle" /\ what[2] \in BOOLEAN
    BY <1>2
  <2>2. HTTPS!Written(what) = [db EXCEPT !.enabled = what[2]]
    BY <2>1 DEF HTTPS!Written
  <2> QED
    BY <2>1, <2>2 DEF TLSTypes, HTTPS!Configs
<1>3. CASE what = <<"clear">>
  <2>1. HTTPS!Written(what) = [enabled |-> FALSE, cert |-> HTTPS!NoCert]
    BY <1>3 DEF HTTPS!Written
  <2> QED
    BY <2>1 DEF HTTPS!Configs
<1> QED
  BY <1>1, <1>2, <1>3 DEF HTTPS!Changes

\* A handler writes the configuration to the database.
LEMMA WebSaveStep ==
    ASSUME TLSInv, NEW r \in HTTPS!Reqs, NEW what \in HTTPS!Changes, HTTPS!SaveRawToDB(r, what)
    PROVE  TLSInv'
<1>0. TLSTypes /\ OneRequest /\ Replaced /\ Certified /\ Stored
  BY DEF TLSInv
<1>1. /\ req' = [req EXCEPT ![r] = "load"] /\ req[r] = "idle" /\ db' = HTTPS!Written(what)
      /\ mem' = mem /\ read' = read /\ stopping' = stopping /\ tlsSrv' = tlsSrv /\ server' = server
      /\ cert' = cert /\ failures' = failures
  BY DEF HTTPS!SaveRawToDB, HTTPS!Step
<1>2. HTTPS!Running = {}
  BY RunningOne, HTTPSCardinality DEF HTTPS!SaveRawToDB
<1>3. \A q \in HTTPS!Reqs : req[q] \in {"idle", "done"} /\ (q # r => req'[q] = req[q])
  BY <1>0, <1>1, <1>2 DEF TLSTypes, HTTPS!Running
<1>4. req'[r] = "load" /\ HTTPS!Running' = {r}
  BY <1>0, <1>1, <1>3 DEF TLSTypes, HTTPS!Running
<1>5. TLSTypes'
  BY <1>0, <1>1, WrittenType DEF TLSTypes, Steps
<1>6. Live' = Live
  BY <1>1 DEF Live
<1>7. Replaced'
  BY <1>0, <1>1, <1>3, <1>4, <1>6 DEF Replaced
<1>8. OneRequest' /\ Certified' /\ Stored'
  BY <1>3, <1>4 DEF OneRequest, Certified, Stored
<1> QED
  BY <1>5, <1>7, <1>8 DEF TLSInv

\* A step of the one request that runs, to another place.
LEMMA Moves ==
    ASSUME TLSTypes, OneRequest, NEW r \in HTTPS!Reqs, req[r] \notin {"idle", "done"},
           NEW where \in Steps, HTTPS!Step(r, where)
    PROVE  /\ req' \in [HTTPS!Reqs -> Steps] /\ req'[r] = where
           /\ \A q \in HTTPS!Reqs \ {r} : req'[q] = req[q] /\ req[q] \in {"idle", "done"}
           /\ HTTPS!Running = {r}
           /\ HTTPS!Running' = IF where \in {"idle", "done"} THEN {} ELSE {r}
           /\ OneRequest'
<1>1. req' = [req EXCEPT ![r] = where]
  BY DEF HTTPS!Step
<1>2. req' \in [HTTPS!Reqs -> Steps] /\ req'[r] = where /\ \A q \in HTTPS!Reqs \ {r} : req'[q] = req[q]
  BY <1>1 DEF TLSTypes
<1>3. \A q \in HTTPS!Reqs \ {r} : req[q] \in {"idle", "done"}
  BY DEF OneRequest, HTTPS!Running
<1>4. /\ HTTPS!Running = {r}
      /\ HTTPS!Running' = IF where \in {"idle", "done"} THEN {} ELSE {r}
  BY <1>2, <1>3 DEF HTTPS!Running
<1> QED
  BY <1>2, <1>3, <1>4 DEF OneRequest

\* The request loads the configuration and stores it in memory.
LEMMA WebLoadStep ==
    ASSUME TLSInv, NEW r \in HTTPS!Reqs,
           HTTPS!LoadFromDB(r) \/ HTTPS!LoadFails(r) \/ HTTPS!StoreConfig(r)
    PROVE  TLSInv'
<1>0. TLSTypes /\ OneRequest /\ Replaced /\ Certified /\ Stored
  BY DEF TLSInv
<1>1. /\ db' = db /\ stopping' = stopping /\ tlsSrv' = tlsSrv /\ server' = server /\ cert' = cert
      /\ req[r] \in {"load", "store"}
      /\ \/ /\ read' = [read EXCEPT ![r] = db] /\ mem' = mem /\ failures' = failures
            /\ HTTPS!Step(r, "store")
         \/ /\ read' = read /\ mem' = mem /\ failures' = failures + 1
            /\ HTTPS!Step(r, "stop")
         \/ /\ read' = read /\ mem' = read[r] /\ failures' = failures /\ req[r] = "store"
            /\ HTTPS!Step(r, "stop")
  BY DEF HTTPS!LoadFromDB, HTTPS!LoadFails, HTTPS!StoreConfig
<1>2. PICK where \in {"store", "stop"} : HTTPS!Step(r, where)
  BY <1>1
<1>3. /\ req' \in [HTTPS!Reqs -> Steps] /\ req'[r] = where
      /\ \A q \in HTTPS!Reqs \ {r} : req'[q] = req[q] /\ req[q] \in {"idle", "done"}
      /\ HTTPS!Running' = {r} /\ OneRequest'
  BY <1>0, <1>1, <1>2, Moves DEF Steps
<1>4. TLSTypes'
  <2>1. mem' \in HTTPS!Configs /\ read' \in [HTTPS!Reqs -> HTTPS!Configs] /\ failures' \in Nat
    BY <1>0, <1>1 DEF TLSTypes
  <2> QED
    BY <1>0, <1>1, <1>3, <2>1 DEF TLSTypes
<1>5. Live' = Live
  BY <1>1 DEF Live
<1>6. Replaced'
  BY <1>0, <1>1, <1>3, <1>5 DEF Replaced
<1>7. Certified'
  BY <1>3 DEF Certified
<1>8. Stored'
  <2>1. CASE read' = [read EXCEPT ![r] = db] /\ mem' = mem /\ failures' = failures /\ HTTPS!Step(r, "store")
    <3>1. req'[r] = "store" /\ read'[r] = db
      BY <1>0, <2>1, Moves, <1>1 DEF TLSTypes, Steps
    <3> QED
      BY <1>0, <1>1, <1>3, <3>1 DEF Stored
  <2>2. CASE read' = read /\ mem' = mem /\ failures' = failures + 1 /\ HTTPS!Step(r, "stop")
    <3>1. req'[r] = "stop" /\ failures' # 0
      BY <1>0, <2>2, Moves, <1>1 DEF TLSTypes, Steps
    <3> QED
      BY <1>0, <1>1, <1>3, <3>1 DEF Stored
  <2>3. CASE read' = read /\ mem' = read[r] /\ failures' = failures /\ req[r] = "store" /\ HTTPS!Step(r, "stop")
    <3>1. req'[r] = "stop" /\ mem' = db
      BY <1>0, <2>3, Moves, <1>1 DEF Steps, Stored
    <3> QED
      BY <1>1, <1>3, <3>1 DEF Stored
  <2> QED
    BY <1>1, <2>1, <2>2, <2>3
<1> QED
  BY <1>3, <1>4, <1>6, <1>7, <1>8 DEF TLSInv

\* The reload takes the old server out of tlsSrv.
LEMMA WebStopStep ==
    ASSUME TLSInv, NEW r \in HTTPS!Reqs, HTTPS!StopOld(r)
    PROVE  TLSInv'
<1>0. TLSTypes /\ OneRequest /\ Replaced /\ Certified /\ Stored
  BY DEF TLSInv
<1> DEFINE where == IF tlsSrv = HTTPS!NoServer THEN "build" ELSE "shutdown"
<1>1. /\ db' = db /\ mem' = mem /\ read' = read /\ server' = server /\ cert' = cert /\ failures' = failures
      /\ stopping' = [stopping EXCEPT ![r] = tlsSrv] /\ tlsSrv' = HTTPS!NoServer
      /\ req[r] = "stop" /\ HTTPS!Step(r, where) /\ where \in Steps
  BY DEF HTTPS!StopOld, Steps
<1>2. /\ req' \in [HTTPS!Reqs -> Steps] /\ req'[r] = where
      /\ \A q \in HTTPS!Reqs \ {r} : req'[q] = req[q] /\ req[q] \in {"idle", "done"}
      /\ HTTPS!Running' = {r} /\ OneRequest'
  BY <1>0, <1>1, Moves
<1>3. stopping'[r] = tlsSrv /\ stopping' \in [HTTPS!Reqs -> HTTPS!Reqs \union {HTTPS!NoServer}]
  BY <1>0, <1>1 DEF TLSTypes
<1>4. TLSTypes'
  BY <1>0, <1>1, <1>2, <1>3 DEF TLSTypes
<1>5. Live' = Live /\ Live = {tlsSrv} \ {HTTPS!NoServer}
  BY <1>0, <1>1, <1>2 DEF Live, Replaced
<1>6. Replaced'
  BY <1>1, <1>2, <1>3, <1>5 DEF Replaced
<1>7. Certified' /\ Stored'
  BY <1>0, <1>1, <1>2 DEF Certified, Stored
<1> QED
  BY <1>2, <1>4, <1>6, <1>7 DEF TLSInv

\* The reload shuts the old server down.
LEMMA ShutdownStep ==
    ASSUME TLSInv, NEW r \in HTTPS!Reqs, HTTPS!Shutdown(r)
    PROVE  TLSInv'
<1>0. TLSTypes /\ OneRequest /\ Replaced /\ Certified /\ Stored
  BY DEF TLSInv
<1>1. /\ db' = db /\ mem' = mem /\ read' = read /\ cert' = cert /\ failures' = failures
      /\ stopping' = stopping /\ tlsSrv' = tlsSrv
      /\ server' = [server EXCEPT ![stopping[r]] = "shut"]
      /\ req[r] = "shutdown" /\ HTTPS!Step(r, "build") /\ "build" \in Steps
  BY DEF HTTPS!Shutdown, Steps
<1>2. /\ req' \in [HTTPS!Reqs -> Steps] /\ req'[r] = "build"
      /\ \A q \in HTTPS!Reqs \ {r} : req'[q] = req[q] /\ req[q] \in {"idle", "done"}
      /\ HTTPS!Running' = {r} /\ OneRequest'
  BY <1>0, <1>1, Moves
<1>3. TLSTypes'
  BY <1>0, <1>1, <1>2 DEF TLSTypes
<1>4. Live = {stopping[r]} /\ tlsSrv = HTTPS!NoServer
  BY <1>0, <1>1 DEF Replaced
<1>5. Live' = {}
  BY <1>0, <1>1, <1>4 DEF Live, TLSTypes
<1>6. Replaced'
  BY <1>1, <1>2, <1>4, <1>5 DEF Replaced
<1>7. Certified' /\ Stored'
  BY <1>0, <1>1, <1>2 DEF Certified, Stored
<1> QED
  BY <1>2, <1>3, <1>6, <1>7 DEF TLSInv

\* The reload makes a new server, when TLS is enabled with a certificate.
LEMMA BuildStep ==
    ASSUME TLSInv, NEW r \in HTTPS!Reqs, HTTPS!Build(r)
    PROVE  TLSInv'
<1>0. TLSTypes /\ OneRequest /\ Replaced /\ Certified /\ Stored
  BY DEF TLSInv
<1> DEFINE usable == mem.enabled /\ mem.cert \in Certs
<1>1. /\ db' = db /\ mem' = mem /\ read' = read /\ failures' = failures /\ stopping' = stopping
      /\ usable => /\ tlsSrv' = r /\ server' = [server EXCEPT ![r] = "new"]
                   /\ cert' = [cert EXCEPT ![r] = mem.cert]
      /\ ~usable => tlsSrv' = tlsSrv /\ server' = server /\ cert' = cert
      /\ req[r] = "build" /\ HTTPS!Step(r, "done") /\ "done" \in Steps
  BY DEF HTTPS!Build, Steps
<1>2. /\ req' \in [HTTPS!Reqs -> Steps] /\ req'[r] = "done"
      /\ \A q \in HTTPS!Reqs \ {r} : req'[q] = req[q] /\ req[q] \in {"idle", "done"}
      /\ HTTPS!Running' = {} /\ OneRequest'
  BY <1>0, <1>1, Moves
<1>3. TLSTypes'
  <2>1. /\ tlsSrv' \in HTTPS!Reqs \union {HTTPS!NoServer}
        /\ server' \in [HTTPS!Reqs -> {"none", "new", "listening", "shut", "failed"}]
    BY <1>0, <1>1 DEF TLSTypes
  <2>2. cert' \in [HTTPS!Reqs -> Certs \union {HTTPS!NoCert}]
    BY <1>0, <1>1 DEF TLSTypes
  <2> QED
    BY <1>0, <1>1, <1>2, <2>1, <2>2 DEF TLSTypes
<1>4. Live = {} /\ tlsSrv = HTTPS!NoServer
  BY <1>0, <1>1 DEF Replaced
<1>5. Live' = {tlsSrv'} \ {HTTPS!NoServer}
  BY <1>0, <1>1, <1>4, NoSuchServer DEF Live, TLSTypes
<1>6. Replaced'
  BY <1>2, <1>5 DEF Replaced
<1>7. Certified'
  BY <1>0, <1>1, <1>4, NoSuchServer DEF Certified, TLSTypes
<1>8. Stored'
  BY <1>0, <1>1, <1>2 DEF Stored
<1> QED
  BY <1>2, <1>3, <1>6, <1>7, <1>8 DEF TLSInv

\* The goroutine of a server listens, or its listener fails.
LEMMA ListenStep ==
    ASSUME TLSInv, NEW k \in HTTPS!Reqs, HTTPS!Listen(k)
    PROVE  TLSInv'
<1>0. TLSTypes /\ OneRequest /\ Replaced /\ Certified /\ Stored
  BY DEF TLSInv
<1>1. /\ db' = db /\ mem' = mem /\ req' = req /\ read' = read /\ stopping' = stopping /\ tlsSrv' = tlsSrv
      /\ cert' = cert /\ failures' = failures /\ server[k] = "new"
      /\ server' = [server EXCEPT ![k] = IF HTTPS!Listening = {} THEN "listening" ELSE "failed"]
  BY DEF HTTPS!Listen
\* No other server is alive.
<1>2. \A j \in Live : j = k
  <2>1. k \in Live
    BY <1>1 DEF Live
  <2>2. \A i, j \in Live : i = j
    BY <1>0 DEF Replaced
  <2> QED
    BY <2>1, <2>2
<1>3. HTTPS!Listening = {}
  <2>1. \A j \in HTTPS!Listening : j \in Live /\ server[j] = "listening"
    BY DEF HTTPS!Listening, Live
  <2> QED
    BY <1>1, <1>2, <2>1
<1>4. server' = [server EXCEPT ![k] = "listening"]
  BY <1>1, <1>3
<1>5. TLSTypes'
  BY <1>0, <1>1, <1>4 DEF TLSTypes
<1>6. Live' = Live
  BY <1>0, <1>1, <1>4 DEF Live, TLSTypes
<1> QED
  BY <1>0, <1>1, <1>5, <1>6 DEF TLSInv, OneRequest, Replaced, Certified, Stored, HTTPS!Running

\* Every step of the HTTPS server preserves its invariant.
LEMMA TLSStep == TLSInv /\ [HTTPS!Next]_tlsVars => TLSInv'
<1> SUFFICES ASSUME TLSInv, [HTTPS!Next]_tlsVars PROVE TLSInv'
  OBVIOUS
<1>1. CASE UNCHANGED tlsVars
  BY <1>1 DEF tlsVars, TLSInv, TLSTypes, OneRequest, Replaced, Certified, Stored, Live, HTTPS!Running
<1>2. CASE HTTPS!Next
  <2>1. CASE \E r \in HTTPS!Reqs : \E what \in HTTPS!Changes : HTTPS!SaveRawToDB(r, what)
    BY <2>1, WebSaveStep
  <2>2. CASE \E r \in HTTPS!Reqs : HTTPS!ReqStep(r) \/ HTTPS!Listen(r)
    BY <2>2, WebLoadStep, WebStopStep, ShutdownStep, BuildStep, ListenStep DEF HTTPS!ReqStep
  <2> QED
    BY <1>2, <2>1, <2>2 DEF HTTPS!Next
<1> QED
  BY <1>1, <1>2

\* Between reloads what listens follows the configuration.
LEMMA TLSSound == TLSInv => HTTPS!TLSFollows
<1> SUFFICES ASSUME TLSInv, HTTPS!Running = {} PROVE HTTPS!TLSFollows
  BY DEF HTTPS!TLSFollows
<1>1. \A r \in HTTPS!Reqs : req[r] \in {"idle", "done"}
  BY DEF HTTPS!Running
<1>2. Live = {tlsSrv} \ {HTTPS!NoServer} /\ (failures = 0 => mem = db)
  BY <1>1 DEF TLSInv, Replaced, Stored
<1>3. /\ tlsSrv # HTTPS!NoServer <=> mem.enabled /\ mem.cert \in Certs
      /\ tlsSrv # HTTPS!NoServer => cert[tlsSrv] = mem.cert
  BY DEF TLSInv, Certified
<1> QED
  BY <1>2, <1>3 DEF HTTPS!TLSFollows, Live

-----------------------------------------------------------------------------
(* ServiceHub: the channel of a call that nobody has resolved is empty.       *)

Outcome == {"none", "answer", "timeout", "cancelled", "disconnected", "sendFailed", "noAgent"}

Resolution ==
    /\ result \in [Calls -> {"empty", "value", "closed"}] /\ ret \in [Calls -> Outcome]
    /\ panicked = FALSE
    /\ \A x \in Calls : /\ result[x] # "empty" => x \in resolved
                        /\ ret[x] = "answer" => result[x] = "value"

\* Resolution depends on these variables only.
LEMMA ResolutionKept ==
    ASSUME Resolution, UNCHANGED <<result, ret, panicked, resolved>>
    PROVE  Resolution'
  BY DEF Resolution

\* Whoever resolves a call that is not resolved yet finds its channel empty.
LEMMA Resolves ==
    ASSUME Resolution, NEW x \in Calls, x \notin resolved, NEW how \in {"value", "closed"},
           resolved' = resolved \union {x}, result' = [result EXCEPT ![x] = how],
           panicked' = (panicked \/ result[x] = "closed"), ret' = ret
    PROVE  Resolution'
<1>1. result[x] = "empty" /\ ret[x] # "answer" /\ panicked' = FALSE
  BY DEF Resolution
<1>2. result' \in [Calls -> {"empty", "value", "closed"}] /\ \A y \in Calls \ {x} : result'[y] = result[y]
  BY DEF Resolution
<1> QED
  BY <1>1, <1>2 DEF Resolution

\* A connection that goes closes the channels of its pending calls.
LEMMA CloseStep ==
    ASSUME Resolution, NEW x \in Calls, ret' = ret,
           \/ UNCHANGED <<resolved, result, panicked>>
           \/ /\ x \notin resolved
              /\ resolved' = resolved \union {x} /\ result' = [result EXCEPT ![x] = "closed"]
              /\ panicked' = (panicked \/ result[x] = "closed")
    PROVE  Resolution'
  BY ResolutionKept, Resolves

\* The pump delivers the result of a pending call.
LEMMA DeliverStep ==
    ASSUME Resolution, NEW k \in Hub!Conns, Hub!PumpDeliver(k), handling[k] \in Calls \union {NoCall}
    PROVE  Resolution'
<1> DEFINE x == handling[k]
<1>1. x \in Calls /\ ret' = ret
  BY DEF Hub!PumpDeliver, Hub!callVars
<1>2. CASE x \in resolved
  BY <1>1, <1>2, ResolutionKept DEF Hub!PumpDeliver
<1>3. CASE x \notin resolved
  BY <1>1, <1>3, Resolves DEF Hub!PumpDeliver
<1> QED
  BY <1>2, <1>3

\* A call returns what its channel, its timer or its context gave it.
LEMMA ReturnStep ==
    ASSUME Resolution, NEW x \in Calls, NEW what \in Outcome, Hub!Return(x, what),
           what = "answer" => result[x] = "value",
           UNCHANGED <<result, panicked, resolved>>
    PROVE  Resolution'
  BY DEF Resolution, Hub!Return

-----------------------------------------------------------------------------
(* ServiceHub: where the connections are between their registration and their *)
(* departure.                                                                 *)

Registration ==
    /\ registered \in 0..MaxConns /\ current \in 0..registered
    /\ registering # "no" => registered < MaxConns
    /\ ws \in [Hub!Conns -> {"none", "open", "closed"}]
    /\ pump \in [Hub!Conns -> {"none", "reading", "leaving", "gone"}]
    /\ handling \in [Hub!Conns -> Calls \union {NoCall}]
    /\ \A k \in Hub!Conns : /\ k > registered => ws[k] = "none" /\ pump[k] = "none"
                            /\ pump[k] \in {"leaving", "gone"} => ws[k] = "closed"
    /\ current # 0 => pump[current] \in {"reading", "leaving"}
    /\ registered # 0 /\ ws[registered] = "open" => current = registered

\* Registration depends on these variables only.
LEMMA RegistrationKept ==
    ASSUME Registration, UNCHANGED <<registered, current, registering, ws, pump, handling>>
    PROVE  Registration'
  BY DEF Registration

\* Register puts the new connection in the table under the lock.
LEMMA RegisterStartStep == ASSUME Registration, Hub!RegisterStart PROVE Registration'
<1>1. /\ registered' = registered /\ current' = current /\ pump' = pump /\ handling' = handling
      /\ registered < MaxConns
  BY DEF Hub!RegisterStart
<1>2. \/ ws' = ws
      \/ current # 0 /\ pump[current] = "reading" /\ ws' = [ws EXCEPT ![current] = "closed"]
  BY DEF Hub!RegisterStart
<1>3. /\ ws' \in [Hub!Conns -> {"none", "open", "closed"}]
      /\ \A k \in Hub!Conns : ws'[k] = ws[k] \/ (ws'[k] = "closed" /\ k = current)
  BY <1>2 DEF Registration
<1>4. current # 0 => current \in Hub!Conns /\ current <= registered
  BY ServerAssumption DEF Registration, Hub!Conns
<1>5. registered # 0 => registered \in Hub!Conns
  BY ServerAssumption DEF Registration, Hub!Conns
<1>6. \A k \in Hub!Conns : /\ k > registered => ws'[k] = "none"
                           /\ pump[k] \in {"leaving", "gone"} => ws'[k] = "closed"
  BY <1>3, <1>4, ServerAssumption DEF Registration, Hub!Conns
<1> QED
  BY <1>1, <1>3, <1>5, <1>6 DEF Registration

\* Register closes the connection it replaced, outside the lock.
LEMMA RegisterFinishStep == ASSUME Registration, Hub!RegisterFinish PROVE Registration'
<1> DEFINE k == registered + 1
<1>1. /\ registered' = k /\ current' = k /\ handling' = handling /\ registering' = "no"
      /\ ws' = [ws EXCEPT ![k] = "open"] /\ pump' = [pump EXCEPT ![k] = "reading"]
      /\ registering # "no"
  BY DEF Hub!RegisterFinish
<1>2. registered \in Nat /\ k \in Hub!Conns /\ k \in 1..MaxConns
  BY <1>1, ServerAssumption DEF Registration, Hub!Conns
<1>3. /\ ws'[k] = "open" /\ pump'[k] = "reading"
      /\ \A j \in Hub!Conns \ {k} : ws'[j] = ws[j] /\ pump'[j] = pump[j]
      /\ ws' \in [Hub!Conns -> {"none", "open", "closed"}]
      /\ pump' \in [Hub!Conns -> {"none", "reading", "leaving", "gone"}]
  BY <1>1, <1>2 DEF Registration
<1>4. \A j \in Hub!Conns : j > k => j > registered /\ j # k
  BY <1>2, ServerAssumption DEF Hub!Conns
<1>5. \A j \in Hub!Conns : /\ j > k => ws'[j] = "none" /\ pump'[j] = "none"
                           /\ pump'[j] \in {"leaving", "gone"} => ws'[j] = "closed"
  BY <1>3, <1>4 DEF Registration
<1>6. registered' \in 0..MaxConns /\ current' \in 0..registered'
  BY <1>1, <1>2, ServerAssumption
<1> QED
  BY <1>1, <1>3, <1>5, <1>6 DEF Registration

\* A connection that ends leaves the table if it is still the one there.
LEMMA DepartureStep ==
    ASSUME Registration, NEW k \in Hub!Conns, Hub!Drop(k) \/ Hub!PumpFails(k) \/ Hub!Unregister(k)
    PROVE  Registration'
<1>1. registered \in Nat /\ (registered # 0 => registered \in Hub!Conns) /\ (current # 0 => current \in Hub!Conns)
  BY ServerAssumption DEF Registration, Hub!Conns
<1>2. CASE Hub!Drop(k)
  <2>1. /\ registered' = registered /\ current' = current /\ registering' = registering /\ pump' = pump
        /\ handling' = handling /\ ws[k] = "open" /\ ws' = [ws EXCEPT ![k] = "closed"]
    BY <1>2 DEF Hub!Drop, Hub!hubVars
  <2>2. /\ ws' \in [Hub!Conns -> {"none", "open", "closed"}]
        /\ ws'[k] = "closed" /\ \A j \in Hub!Conns \ {k} : ws'[j] = ws[j]
    BY <2>1 DEF Registration
  <2> QED
    BY <1>1, <2>1, <2>2 DEF Registration
<1>3. CASE Hub!PumpFails(k)
  <2>1. /\ registered' = registered /\ current' = current /\ registering' = registering /\ ws' = ws
        /\ handling' = handling /\ ws[k] = "closed" /\ pump' = [pump EXCEPT ![k] = "leaving"]
    BY <1>3 DEF Hub!PumpFails, Hub!hubVars
  <2>2. /\ pump' \in [Hub!Conns -> {"none", "reading", "leaving", "gone"}]
        /\ pump'[k] = "leaving" /\ \A j \in Hub!Conns \ {k} : pump'[j] = pump[j]
    BY <2>1 DEF Registration
  <2> QED
    BY <1>1, <2>1, <2>2 DEF Registration
<1>4. CASE Hub!Unregister(k)
  <2>1. /\ registered' = registered /\ registering' = registering /\ ws' = ws /\ handling' = handling
        /\ current' = IF current = k THEN 0 ELSE current
        /\ pump[k] = "leaving" /\ pump' = [pump EXCEPT ![k] = "gone"]
    BY <1>4 DEF Hub!Unregister
  <2>2. /\ pump' \in [Hub!Conns -> {"none", "reading", "leaving", "gone"}]
        /\ pump'[k] = "gone" /\ \A j \in Hub!Conns \ {k} : pump'[j] = pump[j]
    BY <2>1 DEF Registration
  <2>3. current' \in 0..registered' /\ (current' # 0 => current' = current /\ current # k)
    BY <1>1, <2>1 DEF Registration
  <2>4. \A j \in Hub!Conns : /\ j > registered => ws[j] = "none" /\ pump'[j] = "none"
                             /\ pump'[j] \in {"leaving", "gone"} => ws[j] = "closed"
    BY <2>1, <2>2 DEF Registration
  <2>5. registered # 0 /\ ws[registered] = "open" => current' = registered
    BY <1>1, <2>1 DEF Registration
  <2> QED
    BY <1>1, <2>1, <2>2, <2>3, <2>4, <2>5 DEF Registration
<1> QED
  BY <1>2, <1>3, <1>4

\* Every step of the pump of a connection.
LEMMA PumpStep ==
    ASSUME Registration, NEW k \in Hub!Conns, NEW x \in Calls, Hub!PumpRead(k, x) \/ Hub!PumpDeliver(k)
    PROVE  Registration'
<1>1. UNCHANGED <<registered, current, registering, ws, pump>>
  BY DEF Hub!PumpRead, Hub!PumpDeliver, Hub!hubVars
<1>2. handling' \in [Hub!Conns -> Calls \union {NoCall}]
  BY DEF Registration, Hub!PumpRead, Hub!PumpDeliver
<1> QED
  BY <1>1, <1>2 DEF Registration

-----------------------------------------------------------------------------
HubInv == Resolution /\ Registration

\* The hub starts with no connection and no call.
LEMMA HubStart == Hub!Init => HubInv
  BY ServerAssumption DEF Hub!Init, HubInv, Resolution, Outcome, Registration

\* Every step of a call.
LEMMA CallStep ==
    ASSUME HubInv, NEW x \in Calls,
           \/ Hub!CancelCall(x) \/ Hub!Answer(x) \/ Hub!GetConnection(x)
           \/ Hub!Command(x) \/ Hub!ContextDone(x) \/ Hub!ConnDone(x)
    PROVE  HubInv'
<1>0. Resolution /\ Registration
  BY DEF HubInv
<1>1. UNCHANGED <<registered, current, registering, ws, pump, handling>>
  BY DEF Hub!CancelCall, Hub!Answer, Hub!GetConnection, Hub!Command, Hub!StoreCall, Hub!WriteCommand,
         Hub!ReceiveResult, Hub!TimerFires, Hub!TimerResolves, Hub!ContextDone, Hub!ConnDone,
         Hub!hubVars, Hub!connVars
<1> SUFFICES Resolution'
  BY <1>0, <1>1, RegistrationKept DEF HubInv
<1>2. CASE Hub!CancelCall(x) \/ Hub!TimerResolves(x)
  BY <1>0, <1>2, CloseStep DEF Hub!CancelCall, Hub!TimerResolves, Hub!CloseResult, Hub!callVars
<1>3. CASE Hub!Answer(x) \/ Hub!StoreCall(x) \/ Hub!TimerFires(x)
  BY <1>0, <1>3, ResolutionKept DEF Hub!Answer, Hub!StoreCall, Hub!TimerFires, Hub!callVars, Hub!sharedVars, Hub!connVars
<1>4. CASE Hub!GetConnection(x) \/ Hub!WriteCommand(x)
  BY <1>0, <1>4, ResolutionKept, ReturnStep DEF Hub!GetConnection, Hub!WriteCommand, Outcome
<1>5. CASE Hub!ReceiveResult(x) \/ Hub!ContextDone(x) \/ Hub!ConnDone(x)
  BY <1>0, <1>5, ReturnStep DEF Hub!ReceiveResult, Hub!ContextDone, Hub!ConnDone, Outcome
<1> QED
  BY <1>2, <1>3, <1>4, <1>5 DEF Hub!Command

\* Every step of the hub preserves its invariant.
LEMMA HubStep == HubInv /\ [Hub!Next]_hubVars => HubInv'
<1> SUFFICES ASSUME HubInv, [Hub!Next]_hubVars PROVE HubInv'
  OBVIOUS
<1>0. Resolution /\ Registration
  BY DEF HubInv
<1>1. CASE UNCHANGED hubVars
  BY <1>0, <1>1, ResolutionKept, RegistrationKept DEF HubInv, hubVars
<1>2. CASE Hub!RegisterStart \/ Hub!RegisterFinish
  BY <1>0, <1>2, RegisterStartStep, RegisterFinishStep, ResolutionKept
     DEF HubInv, Hub!RegisterStart, Hub!RegisterFinish, Hub!callVars, Hub!sharedVars
<1>3. ASSUME NEW k \in Hub!Conns, Hub!Drop(k) \/ Hub!PumpFails(k) \/ Hub!Unregister(k) PROVE HubInv'
  BY <1>0, <1>3, DepartureStep, ResolutionKept
     DEF HubInv, Hub!Drop, Hub!PumpFails, Hub!Unregister, Hub!callVars, Hub!sharedVars
<1>4. ASSUME NEW k \in Hub!Conns, NEW x \in Calls, Hub!PumpRead(k, x) PROVE HubInv'
  BY <1>0, <1>4, PumpStep, ResolutionKept DEF HubInv, Hub!PumpRead, Hub!callVars
<1>5. ASSUME NEW k \in Hub!Conns, Hub!PumpDeliver(k) PROVE HubInv'
  <2>1. handling[k] \in Calls
    BY <1>0, <1>5 DEF Registration, Hub!PumpDeliver
  <2> QED
    BY <1>0, <1>5, <2>1, PumpStep, DeliverStep DEF HubInv
<1> QED
  BY <1>1, <1>2, <1>3, <1>4, <1>5, CallStep DEF Hub!Next, Hub!Pump

\* What the runs check of the hub follows from its invariant.
LEMMA HubSound ==
    HubInv => Hub!ResolvedOnce /\ Hub!AnswersAreReal /\ Hub!NewestReachable
  BY DEF HubInv, Resolution, Registration, Hub!ResolvedOnce, Hub!AnswersAreReal, Hub!NewestReachable

-----------------------------------------------------------------------------
(* MCPProxies: a request that waits, or whose answer waits, in the pipes of a *)
(* subprocess is of the call that holds the proxy.                            *)

Places == {"idle", "route", "lock", "write", "wait", "http", "done"}

PipeTypes ==
    /\ proc \in [Proxies!Proxies -> {"none", "up", "died", "stopped", "cancelled"}]
    /\ holder \in [Proxies!Proxies -> Calls \union {"none"}]
    /\ asked \in [Proxies!Proxies -> Seq(Calls)] /\ answers \in [Proxies!Proxies -> Seq(Calls)]
    /\ call \in [Calls -> [at : Places, server : Names \union {"none"},
                           on : Proxies!Proxies \union {Proxies!NoProxy},
                           got : Calls \union {"none", "unknown"}]]

Holding == \A c \in Calls :
    /\ call[c].at = "route" => call[c].server \in Names
    /\ call[c].at \in {"lock", "write", "wait", "http"} => call[c].on \in Proxies!Proxies
    /\ call[c].at \in {"write", "wait", "http"} => holder[call[c].on] = c
    /\ call[c].got \in Calls => call[c].got = c

Waits(p, c) == call[c].at = "wait" /\ call[c].on = p

PipeOf(p) ==
    /\ answers[p] = <<>> \/ \E c \in Calls : Waits(p, c) /\ answers[p] = <<c>>
    /\ proc[p] = "up" => \/ asked[p] = <<>>
                         \/ answers[p] = <<>> /\ \E c \in Calls : Waits(p, c) /\ asked[p] = <<c>>
    /\ proc[p] = "none" => asked[p] = <<>>

Pipes == \A p \in Proxies!Proxies : PipeOf(p)

PipeInv == PipeTypes /\ Holding /\ Pipes

\* PipeOf(p) depends on these variables only.
LEMMA PipeKept ==
    ASSUME PipeInv, UNCHANGED <<proc, holder, asked, answers, call>> PROVE PipeInv'
  BY DEF PipeInv, PipeTypes, Holding, Pipes, PipeOf, Waits

\* A subprocess starts with empty pipes, and one that has ended takes no request.
LEMMA ProcessStep ==
    ASSUME PipeInv, UNCHANGED <<holder, asked, answers, call>>,
           NEW p \in Proxies!Proxies, NEW how \in {"up", "died", "stopped", "cancelled"},
           proc[p] = "none" \/ how # "up", proc' = [proc EXCEPT ![p] = how]
    PROVE  PipeInv'
<1>0. PipeTypes /\ Holding /\ Pipes
  BY DEF PipeInv
<1>1. PipeTypes' /\ Holding'
  BY <1>0 DEF PipeTypes, Holding
<1>2. proc'[p] = how /\ \A q \in Proxies!Proxies \ {p} : proc'[q] = proc[q]
  BY <1>0 DEF PipeTypes
<1>3. \A q \in Proxies!Proxies, c \in Calls : Waits(q, c)' <=> Waits(q, c)
  BY DEF Waits
<1>4. Pipes'
  BY <1>0, <1>2, <1>3 DEF Pipes, PipeOf
<1> QED
  BY <1>1, <1>4 DEF PipeInv

\* What At and Returns do to a call.
LEMMA AtStep ==
    ASSUME PipeTypes, NEW c \in Calls, NEW where \in Places, Proxies!At(c, where)
    PROVE  /\ call' \in [Calls -> [at : Places, server : Names \union {"none"},
                                   on : Proxies!Proxies \union {Proxies!NoProxy},
                                   got : Calls \union {"none", "unknown"}]]
           /\ call'[c].at = where /\ call'[c].server = call[c].server
           /\ call'[c].on = call[c].on /\ call'[c].got = call[c].got
           /\ \A d \in Calls \ {c} : call'[d] = call[d]
<1>1. call' = [call EXCEPT ![c] = [call[c] EXCEPT !.at = where]]
  BY DEF Proxies!At
<1> QED
  BY <1>1 DEF PipeTypes

\* A call returns.
LEMMA ReturnsStep ==
    ASSUME PipeTypes, NEW c \in Calls, NEW what \in Calls \union {"unknown"}, Proxies!Returns(c, what)
    PROVE  /\ call' \in [Calls -> [at : Places, server : Names \union {"none"},
                                   on : Proxies!Proxies \union {Proxies!NoProxy},
                                   got : Calls \union {"none", "unknown"}]]
           /\ call'[c].at = "done" /\ call'[c].got = what
           /\ \A d \in Calls \ {c} : call'[d] = call[d]
<1>1. call' = [call EXCEPT ![c] = [[call[c] EXCEPT !.at = "done"] EXCEPT !.got = what]]
  BY DEF Proxies!Returns
<1> QED
  BY <1>1 DEF PipeTypes, Places

\* A call that waits neither before nor after disturbs no pipe.
LEMMA PipesUndisturbed ==
    ASSUME Pipes, UNCHANGED <<proc, asked, answers>>, NEW c \in Calls,
           \A d \in Calls \ {c} : call'[d] = call[d], call[c].at # "wait", call'[c].at # "wait"
    PROVE  Pipes'
<1>1. \A q \in Proxies!Proxies, d \in Calls : Waits(q, d)' <=> Waits(q, d)
  BY DEF Waits
<1> QED
  BY <1>1 DEF Pipes, PipeOf

\* A call looks its proxy up.
LEMMA RouteStep ==
    ASSUME PipeInv, NEW c \in Calls,
           table \in [Names -> Proxies!Proxies \union {Proxies!NoProxy}],
           (\E n \in Names : Proxies!Post(c, n)) \/ Proxies!GetProxy(c)
    PROVE  PipeInv'
<1>0. PipeTypes /\ Holding /\ Pipes
  BY DEF PipeInv
<1>1. UNCHANGED <<proc, holder, asked, answers>>
  BY DEF Proxies!Post, Proxies!GetProxy
<1> SUFFICES /\ call' \in [Calls -> [at : Places, server : Names \union {"none"},
                                     on : Proxies!Proxies \union {Proxies!NoProxy},
                                     got : Calls \union {"none", "unknown"}]]
             /\ \A d \in Calls \ {c} : call'[d] = call[d]
             /\ call[c].at \in {"idle", "route"}
             /\ \/ call'[c].at = "route" /\ call'[c].server \in Names /\ call'[c].got = call[c].got
                \/ call'[c].at = "lock" /\ call'[c].on \in Proxies!Proxies /\ call'[c].got = call[c].got
                \/ call'[c].at = "done" /\ call'[c].got = "unknown"
  <2>1. PipeTypes'
    BY <1>0, <1>1 DEF PipeTypes
  <2>2. Pipes'
    BY <1>0, <1>1, PipesUndisturbed
  <2>3. Holding'
    BY <1>0, <1>1, ServerAssumption DEF Holding
  <2> QED
    BY <2>1, <2>2, <2>3 DEF PipeInv
<1>2. CASE \E n \in Names : Proxies!Post(c, n)
  <2>1. PICK n \in Names : call[c].at = "idle" /\ call' = [call EXCEPT ![c].at = "route", ![c].server = n]
    BY <1>2 DEF Proxies!Post
  <2> DEFINE posted == [[call[c] EXCEPT !.at = "route"] EXCEPT !.server = n]
  <2>2. call' = [call EXCEPT ![c] = posted]
    BY <2>1
  <2>3. /\ posted \in [at : Places, server : Names \union {"none"},
                       on : Proxies!Proxies \union {Proxies!NoProxy},
                       got : Calls \union {"none", "unknown"}]
        /\ posted.at = "route" /\ posted.server = n /\ posted.got = call[c].got
    BY <1>0 DEF PipeTypes, Places
  <2> HIDE DEF posted
  <2> QED
    BY <1>0, <2>1, <2>2, <2>3 DEF PipeTypes
<1>3. CASE Proxies!GetProxy(c)
  <2> DEFINE p == table[call[c].server]
  <2>1. call[c].at = "route" /\ p \in Proxies!Proxies \union {Proxies!NoProxy}
    BY <1>0, <1>3 DEF Proxies!GetProxy, Holding
  <2>2. CASE p = Proxies!NoProxy
    <3>1. Proxies!Returns(c, "unknown")
      BY <1>3, <2>2 DEF Proxies!GetProxy
    <3> QED
      BY <1>0, <2>1, <3>1, ReturnsStep
  <2>3. CASE p # Proxies!NoProxy
    <3>1. call' = [call EXCEPT ![c] = [[call[c] EXCEPT !.at = "lock"] EXCEPT !.on = p]]
      BY <1>3, <2>3 DEF Proxies!GetProxy
    <3> QED
      BY <1>0, <2>1, <2>3, <3>1 DEF PipeTypes, Places
  <2> QED
    BY <2>2, <2>3
<1> QED
  BY <1>2, <1>3

\* A call takes the lock of a stdio proxy.
LEMMA LockStep ==
    ASSUME PipeInv, NEW c \in Calls, Proxies!LockProxy(c)
    PROVE  PipeInv'
<1> DEFINE p == call[c].on
<1>0. PipeTypes /\ Holding /\ Pipes
  BY DEF PipeInv
<1>1. /\ UNCHANGED <<proc, asked, answers>> /\ call[c].at = "lock" /\ p \in Proxies!Proxies /\ holder[p] = "none"
  BY <1>0 DEF Proxies!LockProxy, Holding, Proxies!None
\* Nobody else holds the proxy.
<1>2. \A d \in Calls \ {c} : call[d].at \in {"write", "wait", "http"} => call[d].on # p
  BY <1>0, <1>1, ServerAssumption DEF Holding
<1>3. CASE p \in running
  <2>1. PICK where \in {"write", "http"} : Proxies!At(c, where)
    BY <1>3 DEF Proxies!LockProxy
  <2>2. holder' = [holder EXCEPT ![p] = c]
    BY <1>3 DEF Proxies!LockProxy
  <2>3. /\ call' \in [Calls -> [at : Places, server : Names \union {"none"},
                                on : Proxies!Proxies \union {Proxies!NoProxy},
                                got : Calls \union {"none", "unknown"}]]
        /\ call'[c].at = where /\ call'[c].on = p /\ call'[c].got = call[c].got
        /\ \A d \in Calls \ {c} : call'[d] = call[d]
    BY <1>0, <2>1, AtStep DEF Places
  <2>4. /\ holder' \in [Proxies!Proxies -> Calls \union {"none"}]
        /\ holder'[p] = c /\ \A q \in Proxies!Proxies \ {p} : holder'[q] = holder[q]
    BY <1>0, <1>1, <2>2 DEF PipeTypes
  <2>5. PipeTypes'
    BY <1>0, <1>1, <2>3, <2>4 DEF PipeTypes
  <2>6. Holding'
    BY <1>0, <1>1, <1>2, <2>3, <2>4 DEF Holding
  <2>7. Pipes'
    BY <1>0, <1>1, <2>3, PipesUndisturbed
  <2> QED
    BY <2>5, <2>6, <2>7 DEF PipeInv
<1>4. CASE p \notin running
  <2>1. Proxies!Returns(c, "unknown") /\ holder' = holder
    BY <1>4 DEF Proxies!LockProxy
  <2>2. /\ call' \in [Calls -> [at : Places, server : Names \union {"none"},
                                on : Proxies!Proxies \union {Proxies!NoProxy},
                                got : Calls \union {"none", "unknown"}]]
        /\ call'[c].at = "done" /\ call'[c].got = "unknown"
        /\ \A d \in Calls \ {c} : call'[d] = call[d]
    BY <1>0, <2>1, ReturnsStep
  <2>3. PipeTypes' /\ Holding'
    BY <1>0, <1>1, <2>1, <2>2, ServerAssumption DEF PipeTypes, Holding
  <2>4. Pipes'
    BY <1>0, <1>1, <2>2, PipesUndisturbed
  <2> QED
    BY <2>3, <2>4 DEF PipeInv
<1> QED
  BY <1>3, <1>4

\* A call that has the proxy of its own gives it back with what it got.
LEMMA UnlockStep ==
    ASSUME PipeTypes, Holding, NEW c \in Calls, call[c].at \in {"write", "wait", "http"},
           NEW what \in Calls \union {"unknown"}, what \in Calls => what = c,
           Proxies!Returns(c, what), Proxies!Unlock(c),
           proc' = proc, asked' = asked, answers' \in [Proxies!Proxies -> Seq(Calls)]
    PROVE  /\ PipeTypes' /\ Holding' /\ call[c].on \in Proxies!Proxies
           /\ call'[c].at = "done" /\ \A d \in Calls \ {c} : call'[d] = call[d]
<1> DEFINE p == call[c].on
<1>1. p \in Proxies!Proxies /\ holder[p] = c
  BY DEF Holding
<1>2. /\ call' \in [Calls -> [at : Places, server : Names \union {"none"},
                              on : Proxies!Proxies \union {Proxies!NoProxy},
                              got : Calls \union {"none", "unknown"}]]
      /\ call'[c].at = "done" /\ call'[c].got = what
      /\ \A d \in Calls \ {c} : call'[d] = call[d]
  BY ReturnsStep
<1>3. /\ holder' \in [Proxies!Proxies -> Calls \union {"none"}]
      /\ \A q \in Proxies!Proxies \ {p} : holder'[q] = holder[q]
  BY <1>1 DEF PipeTypes, Proxies!Unlock, Proxies!None
<1>4. PipeTypes'
  BY <1>2, <1>3 DEF PipeTypes
<1>5. \A d \in Calls \ {c} : call[d].at \in {"write", "wait", "http"} => call[d].on # p
  BY <1>1 DEF Holding
<1>6. Holding'
  <2>1. \A d \in Calls \ {c} :
            /\ call'[d].at = "route" => call'[d].server \in Names
            /\ call'[d].at \in {"lock", "write", "wait", "http"} => call'[d].on \in Proxies!Proxies
            /\ call'[d].at \in {"write", "wait", "http"} => holder'[call'[d].on] = d
            /\ call'[d].got \in Calls => call'[d].got = d
    BY <1>2, <1>3, <1>5 DEF Holding
  <2> QED
    BY <1>2, <2>1 DEF Holding
<1> QED
  BY <1>1, <1>2, <1>4, <1>6

\* A call writes its request to the pipe.
LEMMA StdioStep ==
    ASSUME PipeInv, NEW c \in Calls, Proxies!CallStdio(c)
    PROVE  PipeInv'
<1>0. PipeTypes /\ Holding /\ Pipes
  BY DEF PipeInv
<1>p. PICK p \in Proxies!Proxies : p = call[c].on
  BY <1>0 DEF Proxies!CallStdio, Holding
<1>1. call[c].at = "write" /\ call[c].on = p /\ holder[p] = c /\ proc' = proc /\ answers' = answers
  BY <1>0, <1>p DEF Proxies!CallStdio, Holding
\* The pipes are empty: whoever waited has gone.
<1>2. \A d \in Calls : ~Waits(p, d)
  BY <1>0, <1>1 DEF Holding, Waits
<1>3. CASE proc[p] = "up"
  <2>1. asked' = [asked EXCEPT ![p] = Append(@, c)] /\ Proxies!At(c, "wait") /\ holder' = holder
    BY <1>1, <1>3 DEF Proxies!CallStdio
  <2>2. asked[p] = <<>> /\ answers[p] = <<>>
    BY <1>0, <1>1, <1>2, <1>3 DEF Pipes, PipeOf
  <2>3. /\ asked' \in [Proxies!Proxies -> Seq(Calls)] /\ asked'[p] = <<c>>
        /\ \A q \in Proxies!Proxies \ {p} : asked'[q] = asked[q]
    BY <1>0, <1>1, <2>1, <2>2 DEF PipeTypes
  <2>4. /\ call' \in [Calls -> [at : Places, server : Names \union {"none"},
                                on : Proxies!Proxies \union {Proxies!NoProxy},
                                got : Calls \union {"none", "unknown"}]]
        /\ call'[c].at = "wait" /\ call'[c].on = p /\ call'[c].got = call[c].got
        /\ \A d \in Calls \ {c} : call'[d] = call[d]
    BY <1>0, <1>1, <2>1, AtStep DEF Places
  <2>5. PipeTypes' /\ Holding'
    <3>1. PipeTypes'
      BY <1>0, <1>1, <2>1, <2>3, <2>4 DEF PipeTypes
    <3>2. Holding'
      BY <1>0, <1>1, <2>1, <2>4 DEF Holding
    <3> QED
      BY <3>1, <3>2
  <2>6. /\ \A q \in Proxies!Proxies \ {p}, d \in Calls : Waits(q, d)' <=> Waits(q, d)
        /\ Waits(p, c)'
    BY <1>1, <2>4 DEF Waits
  <2>7. Pipes'
    <3>1. \A q \in Proxies!Proxies \ {p} : PipeOf(q)'
      BY <1>0, <1>1, <2>3, <2>6 DEF Pipes, PipeOf
    <3>2. PipeOf(p)'
      BY <1>1, <1>3, <2>2, <2>3, <2>6 DEF PipeOf
    <3> QED
      BY <3>1, <3>2 DEF Pipes
  <2> QED
    BY <2>5, <2>7 DEF PipeInv
<1>4. CASE proc[p] # "up"
  <2>1. Proxies!Returns(c, "unknown") /\ Proxies!Unlock(c) /\ asked' = asked
    BY <1>1, <1>4 DEF Proxies!CallStdio
  <2>2. PipeTypes' /\ Holding' /\ call'[c].at = "done" /\ \A d \in Calls \ {c} : call'[d] = call[d]
    BY <1>0, <1>1, <2>1, UnlockStep, ServerAssumption DEF PipeTypes
  <2> QED
    BY <1>0, <1>1, <2>1, <2>2, PipesUndisturbed DEF PipeInv
<1> QED
  BY <1>3, <1>4

\* A subprocess answers the requests of a pipe in order.
LEMMA AnswersStep ==
    ASSUME PipeInv, NEW p \in Proxies!Proxies, Proxies!Answers(p)
    PROVE  PipeInv'
<1>0. PipeTypes /\ Holding /\ Pipes
  BY DEF PipeInv
<1>1. /\ proc' = proc /\ holder' = holder /\ call' = call /\ proc[p] = "up" /\ asked[p] # <<>>
      /\ answers' = [answers EXCEPT ![p] = Append(@, Head(asked[p]))]
      /\ asked' = [asked EXCEPT ![p] = Tail(@)]
  BY DEF Proxies!Answers
<1>2. PICK c \in Calls : Waits(p, c) /\ asked[p] = <<c>> /\ answers[p] = <<>>
  BY <1>0, <1>1 DEF Pipes, PipeOf
<1>3. answers' = [answers EXCEPT ![p] = <<c>>] /\ asked' = [asked EXCEPT ![p] = <<>>]
  BY <1>1, <1>2
<1>4. /\ answers' \in [Proxies!Proxies -> Seq(Calls)] /\ asked' \in [Proxies!Proxies -> Seq(Calls)]
      /\ answers'[p] = <<c>> /\ asked'[p] = <<>>
      /\ \A q \in Proxies!Proxies \ {p} : answers'[q] = answers[q] /\ asked'[q] = asked[q]
  BY <1>0, <1>3 DEF PipeTypes
<1>5. PipeTypes' /\ Holding'
  BY <1>0, <1>1, <1>4 DEF PipeTypes, Holding
<1>6. \A q \in Proxies!Proxies, d \in Calls : Waits(q, d)' <=> Waits(q, d)
  BY <1>1 DEF Waits
<1>7. Pipes'
  BY <1>0, <1>1, <1>2, <1>4, <1>6 DEF Pipes, PipeOf
<1> QED
  BY <1>5, <1>7 DEF PipeInv

\* A call reads the next answer of its pipe.
LEMMA ReadStep ==
    ASSUME PipeInv, NEW c \in Calls, Proxies!ReadLine(c) \/ Proxies!ReadFails(c) \/ Proxies!CallHTTP(c)
    PROVE  PipeInv'
<1> DEFINE p == call[c].on
<1>0. PipeTypes /\ Holding /\ Pipes
  BY DEF PipeInv
<1>1. CASE Proxies!ReadLine(c)
  <2>1. /\ call[c].at = "wait" /\ answers[p] # <<>> /\ proc' = proc /\ asked' = asked
        /\ Proxies!Returns(c, Head(answers[p])) /\ Proxies!Unlock(c)
        /\ answers' = [answers EXCEPT ![p] = Tail(@)]
    BY <1>1 DEF Proxies!ReadLine
  <2>2. p \in Proxies!Proxies /\ \A d \in Calls : Waits(p, d) => d = c
    BY <1>0, <2>1 DEF Holding, Waits
  <2>3. answers[p] = <<c>>
    BY <1>0, <2>1, <2>2 DEF Pipes, PipeOf
  <2>4. Proxies!Returns(c, c) /\ answers' = [answers EXCEPT ![p] = <<>>]
    BY <2>1, <2>3
  <2>5. /\ answers' \in [Proxies!Proxies -> Seq(Calls)]
        /\ answers'[p] = <<>> /\ \A q \in Proxies!Proxies \ {p} : answers'[q] = answers[q]
    BY <1>0, <2>2, <2>4 DEF PipeTypes
  <2>6. PipeTypes' /\ Holding' /\ call'[c].at = "done" /\ \A d \in Calls \ {c} : call'[d] = call[d]
    BY <1>0, <2>1, <2>4, <2>5, UnlockStep
  <2>7. \A q \in Proxies!Proxies \ {p}, d \in Calls : Waits(q, d)' <=> Waits(q, d)
    BY <2>1, <2>6 DEF Waits
  <2>8. Pipes'
    BY <1>0, <2>1, <2>2, <2>3, <2>5, <2>7 DEF Pipes, PipeOf
  <2> QED
    BY <2>6, <2>8 DEF PipeInv
<1>2. CASE Proxies!ReadFails(c)
  <2>1. /\ call[c].at = "wait" /\ answers[p] = <<>> /\ proc' = proc /\ asked' = asked /\ answers' = answers
        /\ proc[p] # "up" /\ Proxies!Returns(c, "unknown") /\ Proxies!Unlock(c)
    BY <1>2 DEF Proxies!ReadFails
  <2>2. /\ PipeTypes' /\ Holding' /\ p \in Proxies!Proxies
        /\ call'[c].at = "done" /\ \A d \in Calls \ {c} : call'[d] = call[d]
    BY <1>0, <2>1, UnlockStep, ServerAssumption DEF PipeTypes
  <2>3. \A q \in Proxies!Proxies \ {p}, d \in Calls : Waits(q, d)' <=> Waits(q, d)
    BY <2>1, <2>2 DEF Waits
  <2>4. Pipes'
    BY <1>0, <2>1, <2>2, <2>3 DEF Pipes, PipeOf
  <2> QED
    BY <2>2, <2>4 DEF PipeInv
<1>3. CASE Proxies!CallHTTP(c)
  <2>1. /\ call[c].at = "http" /\ proc' = proc /\ asked' = asked /\ answers' = answers
        /\ Proxies!Returns(c, c) \/ Proxies!Returns(c, "unknown")
        /\ Proxies!Unlock(c)
    BY <1>3 DEF Proxies!CallHTTP
  <2>2. PipeTypes' /\ Holding' /\ call'[c].at = "done" /\ \A d \in Calls \ {c} : call'[d] = call[d]
    BY <1>0, <2>1, UnlockStep, ServerAssumption DEF PipeTypes
  <2> QED
    BY <1>0, <2>1, <2>2, PipesUndisturbed DEF PipeInv
<1> QED
  BY <1>1, <1>2, <1>3
-----------------------------------------------------------------------------
(* MCPProxies: how far the one load that runs has brought the table and the   *)
(* services.                                                                  *)

Stages == {"idle", "read", "fetch", "swap", "register", "drop", "done"}

LoadTypes ==
    /\ rows \in [Names -> {"none", "stdio", "http"}]
    /\ load \in [Proxies!Loads -> Stages]
    /\ want \in [Proxies!Loads -> [Names -> {"none", "stdio", "http"}]]
    /\ todo \in [Proxies!Loads -> SUBSET Names]
    /\ old \in [Proxies!Loads -> [Names -> Proxies!Proxies \union {Proxies!NoProxy}]]
    /\ table \in [Names -> Proxies!Proxies \union {Proxies!NoProxy}]
    /\ service \in [Names -> Proxies!Proxies \union {Proxies!NoProxy}]

OneLoad == \A r, q \in Proxies!Loading : r = q

Unfetched == \A r \in Proxies!Loads, n \in Names :
    load[r] \in {"idle", "read"} \/ (load[r] = "fetch" /\ n \in todo[r]) => proc[<<r, n>>] = "none"

Rows == \A r \in Proxies!Loads : load[r] \in {"fetch", "swap", "register", "drop"} => want[r] = rows

Swapped(r) == \A n \in Names : table[n] = IF n \in Proxies!Wanted(r) THEN <<r, n>> ELSE Proxies!NoProxy

Serving(r) ==
    /\ load[r] \in {"read", "fetch", "swap"} => service = table
    /\ load[r] \in {"register", "drop"} => Swapped(r)
    /\ load[r] = "register" => todo[r] \subseteq Proxies!Wanted(r)
    /\ load[r] = "register" =>
           \A n \in Names : service[n] = IF n \in Proxies!Wanted(r) /\ n \notin todo[r] THEN <<r, n>> ELSE old[r][n]
    /\ load[r] = "drop" =>
           \A n \in Names : /\ n \in Proxies!Wanted(r) => n \notin todo[r] /\ service[n] = <<r, n>>
                            /\ n \notin Proxies!Wanted(r) => \/ n \in todo[r] /\ old[r][n] # Proxies!NoProxy
                                                             \/ service[n] = Proxies!NoProxy

LoadInv == /\ LoadTypes /\ OneLoad /\ Unfetched /\ Rows
           /\ (\A r \in Proxies!Loads : Serving(r)) /\ Proxies!TablesAgree

\* A proxy is made by one load for one server.
LEMMA ProxyPairs == /\ \A r \in Proxies!Loads, n \in Names : <<r, n>> \in Proxies!Proxies
                    /\ Proxies!NoProxy \notin Proxies!Proxies
                    /\ \A p \in Proxies!Proxies : p[1] \in Proxies!Loads /\ p[2] \in Names /\ p = <<p[1], p[2]>>
  BY DEF Proxies!Proxies, Proxies!NoProxy

\* LoadInv depends on these variables only.
LEMMA LoadKept ==
    ASSUME LoadInv, UNCHANGED <<rows, load, want, todo, old, table, service>>,
           \A p \in Proxies!Proxies : proc[p] = "none" => proc'[p] = "none"
    PROVE  LoadInv'
<1>1. Unfetched'
  BY ProxyPairs DEF LoadInv, Unfetched
<1>2. LoadTypes' /\ OneLoad' /\ Rows'
  BY DEF LoadInv, LoadTypes, OneLoad, Rows, Proxies!Loading
<1>3. (\A r \in Proxies!Loads : Serving(r)') /\ Proxies!TablesAgree'
  BY DEF LoadInv, Serving, Swapped, Proxies!Wanted, Proxies!TablesAgree, Proxies!Loading, Proxies!Transport
<1> QED
  BY <1>1, <1>2, <1>3 DEF LoadInv

\* A step of the one load that runs, to another stage.
LEMMA StageMoves ==
    ASSUME LoadTypes, OneLoad, NEW r \in Proxies!Loads, load[r] \notin {"idle", "done"},
           NEW where \in Stages \ {"idle"}, load' = [load EXCEPT ![r] = where]
    PROVE  /\ load' \in [Proxies!Loads -> Stages] /\ load'[r] = where
           /\ \A q \in Proxies!Loads \ {r} : load'[q] = load[q] /\ load[q] \in {"idle", "done"}
           /\ where # "done" => r \in Proxies!Loading'
           /\ OneLoad'
<1>1. load' \in [Proxies!Loads -> Stages] /\ load'[r] = where /\ \A q \in Proxies!Loads \ {r} : load'[q] = load[q]
  BY DEF LoadTypes
<1>2. \A q \in Proxies!Loads \ {r} : load[q] \in {"idle", "done"}
  BY DEF OneLoad, Proxies!Loading
<1> QED
  BY <1>1, <1>2 DEF OneLoad, Proxies!Loading

\* A row is edited and a load begins.
LEMMA EditStep ==
    ASSUME LoadInv, NEW r \in Proxies!Loads, NEW n \in Names, NEW t \in {"none", "stdio", "http"}, Proxies!Edit(r, n, t)
    PROVE  LoadInv'
<1>0. LoadTypes /\ OneLoad /\ Unfetched /\ Proxies!TablesAgree
  BY DEF LoadInv
<1>1. /\ UNCHANGED <<want, todo, old, table, service, proc>> /\ load[r] = "idle"
      /\ rows' = [rows EXCEPT ![n] = t] /\ load' = [load EXCEPT ![r] = "read"]
      /\ Proxies!Cardinality(Proxies!Loading) < 1
  BY DEF Proxies!Edit
<1>2. Proxies!Loading = {}
  <2>0. Proxies!Loads = 0..MaxLoads /\ MaxLoads \in Int
    BY ServerAssumption DEF Proxies!Loads, Proxies!Boot
  <2>1. IsFiniteSet(Proxies!Loads) /\ Proxies!Loading \subseteq Proxies!Loads
    BY <2>0, FS_Interval DEF Proxies!Loading
  <2>2. \A S : Proxies!Cardinality(S) = Cardinality(S)
    BY DEF Proxies!Cardinality, Cardinality
  <2> QED
    BY <1>1, <2>1, <2>2, FS_Subset, FS_EmptySet, FS_CardinalityType
<1>3. /\ load' \in [Proxies!Loads -> Stages] /\ load'[r] = "read"
      /\ \A q \in Proxies!Loads \ {r} : load'[q] = load[q] /\ load[q] \in {"idle", "done"}
  BY <1>0, <1>1, <1>2 DEF LoadTypes, Stages, Proxies!Loading
<1>4. Proxies!Loading' = {r}
  BY <1>3 DEF Proxies!Loading
<1>5. LoadTypes'
  BY <1>0, <1>1, <1>3 DEF LoadTypes
<1>6. Unfetched' /\ Rows'
  BY <1>0, <1>1, <1>3 DEF Unfetched, Rows
<1>7. service = table
  BY <1>0, <1>2 DEF LoadTypes, Proxies!TablesAgree
<1>8. \A q \in Proxies!Loads : Serving(q)'
  BY <1>1, <1>3, <1>7 DEF Serving
<1> QED
  BY <1>4, <1>5, <1>6, <1>8 DEF LoadInv, OneLoad, Proxies!TablesAgree

\* The load reads the rows.
LEMMA ReadRowsStep ==
    ASSUME LoadInv, NEW r \in Proxies!Loads, Proxies!Read(r)
    PROVE  LoadInv'
<1>0. LoadTypes /\ OneLoad /\ Unfetched /\ Rows /\ \A q \in Proxies!Loads : Serving(q)
  BY DEF LoadInv
<1>1. /\ UNCHANGED <<rows, old, table, service, proc>> /\ load[r] = "read"
      /\ load' = [load EXCEPT ![r] = "fetch"] /\ want' = [want EXCEPT ![r] = rows]
      /\ todo' = [todo EXCEPT ![r] = {n \in Names : rows[n] # "none"}]
  BY DEF Proxies!Read, Proxies!None
<1>2. /\ load' \in [Proxies!Loads -> Stages] /\ load'[r] = "fetch"
      /\ \A q \in Proxies!Loads \ {r} : load'[q] = load[q] /\ load[q] \in {"idle", "done"}
      /\ r \in Proxies!Loading' /\ OneLoad'
  BY <1>0, <1>1, StageMoves DEF Stages
<1>3. /\ want' \in [Proxies!Loads -> [Names -> {"none", "stdio", "http"}]] /\ want'[r] = rows
      /\ todo' \in [Proxies!Loads -> SUBSET Names]
  BY <1>0, <1>1 DEF LoadTypes
<1>4. LoadTypes'
  BY <1>0, <1>1, <1>2, <1>3 DEF LoadTypes
<1>5. Unfetched' /\ Rows'
  BY <1>0, <1>1, <1>2, <1>3 DEF Unfetched, Rows
<1>6. \A q \in Proxies!Loads : Serving(q)'
  BY <1>0, <1>1, <1>2 DEF Serving
<1> QED
  BY <1>2, <1>4, <1>5, <1>6 DEF LoadInv, Proxies!TablesAgree

\* The load makes a proxy of each wanted row and starts its subprocess.
LEMMA FetchStep ==
    ASSUME LoadInv, PipeInv, NEW r \in Proxies!Loads, NEW n \in Names, Proxies!Fetch(r, n)
    PROVE  LoadInv' /\ PipeInv'
<1> DEFINE p == <<r, n>>
<1>0. LoadTypes /\ OneLoad /\ Unfetched /\ Rows /\ \A q \in Proxies!Loads : Serving(q)
  BY DEF LoadInv
<1>1. /\ UNCHANGED <<rows, load, want, old, table, service, holder, asked, answers, call>>
      /\ load[r] = "fetch" /\ n \in todo[r] /\ todo' = [todo EXCEPT ![r] = @ \ {n}]
      /\ proc' = proc \/ proc' = [proc EXCEPT ![p] = "up"]
  BY DEF Proxies!Fetch, Proxies!StdioHandshake, Proxies!HTTPHandshake, Proxies!callVars
<1>2. p \in Proxies!Proxies /\ proc[p] = "none"
  BY <1>0, <1>1, ProxyPairs DEF Unfetched
<1>3. PipeInv'
  BY <1>1, <1>2, ProcessStep, PipeKept
<1>4. /\ todo' \in [Proxies!Loads -> SUBSET Names] /\ todo'[r] = todo[r] \ {n}
      /\ \A q \in Proxies!Loads \ {r} : todo'[q] = todo[q]
  BY <1>0, <1>1 DEF LoadTypes
<1>5. \A q \in Proxies!Proxies : q # p => proc'[q] = proc[q]
  BY <1>1 DEF PipeInv, PipeTypes
<1>6. \A q \in Proxies!Loads, m \in Names : <<q, m>> \in Proxies!Proxies /\ (<<q, m>> = p => q = r /\ m = n)
  BY ProxyPairs
<1>7. Unfetched'
  BY <1>0, <1>1, <1>4, <1>5, <1>6 DEF Unfetched
<1>8. LoadTypes' /\ OneLoad' /\ Rows'
  BY <1>0, <1>1, <1>4 DEF LoadTypes, OneLoad, Rows, Proxies!Loading
<1>9. \A q \in Proxies!Loads \ {r} : load[q] \in {"idle", "done"}
  BY <1>0, <1>1 DEF OneLoad, Proxies!Loading
<1>10. (\A q \in Proxies!Loads : Serving(q)') /\ r \in Proxies!Loading'
  BY <1>0, <1>1, <1>9 DEF Serving, Proxies!Loading
<1> QED
  BY <1>3, <1>7, <1>8, <1>10 DEF LoadInv, Proxies!TablesAgree

\* The load swaps the table under the lock.
LEMMA SwapStep ==
    ASSUME LoadInv, NEW r \in Proxies!Loads, Proxies!Fetched(r) \/ Proxies!Swap(r)
    PROVE  LoadInv'
<1>0. LoadTypes /\ OneLoad /\ Unfetched /\ Rows /\ \A q \in Proxies!Loads : Serving(q)
  BY DEF LoadInv
<1>1. CASE Proxies!Fetched(r)
  <2>1. /\ UNCHANGED <<rows, want, todo, old, table, service, proc>> /\ load[r] = "fetch"
        /\ load' = [load EXCEPT ![r] = "swap"]
    BY <1>1 DEF Proxies!Fetched
  <2>2. /\ load' \in [Proxies!Loads -> Stages] /\ load'[r] = "swap"
        /\ \A q \in Proxies!Loads \ {r} : load'[q] = load[q] /\ load[q] \in {"idle", "done"}
        /\ r \in Proxies!Loading' /\ OneLoad'
    BY <1>0, <2>1, StageMoves DEF Stages
  <2>3. LoadTypes' /\ Unfetched' /\ Rows'
    BY <1>0, <2>1, <2>2 DEF LoadTypes, Unfetched, Rows
  <2>4. \A q \in Proxies!Loads : Serving(q)'
    BY <1>0, <2>1, <2>2 DEF Serving
  <2> QED
    BY <2>2, <2>3, <2>4 DEF LoadInv, Proxies!TablesAgree
<1>2. CASE Proxies!Swap(r)
  <2>1. /\ UNCHANGED <<rows, want, service, proc>> /\ load[r] = "swap"
        /\ load' = [load EXCEPT ![r] = "register"] /\ old' = [old EXCEPT ![r] = table]
        /\ table' = [n \in Names |-> IF n \in Proxies!Wanted(r) THEN <<r, n>> ELSE Proxies!NoProxy]
        /\ todo' = [todo EXCEPT ![r] = Proxies!Wanted(r)]
    BY <1>2 DEF Proxies!Swap
  <2>2. /\ load' \in [Proxies!Loads -> Stages] /\ load'[r] = "register"
        /\ \A q \in Proxies!Loads \ {r} : load'[q] = load[q] /\ load[q] \in {"idle", "done"}
        /\ r \in Proxies!Loading' /\ OneLoad'
    BY <1>0, <2>1, StageMoves DEF Stages
  <2>3. /\ old' \in [Proxies!Loads -> [Names -> Proxies!Proxies \union {Proxies!NoProxy}]] /\ old'[r] = table
        /\ todo' \in [Proxies!Loads -> SUBSET Names] /\ todo'[r] = Proxies!Wanted(r)
        /\ table' \in [Names -> Proxies!Proxies \union {Proxies!NoProxy}]
    BY <1>0, <2>1, ProxyPairs DEF LoadTypes, Proxies!Wanted
  <2>4. LoadTypes'
    BY <1>0, <2>1, <2>2, <2>3 DEF LoadTypes
  <2>5. Unfetched' /\ Rows'
    BY <1>0, <2>1, <2>2 DEF Unfetched, Rows
  <2>6. Proxies!Wanted(r)' = Proxies!Wanted(r)
    BY <2>1 DEF Proxies!Wanted
  <2>7. Serving(r)'
    BY <1>0, <2>1, <2>2, <2>3, <2>6 DEF Serving, Swapped
  <2>8. \A q \in Proxies!Loads \ {r} : Serving(q)'
    BY <2>2 DEF Serving
  <2> QED
    BY <2>2, <2>4, <2>5, <2>7, <2>8 DEF LoadInv, Proxies!TablesAgree
<1> QED
  BY <1>1, <1>2

\* The load registers the services of the new table.
LEMMA RegisterStep ==
    ASSUME LoadInv, NEW r \in Proxies!Loads,
           Proxies!Registered(r) \/ \E n \in Names : Proxies!RegisterService(r, n)
    PROVE  LoadInv'
<1>0. LoadTypes /\ OneLoad /\ Unfetched /\ Rows /\ \A q \in Proxies!Loads : Serving(q)
  BY DEF LoadInv
<1>1. CASE \E n \in Names : Proxies!RegisterService(r, n)
  <2>1. PICK n \in Names :
            /\ UNCHANGED <<rows, load, want, old, table, proc>> /\ load[r] = "register" /\ n \in todo[r]
            /\ service' = [service EXCEPT ![n] = <<r, n>>] /\ todo' = [todo EXCEPT ![r] = @ \ {n}]
    BY <1>1 DEF Proxies!RegisterService
  <2>2. /\ service' \in [Names -> Proxies!Proxies \union {Proxies!NoProxy}] /\ service'[n] = <<r, n>>
        /\ \A m \in Names \ {n} : service'[m] = service[m]
    BY <1>0, <2>1, ProxyPairs DEF LoadTypes
  <2>3. /\ todo' \in [Proxies!Loads -> SUBSET Names] /\ todo'[r] = todo[r] \ {n}
    BY <1>0, <2>1 DEF LoadTypes
  <2>4. \A q \in Proxies!Loads \ {r} : load[q] \in {"idle", "done"}
    BY <1>0, <2>1 DEF OneLoad, Proxies!Loading
  <2>5. LoadTypes' /\ OneLoad' /\ Unfetched' /\ Rows' /\ r \in Proxies!Loading'
    <3>1. LoadTypes'
      BY <1>0, <2>1, <2>2, <2>3 DEF LoadTypes
    <3> QED
      BY <1>0, <2>1, <2>4, <3>1 DEF OneLoad, Unfetched, Rows, Proxies!Loading
  <2>6. Proxies!Wanted(r)' = Proxies!Wanted(r) /\ n \in Proxies!Wanted(r)
    BY <2>1, <1>0 DEF Proxies!Wanted, Serving
  <2>7. Serving(r)'
    BY <1>0, <2>1, <2>2, <2>3, <2>6 DEF Serving, Swapped
  <2>8. \A q \in Proxies!Loads \ {r} : Serving(q)'
    BY <2>1, <2>4 DEF Serving
  <2> QED
    BY <2>5, <2>7, <2>8 DEF LoadInv, Proxies!TablesAgree
<1>2. CASE Proxies!Registered(r)
  <2>1. /\ UNCHANGED <<rows, want, old, table, service, proc>> /\ load[r] = "register" /\ todo[r] = {}
        /\ load' = [load EXCEPT ![r] = "drop"]
        /\ todo' = [todo EXCEPT ![r] = {n \in Names : old[r][n] # Proxies!NoProxy} \ Proxies!Wanted(r)]
    BY <1>2 DEF Proxies!Registered
  <2>2. /\ load' \in [Proxies!Loads -> Stages] /\ load'[r] = "drop"
        /\ \A q \in Proxies!Loads \ {r} : load'[q] = load[q] /\ load[q] \in {"idle", "done"}
        /\ r \in Proxies!Loading' /\ OneLoad'
    BY <1>0, <2>1, StageMoves DEF Stages
  <2>3. /\ todo' \in [Proxies!Loads -> SUBSET Names]
        /\ todo'[r] = {n \in Names : old[r][n] # Proxies!NoProxy} \ Proxies!Wanted(r)
    BY <1>0, <2>1 DEF LoadTypes
  <2>4. LoadTypes' /\ Unfetched' /\ Rows'
    BY <1>0, <2>1, <2>2, <2>3 DEF LoadTypes, Unfetched, Rows
  <2>5. Proxies!Wanted(r)' = Proxies!Wanted(r)
    BY <2>1 DEF Proxies!Wanted
  <2>a. /\ Swapped(r)
        /\ \A n \in Names : service[n] = IF n \in Proxies!Wanted(r) THEN <<r, n>> ELSE old[r][n]
    BY <1>0, <2>1 DEF Serving
  <2>6. Serving(r)'
    <3>1. Swapped(r)'
      BY <2>1, <2>5, <2>a DEF Swapped
    <3>2. \A n \in Names : /\ n \in Proxies!Wanted(r) => n \notin todo'[r] /\ service[n] = <<r, n>>
                           /\ n \notin Proxies!Wanted(r) => \/ n \in todo'[r] /\ old[r][n] # Proxies!NoProxy
                                                            \/ service[n] = Proxies!NoProxy
      BY <2>3, <2>a
    <3> QED
      BY <2>1, <2>2, <2>5, <3>1, <3>2 DEF Serving
  <2>7. \A q \in Proxies!Loads \ {r} : Serving(q)'
    BY <2>2 DEF Serving
  <2> QED
    BY <2>2, <2>4, <2>6, <2>7 DEF LoadInv, Proxies!TablesAgree
<1> QED
  BY <1>1, <1>2

\* The load stops what the old table had.
LEMMA DropStep ==
    ASSUME LoadInv, PipeInv, NEW r \in Proxies!Loads, NEW n \in Names, Proxies!Drop(r, n)
    PROVE  LoadInv' /\ PipeInv'
<1>0. LoadTypes /\ OneLoad /\ Unfetched /\ Rows /\ \A q \in Proxies!Loads : Serving(q)
  BY DEF LoadInv
<1>p. PICK p : p = old[r][n]
  OBVIOUS
<1>1. /\ UNCHANGED <<rows, load, want, old, table, holder, asked, answers, call>> /\ load[r] = "drop" /\ n \in todo[r]
      /\ proc' = [proc EXCEPT ![p] = IF @ = "up" THEN "stopped" ELSE @]
      /\ service' = [service EXCEPT ![n] = Proxies!NoProxy] /\ todo' = [todo EXCEPT ![r] = @ \ {n}]
  BY <1>p DEF Proxies!Drop, Proxies!callVars
<1>2. n \notin Proxies!Wanted(r)
  BY <1>0, <1>1 DEF Serving
<1>3. proc' = proc \/ (p \in Proxies!Proxies /\ proc[p] = "up" /\ proc' = [proc EXCEPT ![p] = "stopped"])
  <2>1. proc \in [Proxies!Proxies -> {"none", "up", "died", "stopped", "cancelled"}]
    BY DEF PipeInv, PipeTypes
  <2>2. CASE p \in Proxies!Proxies /\ proc[p] = "up"
    BY <1>1, <2>2
  <2>3. CASE ~(p \in Proxies!Proxies /\ proc[p] = "up")
    <3>1. \A q \in Proxies!Proxies : proc'[q] = proc[q]
      BY <1>1, <2>1, <2>3
    <3>2. proc' = [q \in Proxies!Proxies |-> proc'[q]] /\ proc = [q \in Proxies!Proxies |-> proc[q]]
      BY <1>1, <2>1
    <3> QED
      BY <3>1, <3>2
  <2> QED
    BY <2>2, <2>3
<1>4. PipeInv'
  BY <1>1, <1>3, ProcessStep, PipeKept
<1>5. \A q \in Proxies!Proxies : proc[q] = "none" => proc'[q] = "none"
  BY <1>3 DEF PipeInv, PipeTypes
<1>6. /\ service' \in [Names -> Proxies!Proxies \union {Proxies!NoProxy}] /\ service'[n] = Proxies!NoProxy
      /\ \A m \in Names \ {n} : service'[m] = service[m]
      /\ todo' \in [Proxies!Loads -> SUBSET Names] /\ todo'[r] = todo[r] \ {n}
      /\ \A q \in Proxies!Loads \ {r} : todo'[q] = todo[q]
  BY <1>0, <1>1 DEF LoadTypes
<1>7. \A q \in Proxies!Loads \ {r} : load[q] \in {"idle", "done"}
  BY <1>0, <1>1 DEF OneLoad, Proxies!Loading
<1>8. LoadTypes' /\ OneLoad' /\ Rows' /\ r \in Proxies!Loading'
  <2>1. LoadTypes'
    BY <1>0, <1>1, <1>6 DEF LoadTypes
  <2> QED
    BY <1>0, <1>1, <2>1 DEF OneLoad, Rows, Proxies!Loading
<1>9. Unfetched'
  BY <1>0, <1>1, <1>5, <1>7, ProxyPairs DEF Unfetched
<1>10. Proxies!Wanted(r)' = Proxies!Wanted(r)
  BY <1>1 DEF Proxies!Wanted
<1>11. Serving(r)'
  BY <1>0, <1>1, <1>2, <1>6, <1>10 DEF Serving, Swapped
<1>12. \A q \in Proxies!Loads \ {r} : Serving(q)'
  BY <1>1, <1>7 DEF Serving
<1> QED
  BY <1>4, <1>8, <1>9, <1>11, <1>12 DEF LoadInv, Proxies!TablesAgree

\* The subprocesses of a load end, or list their tools.
LEMMA LoadedStep ==
    ASSUME LoadInv, NEW r \in Proxies!Loads, Proxies!Loaded(r)
    PROVE  LoadInv'
<1>0. LoadTypes /\ OneLoad /\ Unfetched /\ Rows /\ \A q \in Proxies!Loads : Serving(q)
  BY DEF LoadInv
<1>1. /\ UNCHANGED <<rows, want, todo, old, table, service, proc>> /\ load[r] = "drop" /\ todo[r] = {}
      /\ load' = [load EXCEPT ![r] = "done"]
  BY DEF Proxies!Loaded
<1>2. /\ load' \in [Proxies!Loads -> Stages] /\ load'[r] = "done"
      /\ \A q \in Proxies!Loads \ {r} : load'[q] = load[q] /\ load[q] \in {"idle", "done"}
      /\ OneLoad'
  BY <1>0, <1>1, StageMoves DEF Stages
<1>3. LoadTypes' /\ Unfetched' /\ Rows'
  BY <1>0, <1>1, <1>2 DEF LoadTypes, Unfetched, Rows
<1>4. \A q \in Proxies!Loads : Serving(q)'
  BY <1>2 DEF Serving
<1>5. want[r] = rows /\ Swapped(r) /\ \A n \in Names : service[n] = table[n]
  <2>1. /\ Swapped(r)
        /\ \A n \in Names : /\ n \in Proxies!Wanted(r) => service[n] = <<r, n>>
                            /\ n \notin Proxies!Wanted(r) => service[n] = Proxies!NoProxy
    BY <1>0, <1>1 DEF Serving
  <2> QED
    BY <1>0, <1>1, <2>1 DEF Rows, Swapped
<1>6. \A n \in Names : /\ n \in Proxies!Wanted(r) <=> rows[n] # "none"
                       /\ <<r, n>> # Proxies!NoProxy
  BY <1>5, ProxyPairs DEF Proxies!Wanted, Proxies!None
<1>7. \A n \in Names : /\ table[n] # Proxies!NoProxy <=> rows[n] # "none"
                       /\ table[n] # Proxies!NoProxy => table[n] = <<r, n>>
  BY <1>5, <1>6 DEF Swapped
<1>8. Proxies!TablesAgree'
  BY <1>1, <1>5, <1>7 DEF Proxies!TablesAgree, Proxies!Transport, Proxies!None
<1> QED
  BY <1>2, <1>3, <1>4, <1>8 DEF LoadInv

-----------------------------------------------------------------------------
ProxyInv == PipeInv /\ LoadInv

\* At the start there is no proxy, and one load runs.
LEMMA ProxyStart == Proxies!Init => ProxyInv
<1> SUFFICES ASSUME Proxies!Init PROVE ProxyInv
  OBVIOUS
<1> USE DEF Proxies!Init, Proxies!None
<1>1. /\ Proxies!Boot \in Proxies!Loads /\ load[Proxies!Boot] = "read"
      /\ \A r \in Proxies!Loads \ {Proxies!Boot} : load[r] = "idle"
  BY ServerAssumption DEF Proxies!Loads, Proxies!Boot
<1>2. \A c \in Calls : call[c].at = "idle" /\ call[c].got = "none"
  BY DEF Proxies!Idle
<1>3. PipeTypes
  BY DEF PipeTypes, Proxies!Idle, Places
<1>4. Holding /\ Pipes
  BY <1>2, ServerAssumption DEF Holding, Pipes, PipeOf
<1>5. LoadTypes
  BY DEF LoadTypes, Stages, Proxies!Empty
<1>6. OneLoad /\ Unfetched /\ Rows
  BY <1>1, ProxyPairs DEF OneLoad, Unfetched, Rows, Proxies!Loading
<1>7. (\A r \in Proxies!Loads : Serving(r)) /\ Proxies!TablesAgree
  BY <1>1 DEF Serving, Proxies!TablesAgree, Proxies!Loading
<1> QED
  BY <1>3, <1>4, <1>5, <1>6, <1>7 DEF ProxyInv, PipeInv, LoadInv

\* Every step of the proxies preserves their invariant.
LEMMA ProxyStep == ProxyInv /\ [Proxies!Next]_proxyVars => ProxyInv'
<1> SUFFICES ASSUME ProxyInv, [Proxies!Next]_proxyVars PROVE ProxyInv'
  OBVIOUS
<1>0. PipeInv /\ LoadInv
  BY DEF ProxyInv
<1>1. CASE UNCHANGED proxyVars
  BY <1>0, <1>1, PipeKept, LoadKept DEF proxyVars, ProxyInv
<1>2. ASSUME NEW r \in Proxies!Loads, NEW n \in Names, NEW t \in {"none", "stdio", "http"}, Proxies!Edit(r, n, t)
      PROVE  ProxyInv'
  BY <1>0, <1>2, EditStep, PipeKept DEF ProxyInv, Proxies!Edit, Proxies!callVars
<1>3. ASSUME NEW r \in Proxies!Loads, Proxies!LoadStep(r) PROVE ProxyInv'
  <2>1. CASE Proxies!Read(r) \/ Proxies!Fetched(r) \/ Proxies!Swap(r) \/ Proxies!Registered(r) \/ Proxies!Loaded(r)
    <3>1. LoadInv'
      BY <1>0, <2>1, ReadRowsStep, SwapStep, RegisterStep, LoadedStep
    <3>2. UNCHANGED <<proc, holder, asked, answers, call>>
      BY <2>1 DEF Proxies!Read, Proxies!Fetched, Proxies!Swap, Proxies!Registered, Proxies!Loaded, Proxies!callVars
    <3> QED
      BY <1>0, <3>1, <3>2, PipeKept DEF ProxyInv
  <2>2. ASSUME NEW n \in Names, Proxies!RegisterService(r, n) PROVE ProxyInv'
    <3>1. UNCHANGED <<proc, holder, asked, answers, call>>
      BY <2>2 DEF Proxies!RegisterService, Proxies!callVars
    <3> QED
      BY <1>0, <2>2, <3>1, RegisterStep, PipeKept DEF ProxyInv
  <2>3. ASSUME NEW n \in Names, Proxies!Fetch(r, n) \/ Proxies!Drop(r, n) PROVE ProxyInv'
    BY <1>0, <2>3, FetchStep, DropStep DEF ProxyInv
  <2> QED
    BY <1>3, <2>1, <2>2, <2>3 DEF Proxies!LoadStep
<1>4. ASSUME NEW p \in Proxies!Proxies, Proxies!RequestEnds(p) \/ Proxies!Dies(p) PROVE ProxyInv'
  <2>1. PICK how \in {"cancelled", "died"} : proc[p] = "up" /\ proc' = [proc EXCEPT ![p] = how]
    BY <1>4 DEF Proxies!RequestEnds, Proxies!Dies
  <2>2. UNCHANGED <<rows, load, want, todo, old, table, service, holder, asked, answers, call>>
    BY <1>4 DEF Proxies!RequestEnds, Proxies!Dies, Proxies!loadVars, Proxies!callVars
  <2>3. \A q \in Proxies!Proxies : proc[q] = "none" => proc'[q] = "none"
    BY <2>1
  <2> QED
    BY <1>0, <2>1, <2>2, <2>3, ProcessStep, LoadKept DEF ProxyInv
<1>5. ASSUME NEW p \in Proxies!Proxies, Proxies!Answers(p) PROVE ProxyInv'
  <2>1. UNCHANGED <<rows, load, want, todo, old, table, service, proc>>
    BY <1>5 DEF Proxies!Answers, Proxies!loadVars
  <2> QED
    BY <1>0, <1>5, <2>1, AnswersStep, LoadKept DEF ProxyInv
<1>6. ASSUME NEW c \in Calls, Proxies!CallStep(c) \/ \E n \in Names : Proxies!Post(c, n) PROVE ProxyInv'
  <2>1. UNCHANGED <<rows, load, want, todo, old, table, service, proc>>
    BY <1>6 DEF Proxies!CallStep, Proxies!Post, Proxies!GetProxy, Proxies!LockProxy, Proxies!CallStdio,
                Proxies!ReadLine, Proxies!ReadFails, Proxies!CallHTTP, Proxies!loadVars
  <2>2. table \in [Names -> Proxies!Proxies \union {Proxies!NoProxy}]
    BY <1>0 DEF LoadInv, LoadTypes
  <2>3. PipeInv'
    BY <1>0, <1>6, <2>2, RouteStep, LockStep, StdioStep, ReadStep DEF Proxies!CallStep
  <2> QED
    BY <1>0, <2>1, <2>3, LoadKept DEF ProxyInv
<1>7. ASSUME (\E n \in Names : Proxies!ListTools(n)) \/ Proxies!ToolsListed PROVE ProxyInv'
  <2>1. UNCHANGED <<rows, load, want, todo, old, table, service, proc, holder, asked, answers, call>>
    BY <1>7 DEF Proxies!ListTools, Proxies!ToolsListed, Proxies!loadVars, Proxies!callVars
  <2> QED
    BY <1>0, <2>1, PipeKept, LoadKept DEF ProxyInv
<1> QED
  BY <1>1, <1>2, <1>3, <1>4, <1>5, <1>6, <1>7 DEF Proxies!Next, Proxies!None

\* What the runs check of the proxies follows from their invariant.
LEMMA ProxySound == ProxyInv => Proxies!ProxiesSound
  BY DEF ProxyInv, PipeInv, Holding, LoadInv, Proxies!ProxiesSound, Proxies!OwnAnswers

-----------------------------------------------------------------------------
(* IMChannels: what a save or a message on its way may have left undone.      *)

RowType == [on : BOOLEAN, cred : Creds \union {"none"},
            chat : Messages \union {"none"}, hook : Messages \union {"none"}]
ConnType == [cred : Creds \union {"none"}, live : BOOLEAN, default : Messages \union {"none"}, chats : SUBSET Messages]
PushType == [at : {"idle", "chat", "read", "write", "run", "replied", "lost", "done"},
             on : 0..MaxChannels, saw : RowType \union {"none"}]
SaveType == [at : {"idle", "row", "connect", "done"}, on : BOOLEAN, cred : Creds \union {"none"}]

ChannelTypes ==
    /\ made \in 0..MaxChannels /\ conns \in 0..made
    /\ row \in RowType /\ conn \in [Channels!Conns -> ConnType]
    /\ push \in [Channels!Pushes -> PushType] /\ save \in [Saves -> SaveType]
    /\ runs \in [Messages -> Nat] /\ up \in BOOLEAN /\ overlapped \in BOOLEAN

OneLive == \A k \in Channels!Conns : conn[k].live <=> k = conns

Down == ~up => /\ conns = 0
               /\ \A s \in Saves : save[s].at \in {"idle", "done"}
               /\ \A d \in Channels!Pushes : push[d].at \in {"idle", "done"}

Apart == ~overlapped =>
    /\ \A s, t \in Saves : save[s].at \in {"row", "connect"} /\ save[t].at \in {"row", "connect"} => s = t
    /\ (\E s \in Saves : save[s].at \in {"row", "connect"}) => \A d \in Channels!Pushes : push[d].at # "write"

SawRow == ~overlapped =>
    \A d \in Channels!Pushes : push[d].at = "write" => push[d].saw.on = row.on /\ push[d].saw.cred = row.cred

SawType == \A d \in Channels!Pushes : push[d].at = "write" => push[d].saw \in RowType

Follows == up /\ ~overlapped =>
    /\ \A s \in Saves : save[s].at = "connect" => row.on = save[s].on /\ row.cred = save[s].cred
    /\ (\A s \in Saves : save[s].at # "connect") =>
           /\ conns # 0 <=> row.on /\ row.cred # "none"
           /\ conns # 0 => conn[conns].cred = row.cred

Once == provider = "dingtalk" => \A m \in Messages :
    /\ runs[m] <= 1
    /\ m \notin seen => runs[m] = 0
    /\ \A i \in {1, 2} : push[<<m, i>>].at = "chat" =>
           m \in seen /\ runs[m] = 0 /\ \A j \in {1, 2} : push[<<m, j>>].at = "chat" => i = j

Known == \A d \in Channels!Pushes :
    /\ push[d].at \in {"chat", "read", "write", "run"} => push[d].on \in 1..made
    /\ push[d].at \in {"read", "write", "run"} => d[1] \in conn[push[d].on].chats

Hooked == provider = "dingtalk" => row.hook = row.chat

Defaults == \A k \in Channels!Conns :
    provider = "dingtalk" /\ conn[k].default # "none" => conn[k].default \in conn[k].chats

Persisted ==
    ~overlapped /\ conns # 0 /\ conn[conns].default # "none" /\ (\A s \in Saves : save[s].at # "connect") =>
        row.chat # "none" \/ \E d \in Channels!Pushes : push[d].at \in {"read", "write"}

ChannelInv == /\ ChannelTypes /\ OneLive /\ Down /\ Apart /\ SawRow /\ SawType /\ Follows
              /\ Once /\ Known /\ Hooked /\ Defaults /\ Persisted

\* The conjuncts of ChannelInv, by name.
LEMMA ChannelParts ==
    ChannelInv => /\ ChannelTypes /\ OneLive /\ Down /\ Apart /\ SawRow /\ SawType /\ Follows
                  /\ Once /\ Known /\ Hooked /\ Defaults /\ Persisted
  BY DEF ChannelInv

\* How connections are numbered.
LEMMA ConnNumbers ==
    ASSUME ChannelTypes
    PROVE  /\ made \in Nat /\ conns \in Nat /\ conns <= made
           /\ conns # 0 => conns \in Channels!Conns
           /\ \A k \in 1..made : k \in Channels!Conns
           /\ 0 \notin Channels!Conns
           /\ made < MaxChannels => made + 1 \in Channels!Conns /\ made + 1 \in 1..(made + 1) /\ made + 1 # 0 /\ made + 1 # conns
           /\ \A k \in 1..made : k # made + 1 /\ k \in 1..(made + 1)
  BY ServerAssumption DEF ChannelTypes, Channels!Conns

\* AddUser and RemoveUser, pointwise.
LEMMA AddUserStep ==
    ASSUME ChannelTypes, OneLive, NEW cred \in Creds \union {"none"}, NEW chat \in Messages \union {"none"},
           NEW chats \in SUBSET Messages, Channels!AddUser(cred, chat, chats)
    PROVE  /\ made' = made + 1 /\ conns' = made + 1 /\ made' \in 0..MaxChannels /\ conns' \in 0..made'
           /\ conn' \in [Channels!Conns -> ConnType] /\ OneLive'
           /\ conns' \in Channels!Conns /\ conns' # 0
           /\ conn'[conns'] = [cred |-> cred, live |-> TRUE, default |-> chat, chats |-> chats]
           /\ \A j \in Channels!Conns : j # conns' =>
                  conn'[j].default = conn[j].default /\ conn'[j].chats = conn[j].chats
           /\ \A j \in 1..made : j # conns'
<1> DEFINE k == made + 1
           new == [cred |-> cred, live |-> TRUE, default |-> chat, chats |-> chats]
<1>1. /\ made < MaxChannels /\ made' = k /\ conns' = k
      /\ conn' = [j \in Channels!Conns |->
             IF j = k THEN new
             ELSE IF j = conns THEN [conn[j] EXCEPT !.live = FALSE] ELSE conn[j]]
  BY DEF Channels!AddUser
<1>2. k \in Channels!Conns /\ k # 0 /\ k # conns /\ made \in Nat /\ \A j \in 1..made : j # k
  BY <1>1, ConnNumbers
<1>3. new \in ConnType
  BY DEF ConnType
<1>4. conn'[k] = new
  BY <1>1, <1>2
<1>5. \A j \in Channels!Conns : j # k =>
          /\ conn'[j] \in ConnType /\ conn'[j].live = FALSE
          /\ conn'[j].default = conn[j].default /\ conn'[j].chats = conn[j].chats
  <2> TAKE j \in Channels!Conns
  <2> SUFFICES ASSUME j # k
               PROVE  /\ conn'[j] \in ConnType /\ conn'[j].live = FALSE
                      /\ conn'[j].default = conn[j].default /\ conn'[j].chats = conn[j].chats
    OBVIOUS
  <2>1. conn[j] \in ConnType /\ (conn[j].live <=> j = conns)
    BY DEF ChannelTypes, OneLive
  <2>2. CASE j = conns
    <3>1. conn'[j] = [conn[j] EXCEPT !.live = FALSE]
      BY <1>1, <2>2
    <3> QED
      BY <2>1, <3>1 DEF ConnType
  <2>3. CASE j # conns
    <3>1. conn'[j] = conn[j]
      BY <1>1, <2>3
    <3> QED
      BY <2>1, <2>3, <3>1 DEF ConnType
  <2> QED
    BY <2>2, <2>3
<1>6. conn' \in [Channels!Conns -> ConnType]
  BY <1>1, <1>3, <1>4, <1>5
<1>7. OneLive'
  BY <1>1, <1>4, <1>5 DEF OneLive
<1>8. made' \in 0..MaxChannels /\ conns' \in 0..made'
  BY <1>1, <1>2, ServerAssumption
<1>9. conn'[conns'] = new /\ conns' \in Channels!Conns /\ conns' # 0
  BY <1>1, <1>2, <1>4
<1>10. /\ \A j \in Channels!Conns : j # conns' =>
              conn'[j].default = conn[j].default /\ conn'[j].chats = conn[j].chats
       /\ \A j \in 1..made : j # conns'
  BY <1>1, <1>2, <1>5
<1> QED
  BY <1>1, <1>6, <1>7, <1>8, <1>9, <1>10

\* RemoveUser, pointwise: no live connection is left.
LEMMA RemoveUserStep ==
    ASSUME ChannelTypes, OneLive, Channels!RemoveUser
    PROVE  /\ conns' = 0 /\ made' = made
           /\ conn' \in [Channels!Conns -> ConnType] /\ OneLive'
           /\ \A j \in Channels!Conns :
                  conn'[j].default = conn[j].default /\ conn'[j].chats = conn[j].chats
<1>1. /\ made' = made /\ conns' = 0
      /\ conn' = [j \in Channels!Conns |-> IF j = conns THEN [conn[j] EXCEPT !.live = FALSE] ELSE conn[j]]
  BY DEF Channels!RemoveUser
<1>2. \A j \in Channels!Conns :
          /\ conn'[j] \in ConnType /\ conn'[j].live = FALSE
          /\ conn'[j].default = conn[j].default /\ conn'[j].chats = conn[j].chats
  <2> TAKE j \in Channels!Conns
  <2>1. conn[j] \in ConnType /\ (conn[j].live <=> j = conns)
    BY DEF ChannelTypes, OneLive
  <2>2. CASE j = conns
    <3>1. conn'[j] = [conn[j] EXCEPT !.live = FALSE]
      BY <1>1, <2>2
    <3> QED
      BY <2>1, <3>1 DEF ConnType
  <2>3. CASE j # conns
    <3>1. conn'[j] = conn[j]
      BY <1>1, <2>3
    <3> QED
      BY <2>1, <2>3, <3>1 DEF ConnType
  <2> QED
    BY <2>2, <2>3
<1>3. OneLive'
  BY <1>1, <1>2, ConnNumbers DEF OneLive
<1> QED
  BY <1>1, <1>2, <1>3

\* The server starts and connects a channel whose row is on.
LEMMA BootStep ==
    ASSUME ChannelInv, Channels!Boot, provider' = provider
    PROVE  ChannelInv'
<1>0. /\ ChannelTypes /\ OneLive /\ Down /\ Apart /\ SawRow /\ SawType /\ Follows
      /\ Once /\ Known /\ Hooked /\ Defaults /\ Persisted
  BY ChannelParts
<1>1. ~up /\ up' = TRUE /\ UNCHANGED <<row, crashes, seen, push, runs, save, overlapped>>
  BY DEF Channels!Boot
<1>2. /\ conns = 0 /\ \A s \in Saves : save[s].at \in {"idle", "done"}
      /\ \A d \in Channels!Pushes : push[d].at \in {"idle", "done"}
  BY <1>0, <1>1 DEF Down
<1>3. Down' /\ Apart' /\ SawRow' /\ SawType' /\ Once' /\ Hooked'
  BY <1>0, <1>1, <1>2 DEF Down, Apart, SawRow, SawType, Once, Hooked
<1>4. CASE Channels!Configured(row)
  <2>1. PICK cred \in Creds \union {"none"}, chat \in Messages \union {"none"}, chats \in SUBSET Messages :
            /\ cred = row.cred /\ chat = row.chat
            /\ provider = "dingtalk" /\ chat # "none" => chat \in chats
            /\ Channels!AddUser(cred, chat, chats)
    <3> DEFINE known == IF Channels!DingTalk /\ row.hook # "none" THEN {row.chat} ELSE {}
    <3>1. Channels!AddUser(row.cred, row.chat, known)
      BY <1>4 DEF Channels!Boot, Channels!None
    <3>2. row.cred \in Creds \union {"none"} /\ row.chat \in Messages \union {"none"}
      BY <1>0 DEF ChannelTypes, RowType
    <3>3. known \in SUBSET Messages /\ (provider = "dingtalk" /\ row.chat # "none" => row.chat \in known)
      BY <1>0, <3>2 DEF Hooked, Channels!DingTalk
    <3> HIDE DEF known
    <3> QED
      BY <3>1, <3>2, <3>3
  <2>2. /\ made' = made + 1 /\ conns' = made + 1 /\ made' \in 0..MaxChannels /\ conns' \in 0..made'
        /\ conn' \in [Channels!Conns -> ConnType] /\ OneLive'
        /\ conns' \in Channels!Conns /\ conns' # 0
        /\ conn'[conns'] = [cred |-> cred, live |-> TRUE, default |-> chat, chats |-> chats]
        /\ \A j \in Channels!Conns : j # conns' =>
               conn'[j].default = conn[j].default /\ conn'[j].chats = conn[j].chats
    BY <1>0, <2>1, AddUserStep
  <2>3. ChannelTypes'
    BY <1>0, <1>1, <2>2 DEF ChannelTypes
  <2>4. Known'
    BY <1>1, <1>2 DEF Known
  <2>5. Defaults'
    BY <1>0, <1>1, <2>1, <2>2 DEF Defaults
  <2>6. Follows'
    <3>1. conn'[conns'].cred = row.cred /\ row.on /\ row.cred # "none"
      BY <1>4, <2>1, <2>2 DEF Channels!Configured, Channels!None
    <3> QED
      BY <1>1, <1>2, <2>2, <3>1 DEF Follows
  <2>7. Persisted'
    BY <1>1, <2>1, <2>2 DEF Persisted
  <2> QED
    BY <1>3, <2>2, <2>3, <2>4, <2>5, <2>6, <2>7 DEF ChannelInv
<1>5. CASE ~Channels!Configured(row)
  <2>1. made' = made /\ conns' = conns /\ conn' = conn
    BY <1>5 DEF Channels!Boot
  <2>2. ChannelTypes' /\ OneLive' /\ Known' /\ Defaults' /\ Persisted'
    BY <1>0, <1>1, <2>1 DEF ChannelTypes, OneLive, Known, Defaults, Persisted
  <2>3. Follows'
    BY <1>1, <1>2, <1>5, <2>1 DEF Follows, Channels!Configured, Channels!None
  <2> QED
    BY <1>3, <2>2, <2>3 DEF ChannelInv
<1> QED
  BY <1>4, <1>5

\* A crash ends connections, saves and messages on their way.
LEMMA CrashStep ==
    ASSUME ChannelInv, Channels!Crash, provider' = provider
    PROVE  ChannelInv'
<1>0. /\ ChannelTypes /\ OneLive /\ Down /\ Apart /\ SawRow /\ SawType /\ Follows
      /\ Once /\ Known /\ Hooked /\ Defaults /\ Persisted
  BY ChannelParts
<1>1. /\ up' = FALSE /\ conns' = 0 /\ seen' = {} /\ runs' = [m \in Messages |-> 0] /\ row' = row /\ made' = made
      /\ overlapped' = overlapped
      /\ conn' = [k \in Channels!Conns |-> [conn[k] EXCEPT !.live = FALSE]]
      /\ push' = [d \in Channels!Pushes |-> IF push[d].at = "idle" THEN Channels!Idle
                                            ELSE [Channels!Idle EXCEPT !.at = "done"]]
      /\ save' = [s \in Saves |-> IF s \in Channels!Saving THEN [save[s] EXCEPT !.at = "done"] ELSE save[s]]
  BY DEF Channels!Crash
<1>2. \A k \in Channels!Conns : /\ conn'[k] \in ConnType /\ conn'[k].live = FALSE
                                /\ conn'[k].default = conn[k].default /\ conn'[k].chats = conn[k].chats
  BY <1>0, <1>1 DEF ChannelTypes, ConnType
<1>3. \A s \in Saves : save'[s] \in SaveType /\ save'[s].at \in {"idle", "done"}
  <2> TAKE s \in Saves
  <2>1. save[s] \in SaveType /\ (s \in Channels!Saving <=> save[s].at \in {"row", "connect"})
    BY <1>0 DEF ChannelTypes, Channels!Saving
  <2>2. CASE s \in Channels!Saving
    <3>1. save'[s] = [save[s] EXCEPT !.at = "done"]
      BY <1>1, <2>2
    <3> QED
      BY <2>1, <3>1 DEF SaveType
  <2>3. CASE s \notin Channels!Saving
    <3>1. save'[s] = save[s]
      BY <1>1, <2>3
    <3> QED
      BY <2>1, <2>3, <3>1 DEF SaveType
  <2> QED
    BY <2>2, <2>3
<1>4. \A d \in Channels!Pushes : push'[d] \in PushType /\ push'[d].at \in {"idle", "done"}
  BY <1>1, ServerAssumption DEF Channels!Idle, PushType, Channels!None
<1>5. /\ conn' \in [Channels!Conns -> ConnType] /\ save' \in [Saves -> SaveType]
      /\ push' \in [Channels!Pushes -> PushType] /\ runs' \in [Messages -> Nat]
      /\ \A m \in Messages : runs'[m] = 0
  BY <1>1, <1>2, <1>3, <1>4
<1>6. ChannelTypes'
  <2>1. conns' \in 0..made'
    BY <1>0, <1>1, ConnNumbers
  <2> QED
    BY <1>0, <1>1, <1>5, <2>1 DEF ChannelTypes
<1>7. OneLive' /\ Down' /\ Apart' /\ Follows'
  BY <1>0, <1>1, <1>2, <1>3, <1>4, ConnNumbers DEF OneLive, Down, Apart, Follows
<1>8. SawRow' /\ SawType' /\ Known'
  BY <1>4 DEF SawRow, SawType, Known
<1>9. Once'
  <2>1. \A m \in Messages, i \in {1, 2} : <<m, i>> \in Channels!Pushes
    BY DEF Channels!Pushes
  <2>2. \A m \in Messages, i \in {1, 2} : push'[<<m, i>>].at # "chat"
    BY <1>4, <2>1
  <2>3. \A m \in Messages : runs'[m] = 0 /\ runs'[m] <= 1
    BY <1>5
  <2> QED
    BY <2>2, <2>3 DEF Once
<1>10. Hooked' /\ Defaults' /\ Persisted'
  BY <1>0, <1>1, <1>2 DEF Hooked, Defaults, Persisted
<1> QED
  BY <1>6, <1>7, <1>8, <1>9, <1>10 DEF ChannelInv

\* A save or a connect-all begins.
LEMMA SaveStarts ==
    ASSUME ChannelInv, NEW s \in Saves, NEW on \in {"on", "off", "kept"}, NEW cred \in Creds \union {"none"},
           Channels!Save(s, on, cred), provider' = provider
    PROVE  ChannelInv'
<1>0. /\ ChannelTypes /\ OneLive /\ Down /\ Apart /\ SawRow /\ SawType /\ Follows
      /\ Once /\ Known /\ Hooked /\ Defaults /\ Persisted
  BY ChannelParts
<1>1. /\ up = TRUE /\ UNCHANGED <<row, up, crashes, made, conns, conn, seen, push, runs>> /\ save[s].at = "idle"
      /\ overlapped' = (overlapped \/ Channels!Saving # {} \/ Channels!Rewriting # {})
  BY <1>0 DEF Channels!Save, ChannelTypes
<1>2. /\ save' \in [Saves -> SaveType] /\ save'[s].at = "row" /\ \A t \in Saves \ {s} : save'[t] = save[t]
  <2>1. PICK new \in SaveType : new.at = "row" /\ save' = [save EXCEPT ![s] = new]
    <3> DEFINE new == [at |-> "row", cred |-> cred, on |-> IF on = "kept" THEN row.on ELSE on = "on"]
    <3>1. save' = [save EXCEPT ![s] = new]
      BY DEF Channels!Save
    <3>2. (IF on = "kept" THEN row.on ELSE on = "on") \in BOOLEAN
      BY <1>0 DEF ChannelTypes, RowType
    <3>3. new \in SaveType /\ new.at = "row"
      BY <3>2 DEF SaveType
    <3> HIDE DEF new
    <3> QED
      BY <3>1, <3>3
  <2> QED
    BY <1>0, <2>1 DEF ChannelTypes
<1>3. overlapped' \in BOOLEAN /\ (~overlapped' =>
          /\ ~overlapped
          /\ \A t \in Saves : save[t].at \notin {"row", "connect"}
          /\ \A d \in Channels!Pushes : push[d].at # "write")
  BY <1>0, <1>1 DEF Channels!Saving, Channels!Rewriting, ChannelTypes
<1>4. ChannelTypes' /\ OneLive' /\ Down' /\ Apart' /\ SawRow' /\ SawType'
  <2>1. ChannelTypes'
    BY <1>0, <1>1, <1>2, <1>3 DEF ChannelTypes
  <2>2. OneLive' /\ Down' /\ SawRow' /\ SawType'
    BY <1>0, <1>1, <1>2, <1>3 DEF OneLive, Down, SawRow, SawType
  <2>3. Apart'
    BY <1>1, <1>2, <1>3 DEF Apart
  <2> QED
    BY <2>1, <2>2, <2>3
<1>5. Follows'
  BY <1>0, <1>1, <1>2, <1>3 DEF Follows
<1>6. Once' /\ Known' /\ Hooked' /\ Defaults'
  BY <1>0, <1>1 DEF Once, Known, Hooked, Defaults
<1>7. Persisted'
  BY <1>0, <1>1, <1>2, <1>3 DEF Persisted
<1> QED
  BY <1>4, <1>5, <1>6, <1>7 DEF ChannelInv

\* A step of a save that goes on or ends.
LEMMA SaveMoves ==
    ASSUME ChannelTypes, NEW s \in Saves, NEW where \in {"connect", "done"},
           save' = [save EXCEPT ![s].at = where]
    PROVE  /\ save' \in [Saves -> SaveType] /\ save'[s].at = where
           /\ save'[s].on = save[s].on /\ save'[s].cred = save[s].cred
           /\ \A t \in Saves \ {s} : save'[t] = save[t]
<1>1. save' = [save EXCEPT ![s] = [save[s] EXCEPT !.at = where]]
  OBVIOUS
<1> QED
  BY <1>1 DEF ChannelTypes, SaveType

\* A save writes its row.
LEMMA UpsertStep ==
    ASSUME ChannelInv, NEW s \in Saves, Channels!Upsert(s), provider' = provider
    PROVE  ChannelInv'
<1>0. /\ ChannelTypes /\ OneLive /\ Down /\ Apart /\ SawRow /\ SawType /\ Follows
      /\ Once /\ Known /\ Hooked /\ Defaults /\ Persisted
  BY ChannelParts
<1>1. /\ UNCHANGED <<up, made, conns, conn, seen, push, runs, overlapped>> /\ save[s].at = "row"
      /\ \/ /\ row' = [on |-> save[s].on, cred |-> save[s].cred, chat |-> "none", hook |-> "none"]
            /\ save' = [save EXCEPT ![s].at = "connect"]
         \/ row' = row /\ save' = [save EXCEPT ![s].at = "done"]
  BY DEF Channels!Upsert, Channels!None
<1>2. PICK where \in {"connect", "done"} :
          /\ save' = [save EXCEPT ![s].at = where]
          /\ where = "connect" =>
                 row' = [on |-> save[s].on, cred |-> save[s].cred, chat |-> "none", hook |-> "none"]
          /\ where = "done" => row' = row
  BY <1>1
<1>3. /\ save' \in [Saves -> SaveType] /\ save'[s].at = where
      /\ save'[s].on = save[s].on /\ save'[s].cred = save[s].cred
      /\ \A t \in Saves \ {s} : save'[t] = save[t]
  BY <1>0, <1>2, SaveMoves
<1>4. row' \in RowType
  BY <1>0, <1>2 DEF ChannelTypes, SaveType, RowType
<1>5. ChannelTypes'
  BY <1>0, <1>1, <1>3, <1>4 DEF ChannelTypes
<1>6. up = TRUE
  BY <1>0, <1>1 DEF Down, ChannelTypes
<1>7. OneLive' /\ Down' /\ SawType' /\ Once' /\ Known' /\ Defaults'
  BY <1>0, <1>1, <1>6 DEF OneLive, Down, SawType, Once, Known, Defaults
<1>8. Apart'
  BY <1>0, <1>1, <1>3 DEF Apart
<1>9. SawRow'
  BY <1>0, <1>1 DEF SawRow, Apart
\* Without another save, nobody else is between the row and the connection.
<1>10. ~overlapped => \A t \in Saves \ {s} : save[t].at \notin {"row", "connect"}
  BY <1>0, <1>1 DEF Apart
<1>11. Follows'
  <2>1. CASE where = "connect"
    <3>1. row'.on = save[s].on /\ row'.cred = save[s].cred
      BY <1>2, <2>1
    <3> QED
      BY <1>1, <1>3, <1>10, <2>1, <3>1 DEF Follows
  <2>2. CASE where = "done"
    BY <1>0, <1>1, <1>2, <1>3, <1>10, <2>2 DEF Follows
  <2> QED
    BY <2>1, <2>2
<1>12. Hooked'
  BY <1>0, <1>2 DEF Hooked
<1>13. Persisted'
  <2>1. CASE where = "connect"
    BY <1>3, <2>1 DEF Persisted
  <2>2. CASE where = "done"
    BY <1>0, <1>1, <1>2, <1>3, <1>10, <2>2 DEF Persisted
  <2> QED
    BY <2>1, <2>2
<1> QED
  BY <1>5, <1>7, <1>8, <1>9, <1>11, <1>12, <1>13 DEF ChannelInv

\* A save connects, or disconnects, the channel.
LEMMA ConnectStep ==
    ASSUME ChannelInv, NEW s \in Saves, Channels!Connect(s), provider' = provider
    PROVE  ChannelInv'
<1>0. /\ ChannelTypes /\ OneLive /\ Down /\ Apart /\ SawRow /\ SawType /\ Follows
      /\ Once /\ Known /\ Hooked /\ Defaults /\ Persisted
  BY ChannelParts
<1>1. /\ UNCHANGED <<row, up, seen, push, runs, overlapped>> /\ save[s].at = "connect"
      /\ save' = [save EXCEPT ![s].at = "done"]
  BY DEF Channels!Connect
<1>2. /\ save' \in [Saves -> SaveType] /\ save'[s].at = "done"
      /\ \A t \in Saves \ {s} : save'[t] = save[t]
  BY <1>0, <1>1, SaveMoves
<1>3. up = TRUE
  BY <1>0, <1>1 DEF Down, ChannelTypes
<1>4. ~overlapped => /\ row.on = save[s].on /\ row.cred = save[s].cred
                     /\ \A t \in Saves \ {s} : save[t].at \notin {"row", "connect"}
  BY <1>0, <1>1, <1>3 DEF Apart, Follows
<1>5. Down' /\ Apart' /\ SawRow' /\ SawType' /\ Once' /\ Hooked'
  BY <1>0, <1>1, <1>2, <1>3 DEF Down, Apart, SawRow, SawType, Once, Hooked
<1>6. CASE Channels!Configured(save[s])
  <2>1. PICK cred \in Creds \union {"none"} : cred = save[s].cred
    BY <1>0 DEF ChannelTypes, SaveType
  <2>2. Channels!AddUser(cred, "none", {})
    BY <1>6, <2>1 DEF Channels!Connect, Channels!None
  <2>3. /\ made' = made + 1 /\ conns' = made + 1 /\ made' \in 0..MaxChannels /\ conns' \in 0..made'
        /\ conn' \in [Channels!Conns -> ConnType] /\ OneLive'
        /\ conns' \in Channels!Conns /\ conns' # 0
        /\ conn'[conns'] = [cred |-> cred, live |-> TRUE, default |-> "none", chats |-> {}]
        /\ \A j \in Channels!Conns : j # conns' =>
               conn'[j].default = conn[j].default /\ conn'[j].chats = conn[j].chats
        /\ \A j \in 1..made : j # conns'
    BY <1>0, <2>2, AddUserStep
  <2>4. ChannelTypes'
    BY <1>0, <1>1, <1>2, <2>3 DEF ChannelTypes
  <2>5. Known'
    <3>1. \A k \in 1..made : k \in 1..made' /\ k \in Channels!Conns /\ k # conns'
      BY <1>0, <2>3, ConnNumbers
    <3> QED
      BY <1>0, <1>1, <2>3, <3>1 DEF Known
  <2>6. Defaults'
    BY <1>0, <1>1, <2>3 DEF Defaults
  <2>7. Follows'
    <3>1. save[s].on /\ save[s].cred # "none" /\ conn'[conns'].cred = save[s].cred
      BY <1>6, <2>1, <2>3 DEF Channels!Configured, Channels!None
    <3> QED
      BY <1>1, <1>2, <1>4, <2>3, <3>1 DEF Follows
  <2>8. Persisted'
    BY <2>3 DEF Persisted
  <2> QED
    BY <1>5, <2>3, <2>4, <2>5, <2>6, <2>7, <2>8 DEF ChannelInv
<1>7. CASE ~Channels!Configured(save[s])
  <2>1. Channels!RemoveUser
    BY <1>7 DEF Channels!Connect
  <2>2. /\ conns' = 0 /\ made' = made
        /\ conn' \in [Channels!Conns -> ConnType] /\ OneLive'
        /\ \A j \in Channels!Conns :
               conn'[j].default = conn[j].default /\ conn'[j].chats = conn[j].chats
    BY <1>0, <2>1, RemoveUserStep
  <2>3. ChannelTypes'
    <3>1. conns' \in 0..made'
      BY <1>0, <2>2, ConnNumbers
    <3> QED
      BY <1>0, <1>1, <1>2, <2>2, <3>1 DEF ChannelTypes
  <2>4. Known' /\ Defaults'
    BY <1>0, <1>1, <2>2, ConnNumbers DEF Known, Defaults
  <2>5. Follows'
    BY <1>1, <1>2, <1>4, <1>7, <2>2 DEF Follows, Channels!Configured, Channels!None
  <2>6. Persisted'
    BY <2>2 DEF Persisted
  <2> QED
    BY <1>5, <2>2, <2>3, <2>4, <2>5, <2>6 DEF ChannelInv
<1> QED
  BY <1>6, <1>7

\* A push is of a message.
LEMMA PushMessages ==
    /\ \A d \in Channels!Pushes : d[1] \in Messages /\ d[2] \in {1, 2} /\ d = <<d[1], d[2]>>
    /\ \A m \in Messages, i \in {1, 2} : <<m, i>> \in Channels!Pushes
  BY DEF Channels!Pushes

\* What a step of a push may do to it.
LEMMA PushMoves ==
    ASSUME ChannelTypes, NEW d \in Channels!Pushes, NEW new \in PushType, push' = [push EXCEPT ![d] = new]
    PROVE  /\ push' \in [Channels!Pushes -> PushType] /\ push'[d] = new
           /\ \A e \in Channels!Pushes : e # d => push'[e] = push[e]
  BY DEF ChannelTypes

\* A message arrives, perhaps for the second time.
LEMMA ReceiveStep ==
    ASSUME ChannelInv, NEW d \in Channels!Pushes, NEW k \in Channels!Conns, Channels!Receive(d, k), provider' = provider
    PROVE  ChannelInv'
<1>0. /\ ChannelTypes /\ OneLive /\ Down /\ Apart /\ SawRow /\ SawType /\ Follows
      /\ Once /\ Known /\ Hooked /\ Defaults /\ Persisted
  BY ChannelParts
<1>1. /\ UNCHANGED <<row, up, made, conns, conn, runs, save, overlapped>>
      /\ push[d].at = "idle" /\ conn[k].live
  BY DEF Channels!Receive
<1>2. k = conns /\ k \in 1..made /\ up = TRUE /\ k \in 0..MaxChannels
  BY <1>0, <1>1, ConnNumbers, ServerAssumption DEF OneLive, Down, ChannelTypes, Channels!Conns
<1>3. PICK new \in PushType :
          /\ push' = [push EXCEPT ![d] = new]
          /\ \/ new.at = "done" /\ seen' = seen
             \/ /\ new.at = "chat" /\ new.on = k /\ seen' = seen \union {d[1]}
                /\ provider = "dingtalk" => d[1] \notin seen
  <2>1. CASE Channels!DingTalk /\ d[1] \in seen
    <3> DEFINE new == [push[d] EXCEPT !.at = "done"]
    <3>1. push' = [push EXCEPT ![d] = new] /\ seen' = seen
      BY <2>1 DEF Channels!Receive
    <3>2. new \in PushType /\ new.at = "done"
      BY <1>0 DEF ChannelTypes, PushType
    <3> HIDE DEF new
    <3> QED
      BY <3>1, <3>2
  <2>2. CASE ~(Channels!DingTalk /\ d[1] \in seen)
    <3> DEFINE new == [[push[d] EXCEPT !.at = "chat"] EXCEPT !.on = k]
    <3>1. push' = [push EXCEPT ![d] = new] /\ seen' = seen \union {d[1]}
      BY <2>2 DEF Channels!Receive
    <3>2. new \in PushType /\ new.at = "chat" /\ new.on = k
      BY <1>0, <1>2 DEF ChannelTypes, PushType
    <3> HIDE DEF new
    <3> QED
      BY <2>2, <3>1, <3>2 DEF Channels!DingTalk
  <2> QED
    BY <2>1, <2>2
<1>4. /\ push' \in [Channels!Pushes -> PushType] /\ push'[d] = new
      /\ \A e \in Channels!Pushes : e # d => push'[e] = push[e]
  BY <1>0, <1>3, PushMoves
<1>5. ChannelTypes'
  BY <1>0, <1>1, <1>4 DEF ChannelTypes
<1>6. new.at \notin {"read", "write", "run"}
  BY <1>3
<1>7. OneLive' /\ Down' /\ Apart' /\ SawRow' /\ SawType' /\ Follows' /\ Hooked' /\ Defaults'
  <2>1. OneLive' /\ Down' /\ Follows' /\ Hooked' /\ Defaults'
    BY <1>0, <1>1, <1>2 DEF OneLive, Down, Follows, Hooked, Defaults
  <2>2. Apart' /\ SawRow' /\ SawType'
    BY <1>0, <1>1, <1>4, <1>6 DEF Apart, SawRow, SawType
  <2> QED
    BY <2>1, <2>2
<1>8. Known'
  <2>1. new.at = "chat" => new.on \in 1..made
    BY <1>2, <1>3
  <2> QED
    BY <1>0, <1>1, <1>4, <1>6, <2>1 DEF Known
<1>9. Persisted'
  BY <1>0, <1>1, <1>4, <1>6 DEF Persisted
<1>10. Once'
  <2> SUFFICES ASSUME provider = "dingtalk", NEW m \in Messages
               PROVE  /\ runs[m] <= 1
                      /\ m \notin seen' => runs[m] = 0
                      /\ \A i \in {1, 2} : push'[<<m, i>>].at = "chat" =>
                             m \in seen' /\ runs[m] = 0 /\ \A j \in {1, 2} : push'[<<m, j>>].at = "chat" => i = j
    BY <1>1 DEF Once
  <2>1. /\ runs[m] <= 1 /\ (m \notin seen => runs[m] = 0)
        /\ \A i \in {1, 2} : push[<<m, i>>].at = "chat" =>
               m \in seen /\ runs[m] = 0 /\ \A j \in {1, 2} : push[<<m, j>>].at = "chat" => i = j
    BY <1>0 DEF Once
  <2>2. \A i \in {1, 2} : /\ <<m, i>> \in Channels!Pushes
                          /\ <<m, i>> = d => m = d[1] /\ i = d[2]
    BY PushMessages
  <2>3. CASE new.at = "done" /\ seen' = seen
    BY <1>4, <2>1, <2>2, <2>3
  <2>4. CASE new.at = "chat" /\ seen' = seen \union {d[1]} /\ d[1] \notin seen
    <3>1. CASE m = d[1]
      <4>1. \A i \in {1, 2} : push[<<m, i>>].at # "chat" /\ runs[m] = 0 /\ m \in seen'
        BY <2>1, <2>4, <3>1
      <4>2. \A i \in {1, 2} : push'[<<m, i>>].at = "chat" => <<m, i>> = d
        BY <1>4, <2>2, <4>1
      <4> QED
        BY <2>1, <2>2, <4>1, <4>2
    <3>2. CASE m # d[1]
      <4>1. \A i \in {1, 2} : push'[<<m, i>>] = push[<<m, i>>]
        BY <1>4, <2>2, <3>2
      <4> QED
        BY <2>1, <2>4, <4>1
    <3> QED
      BY <3>1, <3>2
  <2> QED
    BY <1>3, <2>3, <2>4
<1> QED
  BY <1>5, <1>7, <1>8, <1>9, <1>10 DEF ChannelInv

\* The handler of a message remembers its conversation.
LEMMA StoreStep ==
    ASSUME ChannelInv, NEW d \in Channels!Pushes, Channels!StoreChat(d), provider' = provider
    PROVE  ChannelInv'
<1>0. /\ ChannelTypes /\ OneLive /\ Down /\ Apart /\ SawRow /\ SawType /\ Follows
      /\ Once /\ Known /\ Hooked /\ Defaults /\ Persisted
  BY ChannelParts
<1>k. PICK k \in 1..made : push[d].on = k /\ push[d].at = "chat"
  BY <1>0 DEF Channels!StoreChat, Known
<1>m. PICK m \in Messages : m = d[1]
  BY PushMessages
<1>1. /\ UNCHANGED <<row, up, made, conns, seen, save, overlapped>>
      /\ conn' = [conn EXCEPT ![k] = [[conn[k] EXCEPT !.chats = @ \union {m}] EXCEPT !.default = m]]
      /\ runs' = [runs EXCEPT ![m] = runs[m] + 1]
      /\ push' = [push EXCEPT ![d] = [push[d] EXCEPT !.at = "read"]]
  BY <1>k, <1>m DEF Channels!StoreChat, Channels!To
<1>2. k \in Channels!Conns /\ up = TRUE
  BY <1>0, <1>k, ConnNumbers DEF Down, ChannelTypes
<1>3. PICK new \in PushType : new.at = "read" /\ new.on = k /\ push' = [push EXCEPT ![d] = new]
  <2>1. [push[d] EXCEPT !.at = "read"] \in PushType /\ [push[d] EXCEPT !.at = "read"].at = "read"
        /\ [push[d] EXCEPT !.at = "read"].on = k
    BY <1>0, <1>k DEF ChannelTypes, PushType
  <2> QED
    BY <1>1, <2>1
<1>4. /\ push' \in [Channels!Pushes -> PushType] /\ push'[d] = new
      /\ \A e \in Channels!Pushes : e # d => push'[e] = push[e]
  BY <1>0, <1>3, PushMoves
<1>5. PICK to \in ConnType :
          /\ to.chats = conn[k].chats \union {m} /\ to.default = m
          /\ to.live = conn[k].live /\ to.cred = conn[k].cred
          /\ conn' = [conn EXCEPT ![k] = to]
  <2> DEFINE to == [[conn[k] EXCEPT !.chats = @ \union {m}] EXCEPT !.default = m]
  <2>1. conn' = [conn EXCEPT ![k] = to]
    BY <1>1
  <2>2. /\ to \in ConnType /\ to.chats = conn[k].chats \union {m} /\ to.default = m
        /\ to.live = conn[k].live /\ to.cred = conn[k].cred
    BY <1>0, <1>2 DEF ChannelTypes, ConnType
  <2> HIDE DEF to
  <2> QED
    BY <2>1, <2>2
<1>6. /\ conn' \in [Channels!Conns -> ConnType] /\ conn'[k] = to
      /\ \A j \in Channels!Conns : j # k => conn'[j] = conn[j]
  BY <1>0, <1>2, <1>5 DEF ChannelTypes
<1>7. /\ runs' \in [Messages -> Nat] /\ runs'[m] = runs[m] + 1
      /\ \A n \in Messages : n # m => runs'[n] = runs[n]
  BY <1>0, <1>1 DEF ChannelTypes
<1>8. ChannelTypes'
  BY <1>0, <1>1, <1>4, <1>6, <1>7 DEF ChannelTypes
<1>9. OneLive' /\ Down' /\ Apart' /\ SawRow' /\ SawType' /\ Hooked'
  <2>1. OneLive'
    BY <1>0, <1>1, <1>5, <1>6 DEF OneLive
  <2>2. Down' /\ Hooked'
    BY <1>0, <1>1, <1>2 DEF Down, Hooked
  <2>3. Apart' /\ SawRow' /\ SawType'
    BY <1>0, <1>1, <1>3, <1>4 DEF Apart, SawRow, SawType
  <2> QED
    BY <2>1, <2>2, <2>3
<1>10. Follows'
  <2>1. conns # 0 => conns \in Channels!Conns /\ conn'[conns].cred = conn[conns].cred
    BY <1>0, <1>5, <1>6, ConnNumbers
  <2> QED
    BY <1>0, <1>1, <2>1 DEF Follows
<1>11. Defaults'
  BY <1>0, <1>5, <1>6 DEF Defaults
<1>12. Known'
  <2>1. \A j \in 1..made : j \in Channels!Conns /\ conn[j].chats \subseteq conn'[j].chats
    BY <1>0, <1>5, <1>6, ConnNumbers
  <2>2. d[1] \in conn'[k].chats
    BY <1>m, <1>5, <1>6
  <2>3. \A e \in Channels!Pushes : e # d =>
            /\ push'[e].at \in {"chat", "read", "write", "run"} => push'[e].on \in 1..made
            /\ push'[e].at \in {"read", "write", "run"} => e[1] \in conn'[push'[e].on].chats
    BY <1>0, <1>4, <2>1 DEF Known
  <2>4. push'[d].on = k /\ k \in 1..made
    BY <1>3, <1>4
  <2> QED
    BY <1>1, <2>2, <2>3, <2>4 DEF Known
<1>13. Persisted'
  BY <1>3, <1>4 DEF Persisted
<1>14. Once'
  <2> SUFFICES ASSUME provider = "dingtalk", NEW n \in Messages
               PROVE  /\ runs'[n] <= 1
                      /\ n \notin seen => runs'[n] = 0
                      /\ \A i \in {1, 2} : push'[<<n, i>>].at = "chat" =>
                             n \in seen /\ runs'[n] = 0 /\ \A j \in {1, 2} : push'[<<n, j>>].at = "chat" => i = j
    BY <1>1 DEF Once
  <2>1. /\ runs[n] <= 1 /\ (n \notin seen => runs[n] = 0)
        /\ \A i \in {1, 2} : push[<<n, i>>].at = "chat" =>
               n \in seen /\ runs[n] = 0 /\ \A j \in {1, 2} : push[<<n, j>>].at = "chat" => i = j
    BY <1>0 DEF Once
  <2>2. \A i \in {1, 2} : /\ <<n, i>> \in Channels!Pushes
                          /\ <<n, i>> = d => n = m /\ i = d[2]
    BY <1>m, PushMessages
  <2>3. CASE n = m
    <3>1. d[2] \in {1, 2} /\ d = <<m, d[2]>>
      BY <1>m, PushMessages
    <3>2. m \in seen /\ runs[m] = 0 /\ \A j \in {1, 2} : push[<<m, j>>].at = "chat" => d[2] = j
      BY <1>k, <2>1, <2>3, <3>1
    <3>3. \A i \in {1, 2} : push'[<<m, i>>].at # "chat"
      BY <1>3, <1>4, <2>2, <2>3, <3>1, <3>2
    <3>4. runs'[n] <= 1
      BY <1>7, <2>3, <3>2
    <3> QED
      BY <2>3, <3>2, <3>3, <3>4
  <2>4. CASE n # m
    <3>1. \A i \in {1, 2} : push'[<<n, i>>] = push[<<n, i>>]
      BY <1>4, <2>2, <2>4
    <3> QED
      BY <1>7, <2>1, <2>4, <3>1
  <2> QED
    BY <2>3, <2>4
<1> QED
  BY <1>8, <1>9, <1>10, <1>11, <1>12, <1>13, <1>14 DEF ChannelInv

\* The steps after the message is stored: none starts a run or changes a connection.
LEMMA LaterStep ==
    ASSUME ChannelInv, provider' = provider,
           UNCHANGED <<up, made, conns, conn, seen, runs, save>>,
           NEW d \in Channels!Pushes, push[d].at \in {"read", "write", "run"},
           NEW new \in PushType, push' = [push EXCEPT ![d] = new],
           new.at \in {"write", "run", "replied", "lost"}, new.on = push[d].on,
           row' \in RowType, overlapped' \in BOOLEAN,
           \* what ReadRow and WriteRow have to show
           provider = "dingtalk" => row'.hook = row'.chat,
           new.at = "write" => new.saw = row /\ row' = row,
           ~overlapped' => /\ ~overlapped /\ row'.on = row.on /\ row'.cred = row.cred
                           /\ new.at = "write" => \A s \in Saves : save[s].at \notin {"row", "connect"},
           new.at # "write" /\ push[d].at \in {"read", "write"} => row'.chat # "none",
           row.chat # "none" => row'.chat # "none"
    PROVE  ChannelInv'
<1>0. /\ ChannelTypes /\ OneLive /\ Down /\ Apart /\ SawRow /\ SawType /\ Follows
      /\ Once /\ Known /\ Hooked /\ Defaults /\ Persisted
  BY ChannelParts
<1>1. /\ push' \in [Channels!Pushes -> PushType] /\ push'[d] = new
      /\ \A e \in Channels!Pushes : e # d => push'[e] = push[e]
  BY <1>0, PushMoves
<1>2. up = TRUE
  BY <1>0 DEF Down, ChannelTypes
<1>3. ChannelTypes' /\ OneLive' /\ Down' /\ Hooked' /\ Defaults'
  <2>1. ChannelTypes'
    BY <1>0, <1>1 DEF ChannelTypes
  <2> QED
    BY <1>0, <1>2, <2>1 DEF OneLive, Down, Hooked, Defaults
<1>4. Apart' /\ SawRow' /\ SawType'
  <2>1. Apart'
    BY <1>0, <1>1 DEF Apart
  <2>2. SawRow'
    BY <1>0, <1>1 DEF SawRow
  <2>3. SawType'
    BY <1>0, <1>1 DEF SawType, ChannelTypes
  <2> QED
    BY <2>1, <2>2, <2>3
<1>5. Follows'
  BY <1>0 DEF Follows
<1>6. Once'
  <2>1. \A e \in Channels!Pushes : push'[e].at = "chat" => push[e].at = "chat"
    BY <1>1
  <2>2. \A m \in Messages, i \in {1, 2} : push'[<<m, i>>].at = "chat" => push[<<m, i>>].at = "chat"
    BY <2>1, PushMessages
  <2> QED
    BY <1>0, <2>2 DEF Once
<1>7. Known'
  BY <1>0, <1>1 DEF Known
<1>8. Persisted'
  <2>1. CASE row'.chat # "none"
    BY <2>1 DEF Persisted
  <2>2. CASE row'.chat = "none"
    <3>1. \A e \in Channels!Pushes : push[e].at \in {"read", "write"} => push'[e].at \in {"read", "write"}
      BY <1>1, <2>2
    <3> QED
      BY <1>0, <2>2, <3>1 DEF Persisted
  <2> QED
    BY <2>1, <2>2
<1> QED
  BY <1>3, <1>4, <1>5, <1>6, <1>7, <1>8 DEF ChannelInv

\* The handler reads the row to remember the conversation in it.
LEMMA ReadRowStep ==
    ASSUME ChannelInv, NEW d \in Channels!Pushes, Channels!ReadRow(d), provider' = provider
    PROVE  ChannelInv'
<1>0. ChannelTypes /\ Hooked /\ d[1] \in Messages
  BY ChannelParts, PushMessages
<1> DEFINE changed == row.chat # d[1] \/ (Channels!DingTalk /\ row.hook # d[1])
           where == IF changed THEN "write" ELSE "run"
           new == [[push[d] EXCEPT !.at = where] EXCEPT !.saw = row]
<1>1. /\ UNCHANGED <<row, up, made, conns, conn, seen, runs, save>> /\ push[d].at = "read"
      /\ push' = [push EXCEPT ![d] = new]
      /\ overlapped' = (overlapped \/ (changed /\ Channels!Saving # {}))
  BY DEF Channels!ReadRow
<1>2. new \in PushType /\ new.at = where /\ new.saw = row /\ new.on = push[d].on
  <2>1. where \in {"write", "run"} /\ push[d] \in PushType /\ row \in RowType
    BY <1>0 DEF ChannelTypes
  <2> HIDE DEF where
  <2> QED
    BY <2>1 DEF PushType
<1>3. ~overlapped' => ~overlapped /\ (changed => \A s \in Saves : save[s].at \notin {"row", "connect"})
  BY <1>0, <1>1 DEF Channels!Saving, ChannelTypes
<1>4. overlapped' \in BOOLEAN /\ row' \in RowType
  BY <1>0, <1>1 DEF ChannelTypes
<1>5. ~changed => row.chat # "none"
  BY <1>0, ServerAssumption
<1>6. where \in {"write", "run"} /\ (where = "write" <=> changed)
  OBVIOUS
<1>7. PICK it \in PushType : it = new
  BY <1>2
<1> HIDE DEF new, where, changed
<1> QED
  BY <1>0, <1>1, <1>2, <1>3, <1>4, <1>5, <1>6, <1>7, LaterStep DEF Hooked

\* The handler writes the row it read back with the conversation.
LEMMA WriteRowStep ==
    ASSUME ChannelInv, NEW d \in Channels!Pushes, Channels!WriteRow(d), provider' = provider
    PROVE  ChannelInv'
<1>0. ChannelTypes /\ SawRow /\ SawType /\ d[1] \in Messages
  BY ChannelParts, PushMessages
<1>s. PICK saw \in RowType : saw = push[d].saw /\ push[d].at = "write"
  BY <1>0 DEF Channels!WriteRow, SawType
<1>m. PICK m \in Messages : m = d[1]
  BY <1>0
<1> DEFINE hook == IF Channels!DingTalk THEN m ELSE saw.hook
           written == [[saw EXCEPT !.chat = m] EXCEPT !.hook = hook]
           new == [[push[d] EXCEPT !.at = "run"] EXCEPT !.saw = "none"]
<1>1. /\ UNCHANGED <<up, made, conns, conn, seen, runs, save, overlapped>>
      /\ row' = written /\ push' = [push EXCEPT ![d] = new]
  BY <1>s, <1>m DEF Channels!WriteRow, Channels!None
<1>2. new \in PushType /\ new.at = "run" /\ new.on = push[d].on
  BY <1>0 DEF ChannelTypes, PushType
<1>3. /\ written \in RowType /\ written.chat = m /\ written.hook = hook
      /\ written.on = saw.on /\ written.cred = saw.cred
  <2>1. hook \in Messages \union {"none"}
    BY DEF RowType
  <2> HIDE DEF hook
  <2> QED
    BY <2>1 DEF RowType
<1>4. ~overlapped => saw.on = row.on /\ saw.cred = row.cred
  BY <1>0, <1>s DEF SawRow
<1>5. provider = "dingtalk" => hook = m
  BY DEF Channels!DingTalk
<1>6. m # "none"
  BY ServerAssumption
<1>7. PICK it \in PushType : it = new
  BY <1>2
<1>8. overlapped' \in BOOLEAN
  BY <1>0, <1>1 DEF ChannelTypes
<1> HIDE DEF new, written, hook
<1> QED
  BY <1>0, <1>s, <1>1, <1>2, <1>3, <1>4, <1>5, <1>6, <1>7, <1>8, LaterStep

\* The run replies on the connection the message came from.
LEMMA ReplyStep ==
    ASSUME ChannelInv, NEW d \in Channels!Pushes, Channels!Reply(d), provider' = provider
    PROVE  ChannelInv'
<1>0. ChannelTypes /\ Hooked
  BY ChannelParts
<1>1. UNCHANGED <<row, up, made, conns, conn, seen, runs, save, overlapped>> /\ push[d].at = "run"
  BY DEF Channels!Reply
<1>2. PICK where \in {"replied", "lost"} : push' = [push EXCEPT ![d].at = where]
  BY DEF Channels!Reply
<1>3. PICK new \in PushType : new.at = where /\ new.on = push[d].on /\ push' = [push EXCEPT ![d] = new]
  <2> DEFINE new == [push[d] EXCEPT !.at = where]
  <2>1. push' = [push EXCEPT ![d] = new]
    BY <1>2
  <2>2. new \in PushType /\ new.at = where /\ new.on = push[d].on
    BY <1>0 DEF ChannelTypes, PushType
  <2> HIDE DEF new
  <2> QED
    BY <2>1, <2>2
<1>4. overlapped' \in BOOLEAN /\ row' \in RowType
  BY <1>0, <1>1 DEF ChannelTypes
<1> QED
  BY <1>0, <1>1, <1>3, <1>4, LaterStep DEF Hooked

\* At the start there is no connection and nothing on its way.
LEMMA ChannelStart == Channels!Init => ChannelInv
<1> SUFFICES ASSUME Channels!Init PROVE ChannelInv
  OBVIOUS
<1> USE DEF Channels!Init, Channels!None
<1>1. ChannelTypes
  <2>1. row \in RowType /\ runs \in [Messages -> Nat]
    BY DEF RowType
  <2>2. conn \in [Channels!Conns -> ConnType]
    BY DEF ConnType
  <2>3. push \in [Channels!Pushes -> PushType]
    BY ServerAssumption DEF PushType, Channels!Idle
  <2>4. save \in [Saves -> SaveType]
    BY DEF SaveType
  <2>5. made \in 0..MaxChannels /\ conns \in 0..made
    BY ServerAssumption
  <2>6. up \in BOOLEAN /\ overlapped \in BOOLEAN
    OBVIOUS
  <2> QED
    BY <2>1, <2>2, <2>3, <2>4, <2>5, <2>6 DEF ChannelTypes
<1>2. \A d \in Channels!Pushes : push[d].at = "idle"
  BY DEF Channels!Idle
<1>3. OneLive /\ Down /\ Apart /\ Follows
  BY <1>2, ServerAssumption DEF OneLive, Down, Apart, Follows, Channels!Conns
<1>4. SawRow /\ SawType /\ Known /\ Hooked /\ Defaults /\ Persisted
  BY <1>2 DEF SawRow, SawType, Known, Hooked, Defaults, Persisted
<1>5. Once
  <2>1. \A m \in Messages, i \in {1, 2} : push[<<m, i>>].at # "chat"
    BY <1>2, PushMessages
  <2>2. \A m \in Messages : runs[m] = 0 /\ runs[m] <= 1
    OBVIOUS
  <2> QED
    BY <2>1, <2>2, Zenon DEF Once
<1> QED
  BY <1>1, <1>3, <1>4, <1>5 DEF ChannelInv

\* Every step of the channels preserves their invariant.
LEMMA ChannelStep == ChannelInv /\ [Channels!Next]_channelVars => ChannelInv'
<1> SUFFICES ASSUME ChannelInv, [Channels!Next]_channelVars PROVE ChannelInv'
  OBVIOUS
<1>1. CASE UNCHANGED channelVars
  BY <1>1 DEF channelVars, ChannelInv, ChannelTypes, OneLive, Down, Apart, SawRow, SawType, Follows,
              Once, Known, Hooked, Defaults, Persisted
<1>2. CASE Channels!Next
  <2>1. provider' = provider
    BY <1>2 DEF Channels!Next
  <2> QED
    BY <1>2, <2>1, BootStep, CrashStep, SaveStarts, UpsertStep, ConnectStep, ReceiveStep, StoreStep,
       ReadRowStep, WriteRowStep, ReplyStep DEF Channels!Next, Channels!None
<1> QED
  BY <1>1, <1>2

\* What the runs check of the channels follows from their invariant.
LEMMA ChannelSound == ChannelInv => Channels!ChannelsSound
<1> SUFFICES ASSUME ChannelInv PROVE Channels!ChannelsSound
  OBVIOUS
<1>0. /\ ChannelTypes /\ OneLive /\ Down /\ Apart /\ SawRow /\ SawType /\ Follows
      /\ Once /\ Known /\ Hooked /\ Defaults /\ Persisted
  BY ChannelParts
<1>1. Channels!Saving = {} => \A s \in Saves : save[s].at # "connect"
  BY DEF Channels!Saving
<1>2. Channels!ConnectionFollows
  <2>1. {k \in Channels!Conns : conn[k].live} = {conns} \ {0}
    BY <1>0, ConnNumbers DEF OneLive
  <2> QED
    BY <1>0, <1>1, <2>1 DEF Follows, Channels!ConnectionFollows, Channels!Configured, Channels!None
<1>3. Channels!HandledOnce
  BY <1>0 DEF Once, Channels!HandledOnce, Channels!DingTalk
<1>4. Channels!RepliesReach
  BY <1>0 DEF Known, Channels!RepliesReach
<1>5. Channels!ResultsReach
  BY <1>0 DEF Defaults, Channels!ResultsReach, Channels!DingTalk, Channels!None
<1>6. Channels!ChatPersisted
  BY <1>0, <1>1 DEF Persisted, Hooked, Channels!ChatPersisted, Channels!DingTalk, Channels!None
<1> QED
  BY <1>2, <1>3, <1>4, <1>5, <1>6 DEF Channels!ChannelsSound


-----------------------------------------------------------------------------
(* The server: its components keep their invariants side by side.             *)

ServerInv == LimitInv /\ TLSInv /\ HubInv /\ ProxyInv /\ ChannelInv

\* A step of the server is a step of one component, and the others stand still.
LEMMA ServerSteps ==
    [ServerNext]_all => /\ [Limiter!Next]_limitVars /\ [HTTPS!Next]_tlsVars /\ [Hub!Next]_hubVars
                        /\ [Proxies!Next]_proxyVars /\ [Channels!Next]_channelVars
<1> SUFFICES ASSUME [ServerNext]_all
             PROVE  /\ [Limiter!Next]_limitVars /\ [HTTPS!Next]_tlsVars /\ [Hub!Next]_hubVars
                    /\ [Proxies!Next]_proxyVars /\ [Channels!Next]_channelVars
  OBVIOUS
<1>1. CASE LockPart
  BY <1>1 DEF LockPart
<1>2. CASE HubPart
  BY <1>2 DEF HubPart
<1>3. CASE ProxyPart
  BY <1>3 DEF ProxyPart
<1>4. CASE WebPart
  BY <1>4 DEF WebPart
<1>5. CASE ChannelPart
  BY <1>5 DEF ChannelPart
<1>6. CASE UNCHANGED all
  BY <1>6 DEF all
<1> QED
  BY <1>1, <1>2, <1>3, <1>4, <1>5, <1>6 DEF ServerNext

\* ServerInv is an invariant of every behaviour of the server.
LEMMA ServerInvariant == ServerSpec => []ServerInv
<1>1. ServerInit => ServerInv
  BY LimitStart, TLSStart, HubStart, ProxyStart, ChannelStart DEF ServerInit, ServerInv
<1>2. ServerInv /\ [ServerNext]_all => ServerInv'
  BY ServerSteps, LimitStep, TLSStep, HubStep, ProxyStep, ChannelStep DEF ServerInv
<1> QED
  BY <1>1, <1>2, PTL DEF ServerSpec

(* ServiceHub.Command, handlePump and Unregister: a call is resolved once,    *)
(* whoever of the pump, the timer and the closing connection comes first, no  *)
(* channel is closed twice, and a call that returns an answer got one.        *)
THEOREM ServerCallsResolved == ServerSpec => []CallsResolved
<1>1. ServerInv => CallsResolved
  BY HubSound DEF ServerInv, CallsResolved
<1> QED
  BY <1>1, ServerInvariant, PTL

(* ServiceHub.Register and Unregister: the newest connection of an agent is   *)
(* the one the table has, however late the one it replaced departs.           *)
THEOREM ServerNewestReachable == ServerSpec => []NewestReachable
<1>1. ServerInv => NewestReachable
  BY HubSound DEF ServerInv, NewestReachable
<1> QED
  BY <1>1, ServerInvariant, PTL

(* MCPProxies: each call of a stdio server gets the answer to its own         *)
(* request, and after a reload table, services and rows agree.                *)
THEOREM ServerProxiesSound == ServerSpec => []ProxiesSound
<1>1. ServerInv => ProxiesSound
  BY ProxySound DEF ServerInv, ProxiesSound
<1> QED
  BY <1>1, ServerInvariant, PTL

(* TLSServer and RateLimiter: between requests what listens on :443 follows   *)
(* the configuration; nobody gets more attempts to log in within a window     *)
(* than the limit, or is refused before it.                                   *)
THEOREM ServerWebSound == ServerSpec => []WebSound
<1>1. ServerInv => WebSound
  BY TLSSound DEF ServerInv, WebSound, LimitInv
<1> QED
  BY <1>1, ServerInvariant, PTL

(* IMChannels: the connection follows the row, a message of DingTalk starts   *)
(* one run though it is delivered twice, and replies find their conversation. *)
THEOREM ServerChannelsSound == ServerSpec => []ChannelsSound
<1>1. ServerInv => ChannelsSound
  BY ChannelSound DEF ServerInv, ChannelsSound
<1> QED
  BY <1>1, ServerInvariant, PTL
=============================================================================
