---------------------------- MODULE UserLockProofs ----------------------------
(***************************************************************************)
(* Proofs about UserLock, for any finite set of requests.                  *)
(*                                                                         *)
(* The lock is safe because its channel is never dropped from the map      *)
(* while anyone uses it, and that rests on the count: getOrCreateCh counts *)
(* a request twice, on its way in and on its way out, and decRef uncounts  *)
(* it once, so the count of a user is at least two when decRef runs.       *)
(***************************************************************************)
EXTENDS UserLock, FiniteSetTheorems, TLAPS

\* The requests of u whose acquireUser has counted them.
Counted(u) == {r \in Requests : /\ UserOf[r] = u
                                /\ \/ pc[r] \in {"wait", "held", "gaveUp"}
                                   \/ r \in releasing}

\* The requests of u that releaseUser has counted again and not yet uncounted.
Recounted(u) == {r \in Requests : UserOf[r] = u /\ pc[r] \in {"send", "dec"}}

RefsExact == \A u \in Users :
                userRefs[u] = Cardinality(Counted(u)) + Cardinality(Recounted(u))

\* Which labels belong to releaseUser; it never creates a channel.
ReleasePhase == \A r \in Requests :
                    /\ r \in releasing => pc[r] \in {"count", "send", "dec", "done"}
                    /\ pc[r] \in {"send", "dec", "done"} => r \in releasing

\* Every request that has looked its channel up knows the one in the map.
KnowsChannel == \A r \in Requests :
                    pc[r] # "idle" => /\ ch[r] = userChs[UserOf[r]]
                                      /\ ch[r] \in Chan

OwnChannel == \A u \in Users : userChs[u] \in Chan => UserOf[userChs[u][1]] = u

\* Only a channel in the map holds a token.
TokenInMap == \A c \in Chan : buf[c] = 1 => userChs[UserOf[c[1]]] = c

\* The request that owes the channel of its user its token.
Owes(r) == pc[r] = "fill" \/ Inside(r)

OneDebtor == \A r, s \in Requests :
                UserOf[r] = UserOf[s] /\ Owes(r) /\ Owes(s) => r = s

DebtorOrToken == \A r \in Requests : Owes(r) => buf[ch[r]] = 0

IInv == /\ TypeOK
        /\ ReleasePhase
        /\ RefsExact
        /\ KnowsChannel
        /\ OwnChannel
        /\ TokenInMap
        /\ OneDebtor
        /\ DebtorOrToken
        /\ TokenAccountedFor

USE LockAssumption

-----------------------------------------------------------------------------
(* The count                                                               *)

\* The counted sets are finite.
LEMMA CountedFinite == \A u \in Users : /\ IsFiniteSet(Counted(u))
                                        /\ IsFiniteSet(Recounted(u))
<1>1. \A u \in Users : Counted(u) \subseteq Requests /\ Recounted(u) \subseteq Requests
  BY DEF Counted, Recounted
<1> QED
  BY <1>1, FS_Subset

\* decRef finds a count of two at least: it never empties the map.
LEMMA CountAtDec ==
    ASSUME IInv, NEW r \in Requests, pc[r] = "dec"
    PROVE  userRefs[UserOf[r]] >= 2
<1> DEFINE u == UserOf[r]
<1>1. r \in Counted(u) /\ r \in Recounted(u) /\ u \in Users
  BY DEF IInv, ReleasePhase, Counted, Recounted
<1>2. Cardinality(Counted(u)) # 0 /\ Cardinality(Counted(u)) \in Nat
  BY <1>1, CountedFinite, FS_EmptySet, FS_CardinalityType
<1>3. Cardinality(Recounted(u)) # 0 /\ Cardinality(Recounted(u)) \in Nat
  BY <1>1, CountedFinite, FS_EmptySet, FS_CardinalityType
<1> QED
  BY <1>1, <1>2, <1>3 DEF IInv, RefsExact

\* A step that changes neither set of requests leaves the count exact.
LEMMA CountKept ==
    ASSUME RefsExact, userRefs' = userRefs,
           \A u \in Users : Counted(u)' = Counted(u) /\ Recounted(u)' = Recounted(u)
    PROVE  RefsExact'
<1> QED
  BY DEF RefsExact
\* A step that moves the count of one user along with its two sets of
\* requests leaves every count exact.
LEMMA CountMoved ==
    ASSUME RefsExact, NEW u \in Users,
           \A v \in Users \ {u} : /\ Counted(v)' = Counted(v)
                                  /\ Recounted(v)' = Recounted(v)
                                  /\ userRefs'[v] = userRefs[v],
           userRefs'[u] = Cardinality(Counted(u)') + Cardinality(Recounted(u)')
    PROVE  RefsExact'
<1>1. \A v \in Users : userRefs'[v] = Cardinality(Counted(v)') + Cardinality(Recounted(v)')
  <2> TAKE v \in Users
  <2>1. CASE v = u
    BY <2>1
  <2>2. CASE v # u
    BY <2>2 DEF RefsExact
  <2> QED
    BY <2>1, <2>2
<1> QED
  BY <1>1 DEF RefsExact

-----------------------------------------------------------------------------
(* The invariant is inductive                                              *)

LEMMA InitIInv == Init => IInv
<1> SUFFICES ASSUME Init PROVE IInv
  OBVIOUS
<1>1. \A u \in Users : Counted(u) = {} /\ Recounted(u) = {}
  BY DEF Init, Counted, Recounted
<1>2. RefsExact
  BY <1>1, FS_EmptySet DEF Init, RefsExact
<1> QED
  BY <1>2 DEF Init, IInv, TypeOK, PC, Chan, ReleasePhase, KnowsChannel, OwnChannel,
              TokenInMap, OneDebtor, DebtorOrToken, TokenAccountedFor, Owes, Inside

LEMMA LoadOrStoreIInv ==
    ASSUME IInv, NEW r \in Requests, LoadOrStore(r)
    PROVE  IInv'
<1> DEFINE u == UserOf[r]
           fresh == <<r, IF pc[r] = "idle" THEN "acquire" ELSE "release">>
           found == IF userChs[u] = NoChan THEN fresh ELSE userChs[u]
<1> USE DEF IInv
<1>1. u \in Users /\ fresh \in Chan /\ found \in Chan /\ pc[r] \in {"idle", "held"}
  BY DEF TypeOK, Chan, LoadOrStore
\* The entry is missing only before the user's first request.
<1>2. userChs[u] = NoChan =>
          /\ \A s \in Requests : UserOf[s] = u => pc[s] = "idle"
          /\ buf[fresh] = 0
  BY <1>1 DEF KnowsChannel, TokenInMap, TypeOK, Chan
<1>3. TypeOK'
  BY <1>1 DEF TypeOK, LoadOrStore, Goto, PC
<1>4. ReleasePhase'
  BY <1>1, <1>2 DEF TypeOK, ReleasePhase, LoadOrStore, Goto
<1>5. RefsExact'
  <2>1. \A v \in Users : Counted(v)' = Counted(v) /\ Recounted(v)' = Recounted(v)
    BY <1>1, <1>2 DEF TypeOK, ReleasePhase, Counted, Recounted, LoadOrStore, Goto
  <2> QED
    BY <2>1, CountKept DEF LoadOrStore
<1>6. KnowsChannel'
  BY <1>1, <1>2 DEF TypeOK, KnowsChannel, LoadOrStore, Goto
<1>7. OwnChannel' /\ TokenInMap'
  BY <1>1, <1>2 DEF TypeOK, OwnChannel, TokenInMap, LoadOrStore, Chan
<1>8. OneDebtor'
  BY <1>1, <1>2 DEF TypeOK, ReleasePhase, OneDebtor, Owes, Inside, LoadOrStore, Goto
<1>9. DebtorOrToken'
  BY <1>1, <1>2 DEF TypeOK, ReleasePhase, DebtorOrToken, KnowsChannel, Owes, Inside, LoadOrStore, Goto
<1>10. TokenAccountedFor'
  BY <1>1, <1>2 DEF TypeOK, ReleasePhase, TokenAccountedFor, Inside, LoadOrStore, Goto
<1> QED
  BY <1>3, <1>4, <1>5, <1>6, <1>7, <1>8, <1>9, <1>10

LEMMA FillIInv ==
    ASSUME IInv, NEW r \in Requests, Fill(r)
    PROVE  IInv'
<1> USE DEF IInv
<1>1. TypeOK' /\ ReleasePhase' /\ KnowsChannel' /\ OwnChannel' /\ r \notin releasing
  BY DEF TypeOK, PC, ReleasePhase, KnowsChannel, OwnChannel, Fill, Goto
<1>2. RefsExact'
  <2>1. \A v \in Users : Counted(v)' = Counted(v) /\ Recounted(v)' = Recounted(v)
    BY <1>1 DEF TypeOK, Counted, Recounted, Fill, Goto
  <2> QED
    BY <2>1, CountKept DEF Fill
<1>3. TokenInMap'
  BY DEF TypeOK, KnowsChannel, OwnChannel, TokenInMap, Fill, Goto
<1>4. OneDebtor' /\ DebtorOrToken'
  BY <1>1 DEF TypeOK, KnowsChannel, OwnChannel, OneDebtor, DebtorOrToken, Owes, Inside, Fill, Goto
<1>5. TokenAccountedFor'
  BY <1>1 DEF TypeOK, KnowsChannel, OwnChannel, TokenAccountedFor, Inside, Fill, Goto
<1> QED
  BY <1>1, <1>2, <1>3, <1>4, <1>5

LEMMA AddRefIInv ==
    ASSUME IInv, NEW r \in Requests, AddRef(r)
    PROVE  IInv'
<1> DEFINE u == UserOf[r]
<1> USE DEF IInv
<1>1. TypeOK' /\ ReleasePhase' /\ KnowsChannel' /\ OwnChannel' /\ TokenInMap'
  BY DEF TypeOK, PC, ReleasePhase, KnowsChannel, OwnChannel, TokenInMap, AddRef, Goto
<1>2. OneDebtor' /\ DebtorOrToken' /\ TokenAccountedFor'
  BY DEF TypeOK, OneDebtor, DebtorOrToken, TokenAccountedFor, Owes, Inside, AddRef, Goto
<1>3. RefsExact'
  <2>1. u \in Users
    BY DEF TypeOK
  <2>2. \A v \in Users \ {u} : /\ Counted(v)' = Counted(v) /\ Recounted(v)' = Recounted(v)
                               /\ userRefs'[v] = userRefs[v]
    BY DEF TypeOK, Counted, Recounted, AddRef, Goto
  <2>3. userRefs'[u] = userRefs[u] + 1
    BY <2>1 DEF TypeOK, AddRef
  <2>4. Cardinality(Counted(u)) \in Nat /\ Cardinality(Recounted(u)) \in Nat
    BY <2>1, CountedFinite, FS_CardinalityType
  <2>5. CASE r \in releasing
    <3>1. /\ Counted(u)' = Counted(u)
          /\ Recounted(u)' = Recounted(u) \cup {r}
          /\ r \notin Recounted(u)
      BY <2>5 DEF TypeOK, Counted, Recounted, AddRef, Goto
    <3>2. Cardinality(Recounted(u)') = Cardinality(Recounted(u)) + 1
      BY <2>1, <3>1, CountedFinite, FS_AddElement
    <3>3. userRefs'[u] = Cardinality(Counted(u)') + Cardinality(Recounted(u)')
      BY <2>1, <2>3, <2>4, <3>1, <3>2 DEF RefsExact
    <3> QED
      BY <2>1, <2>2, <3>3, CountMoved
  <2>6. CASE r \notin releasing
    <3>1. /\ Counted(u)' = Counted(u) \cup {r}
          /\ Recounted(u)' = Recounted(u)
          /\ r \notin Counted(u)
      BY <2>6 DEF TypeOK, Counted, Recounted, AddRef, Goto
    <3>2. Cardinality(Counted(u)') = Cardinality(Counted(u)) + 1
      BY <2>1, <3>1, CountedFinite, FS_AddElement
    <3>3. userRefs'[u] = Cardinality(Counted(u)') + Cardinality(Recounted(u)')
      BY <2>1, <2>3, <2>4, <3>1, <3>2 DEF RefsExact
    <3> QED
      BY <2>1, <2>2, <3>3, CountMoved
  <2> QED
    BY <2>5, <2>6
<1> QED
  BY <1>1, <1>2, <1>3

LEMMA WaitIInv ==
    ASSUME IInv, NEW r \in Requests, TakeToken(r) \/ GiveUp(r)
    PROVE  IInv'
<1> USE DEF IInv
<1>1. TypeOK' /\ ReleasePhase' /\ KnowsChannel' /\ OwnChannel' /\ r \notin releasing
  BY DEF TypeOK, PC, ReleasePhase, KnowsChannel, OwnChannel, TakeToken, GiveUp, Goto
<1>2. RefsExact'
  <2>1. \A v \in Users : Counted(v)' = Counted(v) /\ Recounted(v)' = Recounted(v)
    BY DEF TypeOK, Counted, Recounted, TakeToken, GiveUp, Goto
  <2> QED
    BY <2>1, CountKept DEF TakeToken, GiveUp
<1>3. TokenInMap'
  BY DEF TypeOK, KnowsChannel, TokenInMap, TakeToken, GiveUp
\* While the token is in the channel nobody owes it.
<1>4. buf[ch[r]] = 1 => \A s \in Requests : UserOf[s] = UserOf[r] => ~Owes(s)
  BY DEF KnowsChannel, DebtorOrToken, TakeToken, GiveUp, Owes, Inside
<1>5. OneDebtor'
  BY <1>1, <1>4 DEF TypeOK, OneDebtor, Owes, Inside, TakeToken, GiveUp, Goto
<1>6. DebtorOrToken' /\ TokenAccountedFor'
  BY <1>1, <1>4 DEF TypeOK, KnowsChannel, OwnChannel, DebtorOrToken, TokenAccountedFor,
                    Owes, Inside, TakeToken, GiveUp, Goto
<1> QED
  BY <1>1, <1>2, <1>3, <1>5, <1>6

LEMMA ReturnTokenIInv ==
    ASSUME IInv, NEW r \in Requests, ReturnToken(r)
    PROVE  IInv'
<1> USE DEF IInv
<1>1. TypeOK' /\ ReleasePhase' /\ KnowsChannel' /\ OwnChannel' /\ TokenInMap' /\ r \in releasing
  BY DEF TypeOK, PC, ReleasePhase, KnowsChannel, OwnChannel, TokenInMap, ReturnToken, Goto
<1>2. RefsExact'
  <2>1. \A v \in Users : Counted(v)' = Counted(v) /\ Recounted(v)' = Recounted(v)
    BY <1>1 DEF TypeOK, Counted, Recounted, ReturnToken, Goto
  <2> QED
    BY <2>1, CountKept DEF ReturnToken
<1>3. OneDebtor' /\ DebtorOrToken'
  BY DEF TypeOK, KnowsChannel, OwnChannel, OneDebtor, DebtorOrToken, Owes, Inside, ReturnToken, Goto
<1>4. TokenAccountedFor'
  BY DEF TypeOK, KnowsChannel, OwnChannel, TokenAccountedFor, Inside, ReturnToken, Goto
<1> QED
  BY <1>1, <1>2, <1>3, <1>4

LEMMA DecRefIInv ==
    ASSUME IInv, NEW r \in Requests, DecRef(r)
    PROVE  IInv'
<1> DEFINE u == UserOf[r]
<1> USE DEF IInv
<1>1. u \in Users /\ userRefs[u] >= 2 /\ userRefs[u] \in Nat
  BY CountAtDec DEF TypeOK, DecRef
<1>2. /\ userRefs' = [userRefs EXCEPT ![u] = userRefs[u] - 1]
      /\ userChs' = userChs
  <2>1. userRefs' = [userRefs EXCEPT ![u] = IF userRefs[u] = 0 THEN 0 ELSE userRefs[u] - 1]
    BY DEF DecRef
  <2>2. userChs' = [userChs EXCEPT ![u] = IF userRefs[u] = 1 THEN NoChan ELSE userChs[u]]
    BY DEF DecRef
  <2>3. userRefs[u] # 0 /\ userRefs[u] # 1
    BY <1>1
  <2> QED
    BY <1>1, <2>1, <2>2, <2>3 DEF TypeOK
<1>3. TypeOK' /\ ReleasePhase' /\ KnowsChannel' /\ OwnChannel' /\ TokenInMap' /\ r \in releasing
  BY <1>1, <1>2 DEF TypeOK, PC, ReleasePhase, KnowsChannel, OwnChannel, TokenInMap, DecRef, Goto
<1>4. OneDebtor' /\ DebtorOrToken' /\ TokenAccountedFor'
  BY <1>2 DEF TypeOK, OneDebtor, DebtorOrToken, TokenAccountedFor, Owes, Inside, DecRef, Goto
<1>5. RefsExact'
  <2>1. \A v \in Users \ {u} : /\ Counted(v)' = Counted(v) /\ Recounted(v)' = Recounted(v)
                               /\ userRefs'[v] = userRefs[v]
    BY <1>2, <1>3 DEF TypeOK, Counted, Recounted, DecRef, Goto
  <2>2. /\ Counted(u)' = Counted(u)
        /\ Recounted(u)' = Recounted(u) \ {r}
        /\ r \in Recounted(u)
    BY <1>3 DEF TypeOK, Counted, Recounted, DecRef, Goto
  <2>3. Cardinality(Recounted(u)') = Cardinality(Recounted(u)) - 1
    BY <1>1, <2>2, CountedFinite, FS_RemoveElement
  <2>4. userRefs'[u] = userRefs[u] - 1
    BY <1>1, <1>2 DEF TypeOK
  <2>5. Cardinality(Counted(u)) \in Nat /\ Cardinality(Recounted(u)) \in Nat
    BY <1>1, CountedFinite, FS_CardinalityType
  <2>6. userRefs'[u] = Cardinality(Counted(u)') + Cardinality(Recounted(u)')
    BY <1>1, <2>2, <2>3, <2>4, <2>5 DEF RefsExact
  <2> QED
    BY <1>1, <2>1, <2>6, CountMoved
<1> QED
  BY <1>3, <1>4, <1>5

LEMMA NextIInv == IInv /\ [Next]_vars => IInv'
<1> SUFFICES ASSUME IInv, [Next]_vars PROVE IInv'
  OBVIOUS
<1>1. CASE UNCHANGED vars
  BY <1>1 DEF vars, IInv, TypeOK, ReleasePhase, RefsExact, Counted, Recounted, KnowsChannel,
              OwnChannel, TokenInMap, OneDebtor, DebtorOrToken, TokenAccountedFor, Owes, Inside
<1>2. CASE Next
  <2> PICK r \in Requests : Step(r) \/ GiveUp(r)
    BY <1>2 DEF Next
  <2> QED
    BY LoadOrStoreIInv, FillIInv, AddRefIInv, WaitIInv, ReturnTokenIInv, DecRefIInv DEF Step
<1> QED
  BY <1>1, <1>2

LEMMA Invariance == Spec => []IInv
BY InitIInv, NextIInv, PTL DEF Spec

-----------------------------------------------------------------------------
(* The properties                                                          *)

\* The lock's variables keep their types; in particular the count of a user
\* in userRefs never goes below zero.
THEOREM TypeCorrect == Spec => []TypeOK
<1>1. IInv => TypeOK
  BY DEF IInv
<1> QED
  BY <1>1, Invariance, PTL

\* No two requests of a user are inside together, however many requests and
\* users there are (acquireUser and releaseUser, manager.go).
THEOREM Exclusive == Spec => []MutualExclusion
<1>1. IInv => MutualExclusion
  BY DEF IInv, OneDebtor, MutualExclusion, Owes
<1> QED
  BY <1>1, Invariance, PTL

\* The channel a request looked up in getOrCreateCh stays the one in the map.
THEOREM NoStrandedWaiter == Spec => []NobodyStranded
<1>1. IInv => NobodyStranded
  BY DEF IInv, KnowsChannel, NobodyStranded
<1> QED
  BY <1>1, Invariance, PTL

\* An empty channel always has a request that owes it its token.
THEOREM TokenNeverLost == Spec => []TokenAccountedFor
<1>1. IInv => TokenAccountedFor
  BY DEF IInv
<1> QED
  BY <1>1, Invariance, PTL

\* The channel, its map and its count implement the abstract mutex.
THEOREM Refinement == Spec => ImplementsMutex
<1>1. Init => Mutex!Init
  BY DEF Init, Mutex!Init, stage, Inside
<1>2. IInv /\ IInv' /\ [Next]_vars => [Mutex!Next]_stage
  <2> SUFFICES ASSUME IInv, IInv', [Next]_vars PROVE [Mutex!Next]_stage
    OBVIOUS
  <2>1. CASE UNCHANGED vars
    BY <2>1 DEF vars, stage, Inside
  <2>2. CASE Next
    <3> PICK r \in Requests : Step(r) \/ GiveUp(r)
      BY <2>2 DEF Next
    <3>1. CASE LoadOrStore(r) \/ Fill(r) \/ AddRef(r) \/ DecRef(r)
      BY <3>1 DEF IInv, TypeOK, ReleasePhase, LoadOrStore, Fill, AddRef, DecRef, Goto, stage, Inside
    <3>2. CASE TakeToken(r)
      <4>1. stage[r] = "outside" /\ stage' = [stage EXCEPT ![r] = "inside"]
        BY <3>2 DEF IInv, TypeOK, ReleasePhase, TakeToken, Goto, stage, Inside
      <4>2. \A s \in Mutex!Rivals(r) : stage[s] # "inside"
        BY <3>2 DEF IInv, KnowsChannel, DebtorOrToken, Owes, TakeToken, Mutex!Rivals, stage, Inside
      <4> QED
        BY <4>1, <4>2 DEF Mutex!Next, Mutex!Enter
    <3>3. CASE GiveUp(r)
      <4>1. stage[r] = "outside" /\ stage' = [stage EXCEPT ![r] = "left"]
        BY <3>3 DEF IInv, TypeOK, ReleasePhase, GiveUp, Goto, stage, Inside
      <4> QED
        BY <4>1 DEF Mutex!Next, Mutex!Abandon
    <3>4. CASE ReturnToken(r)
      <4>1. stage[r] = "inside" /\ stage' = [stage EXCEPT ![r] = "left"]
        BY <3>4 DEF IInv, TypeOK, ReleasePhase, ReturnToken, Goto, stage, Inside
      <4> QED
        BY <4>1 DEF Mutex!Next, Mutex!Leave
    <3> QED
      BY <3>1, <3>2, <3>3, <3>4 DEF Step
  <2> QED
    BY <2>1, <2>2
<1> QED
  BY <1>1, <1>2, Invariance, PTL DEF Spec, ImplementsMutex, Mutex!Spec
=============================================================================
