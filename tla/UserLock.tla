------------------------------- MODULE UserLock -------------------------------
(***************************************************************************)
(* The per-user serial lock of internal/sandbox/manager.go: acquireUser,   *)
(* releaseUser, getOrCreateCh and decRef, at the grain at which goroutines *)
(* interleave.  A user's lock is a channel of capacity one that holds a    *)
(* token; it lives in the map userChs, with a reference count in userRefs. *)
(* Only the sync.Map operations, the channel operations and the critical   *)
(* sections of usersMu are atomic.                                         *)
(*                                                                         *)
(* A request is one call of Manager.Run: it acquires once and, if it got   *)
(* the lock, releases once.  getOrCreateCh runs on both ways: releasing    *)
(* is the set of requests that are on the second.                          *)
(***************************************************************************)
EXTENDS Integers, FiniteSets

CONSTANTS Requests,   \* calls of Manager.Run
          Users,
          UserOf,     \* the username each call is made for
          NoChan      \* userChs has no entry

\* A channel is named by the call of getOrCreateCh that made it.
Chan == Requests \X {"acquire", "release"}

ASSUME LockAssumption == /\ IsFiniteSet(Requests)
                         /\ UserOf \in [Requests -> Users]
                         /\ NoChan \notin Chan

VARIABLES pc,         \* the next step of each request
          releasing,  \* requests that have entered releaseUser
          ch,         \* the channel getOrCreateCh returned to the request
          userChs,    \* Manager.userChs
          userRefs,   \* Manager.userRefs; 0 where the map has no entry
          buf         \* tokens buffered in each channel, 0 or 1

vars == <<pc, releasing, ch, userChs, userRefs, buf>>

PC == {"idle", "fill", "count", "wait", "held", "gaveUp", "send", "dec", "done"}

Init == /\ pc = [r \in Requests |-> "idle"]
        /\ releasing = {}
        /\ ch = [r \in Requests |-> NoChan]
        /\ userChs = [u \in Users |-> NoChan]
        /\ userRefs = [u \in Users |-> 0]
        /\ buf = [c \in Chan |-> 0]

Goto(r, label) == pc' = [pc EXCEPT ![r] = label]

-----------------------------------------------------------------------------
(* getOrCreateCh, entered from acquireUser (idle) and releaseUser (held)   *)

\* userChs.LoadOrStore with the token put in whether or not the entry is new.
LoadOrStore_refill(r) ==
    LET u == UserOf[r]
        fresh == <<r, IF pc[r] = "idle" THEN "acquire" ELSE "release">>
        found == IF userChs[u] = NoChan THEN fresh ELSE userChs[u]
    IN  /\ pc[r] \in {"idle", "held"}
        /\ releasing' = IF pc[r] = "held" THEN releasing \union {r} ELSE releasing
        /\ userChs' = [userChs EXCEPT ![u] = found]
        /\ ch' = [ch EXCEPT ![r] = found]
        /\ Goto(r, "fill")
        /\ UNCHANGED <<userRefs, buf>>

\* userChs.LoadOrStore: only the call that stores its channel owes it a token.
LoadOrStore(r) ==
    LET u == UserOf[r]
        fresh == <<r, IF pc[r] = "idle" THEN "acquire" ELSE "release">>
        found == IF userChs[u] = NoChan THEN fresh ELSE userChs[u]
    IN  /\ pc[r] \in {"idle", "held"}
        /\ releasing' = IF pc[r] = "held" THEN releasing \union {r} ELSE releasing
        /\ userChs' = [userChs EXCEPT ![u] = found]
        /\ ch' = [ch EXCEPT ![r] = found]
        /\ Goto(r, IF userChs[u] = NoChan THEN "fill" ELSE "count")
        /\ UNCHANGED <<userRefs, buf>>

\* The token goes into the channel just created.
Fill(r) == /\ pc[r] = "fill"
           /\ buf[ch[r]] = 0
           /\ buf' = [buf EXCEPT ![ch[r]] = 1]
           /\ Goto(r, "count")
           /\ UNCHANGED <<releasing, ch, userChs, userRefs>>

\* A count that a releasing call does not take.
AddRef_acquireOnly(r) ==
    /\ pc[r] = "count"
    /\ userRefs' = IF r \in releasing THEN userRefs
                   ELSE [userRefs EXCEPT ![UserOf[r]] = @ + 1]
    /\ Goto(r, IF r \in releasing THEN "send" ELSE "wait")
    /\ UNCHANGED <<releasing, ch, userChs, buf>>

\* Both kinds of call increment the user's count, under usersMu.
AddRef(r) ==
    /\ pc[r] = "count"
    /\ userRefs' = [userRefs EXCEPT ![UserOf[r]] = @ + 1]
    /\ Goto(r, IF r \in releasing THEN "send" ELSE "wait")
    /\ UNCHANGED <<releasing, ch, userChs, buf>>

-----------------------------------------------------------------------------
(* acquireUser                                                             *)

TakeToken(r) == /\ pc[r] = "wait"
                /\ buf[ch[r]] = 1
                /\ buf' = [buf EXCEPT ![ch[r]] = 0]
                /\ Goto(r, "held")
                /\ UNCHANGED <<releasing, ch, userChs, userRefs>>

\* ctx.Done: the caller cancelled, or the 30 second start-up budget ran out.
\* The reference taken by getOrCreateCh is not given back.
GiveUp(r) == /\ pc[r] = "wait"
             /\ Goto(r, "gaveUp")
             /\ UNCHANGED <<releasing, ch, userChs, userRefs, buf>>

-----------------------------------------------------------------------------
(* releaseUser                                                             *)

\* A release that only drops its reference.
ReturnToken_forgotten(r) == /\ pc[r] = "send"
                            /\ Goto(r, "dec")
                            /\ UNCHANGED <<releasing, ch, userChs, userRefs, buf>>

\* The non-blocking send: a full channel keeps its one token.
ReturnToken(r) == /\ pc[r] = "send"
                  /\ buf' = [buf EXCEPT ![ch[r]] = 1]
                  /\ Goto(r, "dec")
                  /\ UNCHANGED <<releasing, ch, userChs, userRefs>>

\* decRef, under usersMu, drops both map entries when the count reaches zero.
DecRef(r) ==
    LET u == UserOf[r] IN
    /\ pc[r] = "dec"
    /\ userRefs' = [userRefs EXCEPT ![u] = IF @ = 0 THEN 0 ELSE @ - 1]
    /\ userChs' = [userChs EXCEPT ![u] = IF userRefs[u] = 1 THEN NoChan ELSE @]
    /\ Goto(r, "done")
    /\ UNCHANGED <<releasing, ch, buf>>

-----------------------------------------------------------------------------
Step(r) == \/ LoadOrStore(r) \/ Fill(r) \/ AddRef(r)
           \/ TakeToken(r)
           \/ ReturnToken(r) \/ DecRef(r)

Next == \E r \in Requests : Step(r) \/ GiveUp(r)

\* A goroutine that can run does run, and a holder eventually releases: its
\* sandbox is killed after maxSandboxDuration at the latest.  Giving up is
\* never required.
Fairness == \A r \in Requests : WF_vars(Step(r))

Spec == Init /\ [][Next]_vars
LiveSpec == Spec /\ Fairness

-----------------------------------------------------------------------------
(* Properties                                                              *)

TypeOK == /\ pc \in [Requests -> PC]
          /\ releasing \subseteq Requests
          /\ ch \in [Requests -> Chan \union {NoChan}]
          /\ userChs \in [Users -> Chan \union {NoChan}]
          /\ userRefs \in [Users -> Nat]
          /\ buf \in [Chan -> {0, 1}]

\* From the receive of the token to its return the request runs its sandbox.
Inside(r) == \/ pc[r] \in {"held", "send"}
             \/ r \in releasing /\ pc[r] \in {"fill", "count"}

\* Two requests of one user are never inside at once, although the channel
\* they lock can be looked up, created and dropped from the map around them
\* (comment at manager.go:37, "requests of a user run one after another").
MutualExclusion ==
    \A r, s \in Requests :
        r # s /\ UserOf[r] = UserOf[s] => ~(Inside(r) /\ Inside(s))

\* Whoever waits for a user's lock waits on the channel the next release will
\* find in the map: no waiter is left behind on a channel that was dropped.
NobodyStranded ==
    \A r \in Requests :
        pc[r] \in {"fill", "count", "wait"} => ch[r] = userChs[UserOf[r]]

\* Someone owes the lock its token while the channel is empty: the creator,
\* who has not put it yet, or the request inside.  A lost token would block
\* the user for ever.
TokenAccountedFor ==
    \A u \in Users :
        userChs[u] # NoChan /\ buf[userChs[u]] = 0 =>
            \E r \in Requests : UserOf[r] = u /\ (pc[r] = "fill" \/ Inside(r))

\* A request that waits gets the lock or gives up, whatever the others do.
WaitersServed == \A r \in Requests : pc[r] = "wait" ~> pc[r] # "wait"

\* The lock implements UserMutex.
stage == [r \in Requests |->
            IF Inside(r) THEN "inside"
            ELSE IF pc[r] \in {"gaveUp", "dec", "done"} THEN "left"
            ELSE "outside"]
Mutex == INSTANCE UserMutex
ImplementsMutex == Mutex!Spec
=============================================================================
