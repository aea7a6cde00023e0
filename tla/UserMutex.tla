------------------------------ MODULE UserMutex ------------------------------
(***************************************************************************)
(* What internal/sandbox/manager.go promises about one user's sandboxes:   *)
(* a request waits, then either gets the user to itself until it releases  *)
(* it, or gives up; no two requests of a user are ever inside together.    *)
(* Users do not disturb each other.  UserLock is the implementation.       *)
(***************************************************************************)
CONSTANTS Requests,   \* calls of Manager.Run
          Users,
          UserOf      \* the username each call is made for

VARIABLE stage        \* where each request is with respect to its user

Stages == {"outside", "inside", "left"}

Init == stage = [r \in Requests |-> "outside"]

Rivals(r) == {s \in Requests \ {r} : UserOf[s] = UserOf[r]}

Enter(r) == /\ stage[r] = "outside"
            /\ \A s \in Rivals(r) : stage[s] # "inside"
            /\ stage' = [stage EXCEPT ![r] = "inside"]

Leave(r) == /\ stage[r] = "inside"
            /\ stage' = [stage EXCEPT ![r] = "left"]

\* A caller whose context ends while it waits never enters.
Abandon(r) == /\ stage[r] = "outside"
              /\ stage' = [stage EXCEPT ![r] = "left"]

Next == \E r \in Requests : Enter(r) \/ Leave(r) \/ Abandon(r)

Spec == Init /\ [][Next]_stage
=============================================================================
