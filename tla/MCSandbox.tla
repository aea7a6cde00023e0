------------------------------ MODULE MCSandbox ------------------------------
(* Instances of Sandbox for TLC: who each call of Run is made for.         *)
EXTENDS Sandbox, TLC

CONSTANTS r1, r2, r3, alice, bob

\* Three calls for one user.
OneUser == [r \in {r1, r2, r3} |-> alice]

\* One call for each of two users.
TwoUsers == r1 :> alice @@ r2 :> bob
=============================================================================
