CONSTANTS
  r1 = r1
  r2 = r2
  r3 = r3
  alice = alice
  bob = bob
  Requests = {r1, r2}
  Users = {alice, bob}
  UserOf <- TwoUsers
  Nobody = Nobody
SPECIFICATION Spec
INVARIANT WorkspaceKept
CHECK_DEADLOCK FALSE
