CONSTANTS
  r1 = r1
  r2 = r2
  r3 = r3
  alice = alice
  bob = bob
  Requests = {r1, r2, r3}
  Users = {alice}
  UserOf <- OneUser
  Nobody = Nobody
SPECIFICATION LiveSpec
CHECK_DEADLOCK FALSE
INVARIANTS
  OwnSnapshot
  WorkspaceKept
  NoLeftovers
  OneFreeAgent
PROPERTY EveryCallEnds
