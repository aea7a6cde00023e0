CONSTANTS
  Clients = {c1, c2}
  NumEvents = 3
  Hidden = {2}
  MaxEvents = 3
  NotifCap = 1
SPECIFICATION Spec
INVARIANT NoPanic
CHECK_DEADLOCK FALSE
