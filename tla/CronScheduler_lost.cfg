CONSTANTS
  Jobs = {j1, j2}
  Every = Every
  Weekly = Weekly
  Once = {}
  Slots = {e1, e2}
  Handlers = {h1}
  Idle = Idle
  MaxStops = 1
SPECIFICATION CrashSpec
CHECK_DEADLOCK FALSE
INVARIANT NoJobLost
