CONSTANTS
  MaxBatches = 3
  MaxTasks = 3
  Capacity = 1
  Jobs = {j1, j2}
  Every = Every
  Weekly = Weekly
  Once = {noon}
  Slots = {e1, e2}
  Handlers = {h1}
  Idle = Idle
  MaxStops = 2
  Edited = {j1}
  Users = {v1, v2, v3, v4}
  MaxIP = 4
  Hash <- AnyHash
  Sharing = {v1, v2}
SPECIFICATION JobsSpec
CHECK_DEADLOCK FALSE
INVARIANTS
  TasksInOrder
  StatusFinal
  
  NoJobLost
  
PROPERTIES
  WorkGetsDone
