CONSTANTS
  Requests = {r1, r2, r3, r4}
  Users = {alice}
  UserOf <- OneUser
  NoChan = NoChan
  Calls = {"x", "y"}
  NoCall = "none"
  MaxConns = 3
  Names = {"db"}
  MaxLoads = 2
  OneCall = {"x"}
  FewConns = 1
  FewLoads = 1
  Certs = {"a", "b"}
  MaxRequests = 3
  MaxFaults = 1
  Addresses = {"p", "q"}
  Limit = 2
  Window = 2
  MaxTime = 4
  MaxTries = 5
  Creds = {"a"}
  Messages = {"m", "n"}
  Saves = {1, 2}
  MaxChannels = 3
  MaxCrashes = 1
  OneMessage = {"m"}
  OneSave = {1}
  FewChannels = 2
SPECIFICATION ServerSpec
CHECK_DEADLOCK FALSE
INVARIANTS
  MutualExclusion
  NobodyStranded
  
  NewestReachable
  
  WebSound
  
PROPERTIES
  ImplementsMutex
  WaitersServed
  
