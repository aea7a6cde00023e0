SPECIFICATION Spec
CHECK_DEADLOCK FALSE
CONSTANTS
  Users = {"ann"}
  Groups = {"dev"}
  Names = {"docs", "plans"}
  Files = {"f"}
  Requests = {1}
  Reuse = {"create"}
  Failing = {}
  MaxFolders = 2
  MaxRequests = 4
  MaxFaults = 0
INVARIANT FilesKept
