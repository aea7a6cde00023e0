CONSTANTS
  Users = {"ann", "bob"}
  Admins = {"root", "op"}
  Groups = {"dev", "ops"}
  Directories <- SomeDirectories
  AccountRequests = {1, 2}
  MaxRequests = 3
  FewRequests = 2
  MaxChanges = 1
  Skills = {"pdf", "sql"}
  MaxSkillRequests = 4
  MaxFaults = 1
  StaffUsers = {"ann"}
  StaffGroups = {"dev"}
  FolderNames = {"docs", "plans"}
  FolderFiles = {"f"}
  MaxFolders = 2
  MaxFolderRequests = 5
  FewFolderRequests = 4
  WorkspaceSkills = {"pdf"}
  Tabs = {"a", "b"}
  MaxOps = 4
  Modes = {"local", "ldap"}
  Secrets = {"word", "digits"}
  SkillSources = {"team"}
  Operators = {"root", "op"}
  AtOnce = 2
  MaxSaves = 3
  FewSaves = 2
SPECIFICATION AdminSpec
CHECK_DEADLOCK FALSE
INVARIANTS
  
  
  FoldersSafe
  
PROPERTIES
  SuperadminsKept
