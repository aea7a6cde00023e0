CONSTANTS
  MaxMsgs = 3
  MaxIter = 2
  MaxOverflow = 1
  MaxRetries = 1
  MaxEmpty = 1
  MaxAttempts = 2
  MaxCalls = 2
  Sizes = {1, 4}
  Budget = 6
  Channels = {"chat"}
  MaxTurns = 2
  MaxRounds = 2
  FsyncInterval = 2
  MaxKills = 1
  MaxShort = 1
  Names = {"a", "b"}
  MaxAgents = 2
  MCPCallers = {"agent", "helper"}
  Servers = {"browser", "agent"}
  MaxToolCalls = 2
  MaxBreaks = 2
  Writers = {"engine"}
  Texts = {1}
  MemoryBudget = 2
  MaxWrites = 3
  MaxNow = 1
  MaxSaid = 2
  MaxCollect = 2
  MaxFaults = 1
SPECIFICATION AgentSpec
CHECK_DEADLOCK FALSE
INVARIANTS
  ConversationKept
  
  HelpersSound
  InputInOrder
  
PROPERTIES
  AgentEnds
