CONSTANTS
  MaxRuns = 4
  Senders = {s1, s2}
  OneSender = s1
  FewRuns = 2
  Clients = {c1, c2}
  NumEvents = 3
  Hidden = {2}
  MaxEvents = 2
  NotifCap = 1
  FewEvents = 2
  Streams = TRUE
  Errors = 2
  MaxReplyEvents = 5
  ReplyCap = 2
SPECIFICATION ChatSpec
CHECK_DEADLOCK FALSE
INVARIANTS
  OneAfterAnother
  SentInOrder
  NoPanic
  Answered
PROPERTIES
  StoppedEnds
  ImplementsLog
  StreamsServed
  Replies
