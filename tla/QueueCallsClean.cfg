SPECIFICATION FairSpec
CONSTANTS
  c1 = c1
  c2 = c2
  daemon = daemon
  web = web
  NoCall = NoCall
  Calls = {c1}
  QueueExits = {}
  MaxStream = 2
  MaxDrops = 1
  Collector = daemon
  Web = {web}
  AgentsLeave = TRUE
INVARIANT AnsweredIsFinal
PROPERTY EventuallyClean
