SPECIFICATION Spec
CONSTANTS
  c1 = c1
  c2 = c2
  daemon = daemon
  web = web
  NoCall = NoCall
  Calls = {c1}
  QueueExits = {"EXITWITHTIMEOUT"}
  MaxStream = 2
  MaxDrops = 0
  Collector = daemon
  Web = {web}
  AgentsLeave = FALSE
INVARIANT OutcomeFromLog
