SPECIFICATION Spec
CONSTANTS
  c1 = c1
  c2 = c2
  daemon = daemon
  web = web
  NoCall = NoCall
  Calls = {c1, c2}
  QueueExits = {"EXITWITHTIMEOUT"}
  MaxStream = 2
  MaxDrops = 1
  Collector = daemon
  Web = {}
  AgentsLeave = FALSE
SYMMETRY MCSymmetry
INVARIANTS TypeOK OutcomeFromLog BoardMirrors
