SPECIFICATION FairSpec
CONSTANTS
  c1 = c1
  c2 = c2
  daemon = daemon
  web = web
  Calls = {c1, c2}
  Kinds = {"ENTERQUEUE", "CONNECT", "COMPLETE", "RINGNOANSWER"}
  Collector = daemon
  Web = {web}
  HeadLines = 2
  Fronts = {"short"}
  LockOpens = TRUE
  FilesTear = FALSE
  MaxLines = 4
  MaxRotations = 2
  MaxCrashes = 1
INVARIANTS TypeOK PlaceIsHonest
PROPERTIES KeepsContract CatchesUpOrPoisoned
