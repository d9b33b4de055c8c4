SPECIFICATION Spec
CONSTANTS
  Macs = {g1}
  Models <- GRP
  ModelOf <- TheModel
  MaxId = 2
  Workers = {x1, x2}
  Web = {w1, w2}
  Jobs = {j1, j2}
  Plans <- AllPlans
INVARIANTS
  OneOperationAtATime
  RecordMatchesFile
PROPERTY
  NeverOlder
  PhoneNotBlocked
CHECK_DEADLOCK FALSE
