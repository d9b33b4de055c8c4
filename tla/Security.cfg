SPECIFICATION Spec
CONSTANTS
  Web = {w1, w2}
  Timer = timer
  Bodies = {b1, b2}
  Policies = {"off", "strict", "mild"}
  Covers <- OneHostAndNet
  Duration = 1
  Plans <- AllPlans
INVARIANTS
  FirewallTold
  PolicyAsSaved
  BansMatchEntries
PROPERTY
  EveryEntryEnds
CHECK_DEADLOCK FALSE
