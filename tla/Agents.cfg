SPECIFICATION Spec
CONSTANTS
  Agents = {a1}
  Collector = collector
  Web = {w1}
  Days <- AllDays
INVARIANTS
  PauseFits
  
PROPERTY
  BoardSettles
CHECK_DEADLOCK FALSE
