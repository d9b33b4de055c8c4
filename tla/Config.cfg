CONSTANTS
  Objects <- All
  KindOf <- Kind
  NumberOf <- Number
  None <- NoRef
  Workers = {"web1", "web2"}
  Start <- Days
  MaxRequests = 2
SPECIFICATION Spec
INVARIANTS KeptInStep PendingTold NothingLost NoDangling
CHECK_DEADLOCK FALSE
