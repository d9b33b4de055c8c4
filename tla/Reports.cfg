SPECIFICATION Spec
CONSTANTS
  Calls = {u1, u2}
  Legs = {g1, g2}
  HeadLines = 2
  Exts = {e1, e2}
  Plans <- AllPlans
  DayLen = 2
  FirstDay <- MonthStarts
  UtcOffset = 1
  Recipients = {"a", "b"}
  MailOf <- MailOfExt
  Forms <- AllForms
INVARIANTS
  EachLegOnce
  OccurrenceIsLatest
  OneCopyEach
  NotAlertedTwice
PROPERTY
  KeepsLegs
  ImportCatchesUp
  NoOccurrenceForgotten
CHECK_DEADLOCK FALSE
