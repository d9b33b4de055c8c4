CONSTANTS
  recording = recording
  cdrRow = cdrRow
  Pages = {p1}
  Items = {recording, cdrRow}
  CategoryOf <- Category2
  FileCats = {"Recordings"}
  RowCats = {"CDR"}
  PageRules <- SomePageRules
  AutoConfigs <- EnabledConfigs
  Providers = 1
  DirOf <- Local
  Batch = 1
  DefaultDays = 0
  MaxDay = 1
  MaxFaults = 1
SPECIFICATION FairSpec
INVARIANTS TypeOK CompletedIsComplete FinalMeansOver
PROPERTIES ScheduleUnlessStuck
CHECK_DEADLOCK FALSE
