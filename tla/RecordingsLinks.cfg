CONSTANTS
  nas1 = nas1
  nas2 = nas2
  Recs = {r1, r2}
  Providers = {nas1, nas2}
  Nas = {nas1, nas2}
  Spoolers = {s1}
  Exporters = {e1}
  Order <- OneNas
  KeepLocal = FALSE
  Policies <- MoveToNas2
  CleanDirs <- OnlyLocal
  Limit = 2
  CommitEvery = 2
  MountsDrop = FALSE
  MaxCrashes = 0
SPECIFICATION Spec
INVARIANTS LinksMaintained
CHECK_DEADLOCK FALSE
