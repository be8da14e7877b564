CONSTANTS
  Items = {i1}
  NoItem = NoItem
  Projects = {i1}
  ProjectOf <- OwnProject
  MaxRun = 1
  MaxTask = 2
  StalledLimit = 1
  KillMayFail = FALSE
  MaxCrash = 1
  UserReleases = TRUE
  SelfSelect = TRUE
  GuardEnforces = FALSE
SPECIFICATION FairSpec
INVARIANTS
  CancelOnce
  LiveWorkerOnRecord
PROPERTIES
  SlotReleased
  QuotaResolved
