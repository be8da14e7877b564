CONSTANTS
  Items = {i1}
  NoItem = NoItem
  Projects = {i1}
  ProjectOf <- OwnProject
  MaxRun = 1
  MaxTask = 2
  StalledLimit = 1
  KillMayFail = FALSE
  MaxCrash = 0
  UserReleases = FALSE
  SelfSelect = FALSE
  GuardEnforces = TRUE
SPECIFICATION FairSpec
PROPERTY LedgerSpec
