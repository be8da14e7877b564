CONSTANTS
  Items = {i1, i2}
  NoItem = NoItem
  Projects = {i1}
  ProjectOf <- OneProject
  MaxRun = 1
  MaxTask = 1
  StalledLimit = 1
  KillMayFail = FALSE
  MaxCrash = 0
  UserReleases = FALSE
  SelfSelect = FALSE
  GuardEnforces = FALSE
SPECIFICATION Spec
INVARIANT OneItemPerProject
