CONSTANTS
  Items = {i1}
  NoItem = NoItem
  Projects = {i1}
  ProjectOf <- OwnProject
  MaxRun = 2
  MaxTask = 1
  StalledLimit = 1
  KillMayFail = FALSE
  MaxCrash = 0
  UserReleases = FALSE
  SelfSelect = FALSE
  GuardEnforces = TRUE
SPECIFICATION Spec
INVARIANTS
  TypeOK
  SlotHeldIffActive
  SettledTaskKept
  OpenTaskAccounted
  NoWorkerOnCancelledTask
PROPERTIES
  TerminalSettledOnce
  StartedNeverRetried
  StaleCloseSparesWatched
