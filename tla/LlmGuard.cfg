CONSTANTS
  Threshold = 2
  Lookback = 1
  MaxNow = 3
  MaxManual = 1
  MaxRestart = 1
SPECIFICATION FairSpec
INVARIANTS
  TypeOK
  OwnershipDurable
PROPERTIES
  GuardPauseLifted
  OutagePauses
