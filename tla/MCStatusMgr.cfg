CONSTANTS
  i1 = i1
  i2 = i2
  u1 = u1
  u2 = u2
  NoUser = NoUser
  Instances <- MCInstances
  Users <- MCUsers
  FirstUsers <- MCFirstUsers
  FlagMod = 2
  Exclusive = TRUE
  MayGiveUp = TRUE
  LogSize = 2
  MaxOps = 5
  MaxDay = 3
  MaxCrashes = 1
CONSTRAINT OneMishap
SYMMETRY Symmetry
SPECIFICATION Spec
INVARIANTS
  TypeOK
  UniqueQScan
  NoUserLost
  UsersCounted
  MaintenanceOnce
  CallsAccounted
  StaleIsFlagged
CHECK_DEADLOCK FALSE
