CONSTANTS
  i1 = i1
  i2 = i2
  u1 = u1
  u2 = u2
  NoUser = NoUser
  Instances <- MCInstances
  Users <- MCUsers
  FirstUsers <- MCFirstUsers
  FlagMod = 2
  Exclusive = FALSE
  MayGiveUp = FALSE
  LogSize = 2
  MaxOps = 6
  MaxDay = 1
  MaxCrashes = 0
SPECIFICATION Spec
INVARIANT WriteLock
CHECK_DEADLOCK FALSE
