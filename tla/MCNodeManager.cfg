CONSTANTS
  telnet = telnet
  ssh = ssh
  c1 = c1
  c2 = c2
  c3 = c3
  None = None
  Servers <- MCServers
  Callers <- MCCallers
  lowNode = 1
  highNode = 2
  Blacklisted <- MCBlacklisted
  MayHangUp = TRUE
  MayStop = TRUE
SPECIFICATION FairSpec
INVARIANTS
  TypeOK
  NodeExclusive
  OwnedIsInUse
  InUseIsOwned
PROPERTIES
  AcceptedIsAnswered
  EndedIsFreed
