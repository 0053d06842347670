CONSTANTS
  NumInstances = 2
  Channels <- MCChannels
  CH1 = "ch1"
  Sysops <- MCSysops
  Invisible <- MCSysops
  MaxCommands = 3
  MaxFaults = 1
SPECIFICATION FairSpec
INVARIANTS TypeOK NothingLost EveryoneTold SecuredKeepsOut
PROPERTIES InOrder FileIsTaken HangupEnds
CHECK_DEADLOCK FALSE
