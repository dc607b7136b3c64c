CONSTANTS
  MaxSockets = 2
  Frames = 2
  Window = 1
  MaxFaults = 1
  NoSocket = NoSocket
SPECIFICATION FairSpec
PROPERTY HealthyNotCut
CHECK_DEADLOCK FALSE
