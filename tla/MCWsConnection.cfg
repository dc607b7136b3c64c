CONSTANTS
  MaxSockets = 2
  Frames = 2
  Window = 1
  MaxFaults = 1
  NoSocket = NoSocket
SPECIFICATION FairSpec
INVARIANTS TypeOK OneLive WantedKept NormalMeansEnd
PROPERTY GoroutinesEnd
CHECK_DEADLOCK FALSE
