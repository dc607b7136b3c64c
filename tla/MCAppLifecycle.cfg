CONSTANTS
  Users = {u1, u2, u3}
  MaxConns = 2
  MaxOutages = 1
  MaxFailures = 1
  MaxStarts = 2
SPECIFICATION FairSpec
INVARIANTS TypeOK PoolOutlivesRequests ExitTold
PROPERTY StopCompletes
CHECK_DEADLOCK FALSE
