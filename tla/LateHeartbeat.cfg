SPECIFICATION LiveSpec
CONSTANTS
  MaxConn = 1
  MaxProbe = 2
  Servers = 1
  Reachable = {0}
PROPERTY
  LateHeartbeatReconnects
CHECK_DEADLOCK FALSE
