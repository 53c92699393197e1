CONSTANTS
  RECONNECT_TIME = 1
  PING_INTERVAL = 2
  PING_TIMEOUT = 12
  MaxConnections = 2
  None = None
SPECIFICATION FairSpec
INVARIANTS TypeOK Watched DeadDetected
PROPERTIES Returns FirstConnectionTimeout LivesAsUpstreamSocket
CHECK_DEADLOCK FALSE
