SPECIFICATION FairSpec
CONSTANTS
  HttpConn = {}
  RtspConn = {r}
  PushConn = {}
  HttpMonitor = hm
  RtspMonitor = rm
  MaxConnections = 1
  FifoSize = 1
  Resuming = TRUE
  None = None
PROPERTIES RequestIsRead
CHECK_DEADLOCK FALSE
