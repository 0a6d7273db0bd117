SPECIFICATION FairSpec
CONSTANTS
  HttpConn = {h}
  RtspConn = {r}
  PushConn = {p}
  HttpMonitor = hm
  RtspMonitor = rm
  MaxConnections = 2
  FifoSize = 1
  Resuming = FALSE
  None = None
INVARIANTS MembersAlive EventsAlive NoPacketLeft PlayersAreFed CountIsExact
PROPERTIES RequestIsAnswered RequestIsRead ResetIsNoticed
\* Every client connects once and may leave; then the server only polls.
CHECK_DEADLOCK FALSE
