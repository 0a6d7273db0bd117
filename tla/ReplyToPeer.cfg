SPECIFICATION Spec
CONSTANTS
  Client = {a, b, c}
  Datagram = {}
  Player = player
  Helper = {recorder}
  Ftp = ftp
  Web = web
  MaxFd = 2
  QueueSize = 1
  None = None
INVARIANTS ReplyReachesItsSender
\* Every client sends one command; then nothing is left to do.
CHECK_DEADLOCK FALSE
