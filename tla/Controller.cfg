SPECIFICATION FairSpec
CONSTANTS
  Client = {a, b, u}
  Datagram = {u}
  Player = player
  Helper = {}
  Ftp = ftp
  Web = web
  MaxFd = 2
  QueueSize = 1
  None = None
INVARIANTS NoUseAfterFree NoSilentEnd
PROPERTIES ImplementsCommandEngine TakenIsAnswered
\* Every client sends one command; then nothing is left to do.
CHECK_DEADLOCK FALSE
