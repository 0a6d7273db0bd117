SPECIFICATION FairSpec
CONSTANTS
  MaxJson = 2
  Cmds = {"OPEN", "STOP"}
  Media <- StreamsOnly
  Playlists = {}
  Repeats = {0, 1}
  StartMedia = "logo"
  SpeedCount = 3
  SpeedDefault = 1
  QueueSize = 12
  MaxPlays = 5
  EndsUntil = 2
INVARIANTS TypeOK NoCommandForgotten OneSetMediaThread
PROPERTIES ServesCommands
\* The clients send at most MaxJson commands, then the window idles for ever.
CHECK_DEADLOCK FALSE
