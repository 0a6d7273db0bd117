SPECIFICATION Spec
CONSTANTS
  MaxJson = 2
  Cmds = {"OPEN", "STOP"}
  Media <- TimedMix
  Playlists = {"show"}
  Repeats = {2}
  StartMedia = "logo"
  SpeedCount = 3
  SpeedDefault = 1
  QueueSize = 12
  MaxPlays = 7
  EndsUntil = 3
INVARIANTS PlayTimerRemovable StateKnown
\* The clients send at most MaxJson commands, then the window idles for ever.
CHECK_DEADLOCK FALSE
