SPECIFICATION Spec
CONSTANTS
  MaxJson = 2
  Cmds = {"OPEN", "STOP", "PAUSE", "RESUME", "FORWARD", "BACKWARD"}
  Media <- PlayableOnly
  Playlists = {}
  Repeats = {1}
  StartMedia = "film"
  SpeedCount = 3
  SpeedDefault = 1
  QueueSize = 12
  MaxPlays = 5
  EndsUntil = 1
INVARIANTS AnsweredOnce CurrentDataAlive
PROPERTIES NullOnlyAtStartup
\* The clients send at most MaxJson commands, then the window idles for ever.
CHECK_DEADLOCK FALSE
