SPECIFICATION FairSpec
CONSTANTS
  d = d
  e = e
  File = {r, d, e}
  SdFile = {r, d}
  Handle = {1, 2, ftp}
  RecFile = {r}
  RecHandle = {1, 2}
  FtpHandle = ftp
  Request <- MCRequest
  Duration = 2
  MaxCommand = 2
  None = None
INVARIANTS OutputMatchesStatus RecordedTimeIsRight CardIsProtected SuccessIsStored
PROPERTIES RecordingEnds CommandIsAnswered DownloadEnds
CHECK_DEADLOCK FALSE
