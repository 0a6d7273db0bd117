-------------------------- MODULE Storage_proofs --------------------------
(***************************************************************************)
(* Proofs about the recorder and the FTP thread on one SD card, for every  *)
(* set of files and descriptors, every list of downloads and every number  *)
(* of commands.  The inductive invariant adds to the properties what each  *)
(* thread knows in the middle of its work.                                 *)
(***************************************************************************)
EXTENDS Storage, TLAPS

\* What the holder of the mutex relies on.
Sections ==
    /\ section = "opening" => status = "INIT" /\ media \in RecFile /\ recorded = 0 /\ elapsed = 0
    /\ \A h \in abandoned : writing[h] # None
    /\ section \in Closing => status \in Active /\ media \in RecFile /\ file[media] # "absent"
    /\ status \in Active => media \in RecFile /\ out \in RecHandle
    /\ status = "RECORDING" => since \in Nat
    /\ section \in {"opening", "commandCloses"} => answered < sent

\* What the FTP thread relies on.
Transfer ==
    /\ ftp \in {"get", "receive", "received"} => index < Len(request)
    /\ ftp = "receive" => writing[FtpHandle] = Current
    /\ ftp = "received" => file[Current] # "absent"

IInv ==
    /\ TypeOK /\ Sections /\ Transfer
    /\ OutputMatchesStatus /\ RecordedTimeIsRight /\ CardIsProtected

USE DEF Closing, Active

----------------------------------------------------------------------------
(* Downloads and recordings do not touch each other's files.               *)

LEMMA CurrentFile ==
    ASSUME FtpTypeOK, index < Len(request)
    PROVE  Current \in File /\ Current \notin RecFile
  <1>1. request \in Request
    BY DEF FtpTypeOK
  <1>2. request \in Seq(File)
    BY <1>1, FtpAssumption
  <1>3. index + 1 \in DOMAIN request
    BY <1>2 DEF FtpTypeOK
  <1> QED
    BY <1>1, <1>2, <1>3, StorageAssumption DEF Current

LEMMA InitIInv == Init => IInv
  <1> SUFFICES ASSUME Init PROVE IInv
    OBVIOUS
  <1> USE SdCardAssumption, RecorderAssumption, FtpAssumption DEF Init, SdCardInit, RecorderInit, FtpInit
  <1>1. TypeOK
    <2>1. SdCardTypeOK
      BY DEF SdCardTypeOK
    <2>a. failing \in BOOLEAN
      BY Zenon
    <2>2. RecorderTypeOK
      BY <2>a DEF RecorderTypeOK, State
    <2>3. FtpTypeOK
      BY DEF FtpTypeOK
    <2> QED
      BY <2>1, <2>2, <2>3 DEF TypeOK
  <1>2. Sections /\ Transfer /\ OutputMatchesStatus /\ RecordedTimeIsRight /\ CardIsProtected
    BY DEF Sections, Transfer, OutputMatchesStatus, RecordedTimeIsRight, CardIsProtected
  <1> QED
    BY <1>1, <1>2 DEF IInv

----------------------------------------------------------------------------
(* The recorder.                                                           *)

LEMMA RecorderStep ==
    ASSUME IInv, RecorderNext, UNCHANGED ftpVars
    PROVE  IInv'
  <1> USE SdCardAssumption, RecorderAssumption, StorageAssumption
      DEF cardVars, outsideVars, taskVars, ftpVars
  <1>0. /\ SdCardTypeOK /\ RecorderTypeOK /\ FtpTypeOK /\ Sections /\ Transfer
        /\ OutputMatchesStatus /\ RecordedTimeIsRight /\ CardIsProtected
    BY DEF IInv, TypeOK
  <1>f. FtpTypeOK' /\ Current' = Current
    BY <1>0 DEF FtpTypeOK, Current
  <1>c. index < Len(request) => Current \in File /\ Current \notin RecFile
    BY <1>0, CurrentFile
  <1> DEFINE Rest == SdCardTypeOK /\ RecorderTypeOK /\ Sections /\ Transfer
                     /\ OutputMatchesStatus /\ RecordedTimeIsRight /\ CardIsProtected
  <1> USE DEF SdCardTypeOK, RecorderTypeOK, Sections, Transfer, OutputMatchesStatus,
              RecordedTimeIsRight, CardIsProtected, InUse, Busy
  <1>1. CASE ReportEvent
    BY <1>0, <1>1, <1>f DEF ReportEvent, IInv, TypeOK
  <1>2. CASE AnswerOnly
    BY <1>0, <1>2, <1>f DEF AnswerOnly, Command, Answer, IInv, TypeOK
  <1>3. CASE Pause
    BY <1>0, <1>3, <1>f DEF Pause, Hold, Command, Answer, IInv, TypeOK
  <1>4. CASE Resume
    BY <1>0, <1>4, <1>f DEF Resume, Command, Answer, IInv, TypeOK
  <1>5. CASE Stop
    BY <1>0, <1>5, <1>f, <1>c DEF Stop, BeginClose, CloseFile, Command, IInv, TypeOK
  <1>6. ASSUME NEW f \in RecFile, StartUnknownFormat(f) PROVE IInv'
    BY <1>0, <1>6, <1>f DEF StartUnknownFormat, NewTask, MayStart, Command, Answer, IInv, TypeOK
  <1>7. ASSUME NEW f \in RecFile, Start(f) PROVE IInv'
    BY <1>0, <1>7, <1>f DEF Start, NewTask, MayStart, MakeWritable, CheckSDCardFile, Command, IInv, TypeOK
  <1>8. CASE OpenFails
    <2>1. CASE UNCHANGED <<file, writing, abandoned>>
      BY <1>0, <1>8, <1>f, <2>1 DEF OpenFails, IInv, TypeOK
    <2>2. ASSUME NEW h \in RecHandle, Open(h, media), abandoned' = abandoned \cup {h}
          PROVE  IInv'
      <3>1. /\ media \in RecFile /\ media \in File /\ h \in Handle /\ h # FtpHandle
            /\ writing' = [writing EXCEPT ![h] = media]
            /\ file' = [file EXCEPT ![media] = "partial"]
        BY <1>0, <1>8, <2>2 DEF OpenFails, Open
      <3>2. SdCardTypeOK' /\ RecorderTypeOK'
        BY <1>0, <1>8, <2>2, <3>1 DEF OpenFails
      <3>3. Sections' /\ Transfer'
        BY <1>0, <1>8, <1>f, <1>c, <2>2, <3>1 DEF OpenFails
      <3>4. OutputMatchesStatus' /\ RecordedTimeIsRight' /\ CardIsProtected'
        BY <1>0, <1>8, <2>2, <3>1 DEF OpenFails
      <3> QED
        BY <1>f, <3>2, <3>3, <3>4 DEF IInv, TypeOK
    <2> QED
      BY <1>8, <2>1, <2>2 DEF OpenFails
  <1>9. ASSUME NEW h \in RecHandle, OpenOutput(h) PROVE IInv'
    <2>1. /\ media \in RecFile /\ media \in File /\ h \in Handle /\ h # FtpHandle
          /\ writing[h] = None /\ media # None
          /\ writing' = [writing EXCEPT ![h] = media]
          /\ file' = [file EXCEPT ![media] = "partial"]
      BY <1>0, <1>9 DEF OpenOutput, Open, CanOpen
    <2>2. SdCardTypeOK' /\ RecorderTypeOK'
      BY <1>0, <1>9, <2>1 DEF OpenOutput, Answer
    <2>3. Sections' /\ Transfer'
      BY <1>0, <1>9, <1>f, <1>c, <2>1 DEF OpenOutput, Answer
    <2>4. OutputMatchesStatus'
      BY <1>0, <1>9, <2>1 DEF OpenOutput
    <2>5. RecordedTimeIsRight'
      BY <1>0, <1>9 DEF OpenOutput
    <2>6. CardIsProtected'
      BY <1>0, <1>9, <1>f, <2>1 DEF OpenOutput
    <2> QED
      BY <1>f, <2>2, <2>3, <2>4, <2>5, <2>6 DEF IInv, TypeOK
  <1>10. CASE EndClose
    BY <1>0, <1>10, <1>f, <1>c DEF EndClose, MakeReadOnly, CheckSDCardFile, IInv, TypeOK
  <1>11. CASE LastPacket
    BY <1>0, <1>11, <1>f, <1>c DEF LastPacket, BeginClose, CloseFile, IInv, TypeOK
  <1>12. CASE Tick
    BY <1>0, <1>12, <1>f DEF Tick, IInv, TypeOK
  <1>13. CASE Enter
    BY <1>0, <1>13, <1>f DEF Enter, State, IInv, TypeOK
  <1>15. CASE DiskFails
    <2>1. failing' \in BOOLEAN
      BY <1>15, Zenon DEF DiskFails
    <2>2. UNCHANGED <<capture, entering, sent, answered, thread, section, taskVars, cardVars>>
      BY <1>15, Zenon DEF DiskFails
    <2> QED
      BY <1>0, <2>1, <2>2, <1>f DEF IInv, TypeOK
  <1>14. ASSUME NEW s \in State, Notify(s) PROVE IInv'
    <2>1. CASE s = "STOP" /\ status = "RECORDING"
      <3>1. /\ section = "free" /\ BeginClose("notifyCloses", recorded)
            /\ entering' = s /\ UNCHANGED <<capture, failing, sent, answered, thread>>
        BY <1>14, <2>1 DEF Notify
      <3> QED
        BY <1>0, <1>f, <1>c, <2>1, <3>1 DEF BeginClose, CloseFile, IInv, TypeOK
    <2>2. CASE s = "PAUSE" /\ status = "RECORDING"
      BY <1>0, <1>14, <1>f, <2>2 DEF Notify, Hold, IInv, TypeOK
    <2>3. CASE ~(s \in {"STOP", "PAUSE"} /\ status = "RECORDING")
      BY <1>0, <1>14, <1>f, <2>3 DEF Notify, IInv, TypeOK
    <2> QED
      BY <2>1, <2>2, <2>3
  <1> QED
    BY <1>1, <1>2, <1>3, <1>4, <1>5, <1>6, <1>7, <1>8, <1>9, <1>10, <1>11, <1>12, <1>13, <1>14, <1>15
    DEF RecorderNext, Execute, Opened

----------------------------------------------------------------------------
(* The FTP thread.                                                         *)

LEMMA FtpStep ==
    ASSUME IInv, FtpNext, UNCHANGED recorderVars
    PROVE  IInv'
  <1> USE SdCardAssumption, RecorderAssumption, FtpAssumption, StorageAssumption
      DEF cardVars, outsideVars, taskVars, recorderVars
  <1>0. /\ SdCardTypeOK /\ RecorderTypeOK /\ FtpTypeOK /\ Sections /\ Transfer
        /\ OutputMatchesStatus /\ RecordedTimeIsRight /\ CardIsProtected
    BY DEF IInv, TypeOK
  <1>r. RecorderTypeOK' /\ RecordedTimeIsRight'
    BY <1>0 DEF RecorderTypeOK, RecordedTimeIsRight
  <1>c. index < Len(request) => Current \in File /\ Current \notin RecFile
    BY <1>0, CurrentFile
  <1> USE DEF SdCardTypeOK, FtpTypeOK, Sections, Transfer, OutputMatchesStatus,
              CardIsProtected, InUse, Busy
  <1>1. ASSUME NEW list \in Request, Download(list) PROVE IInv'
    BY <1>0, <1>r, <1>1 DEF Download, IInv, TypeOK
  <1>2. CASE Connect
    BY <1>0, <1>r, <1>2 DEF Connect, IInv, TypeOK
  <1>3. CASE ConnectFails
    BY <1>0, <1>r, <1>3 DEF ConnectFails, IInv, TypeOK
  <1>4. CASE Prepare
    BY <1>0, <1>r, <1>4 DEF Prepare, MakeWritable, CheckSDCardFile, Current, IInv, TypeOK
  <1>5. CASE OpenLocal
    BY <1>0, <1>r, <1>c, <1>5 DEF OpenLocal, Open, CanOpen, Current, IInv, TypeOK
  <1>6. CASE OpenLocalFails
    BY <1>0, <1>r, <1>6 DEF OpenLocalFails, GiveUp, IInv, TypeOK
  <1>7. CASE Refused
    <2>1. /\ Current \in File \ RecFile /\ writing[FtpHandle] = Current
          /\ \E content \in {"absent", "partial", "complete"} : file' = [file EXCEPT ![Current] = content]
          /\ writing' = [writing EXCEPT ![FtpHandle] = None]
      BY <1>0, <1>c, <1>7 DEF Refused, GiveUp, CloseFile
    <2>2. \A h \in RecHandle : writing'[h] = writing[h]
      BY <1>0, <2>1
    <2>3. \A f \in RecFile : file'[f] = file[f]
      BY <1>0, <2>1
    <2>4. SdCardTypeOK' /\ FtpTypeOK'
      BY <1>0, <2>1, <1>7 DEF Refused, GiveUp
    <2>5. Sections' /\ OutputMatchesStatus'
      BY <1>0, <2>2, <2>3 DEF RecorderTypeOK
    <2>6. Transfer' /\ CardIsProtected'
      BY <1>0, <1>c, <1>7, <2>1 DEF Refused, GiveUp, CloseFile, Current
    <2> QED
      BY <1>r, <2>4, <2>5, <2>6 DEF IInv, TypeOK
  <1>8. CASE WriteFails
    <2>1. /\ Current \in File \ RecFile /\ writing[FtpHandle] = Current
          /\ \E content \in {"absent", "partial", "complete"} : file' = [file EXCEPT ![Current] = content]
          /\ writing' = [writing EXCEPT ![FtpHandle] = None]
      BY <1>0, <1>c, <1>8 DEF WriteFails, GiveUp, CloseFile
    <2>2. \A h \in RecHandle : writing'[h] = writing[h]
      BY <1>0, <2>1
    <2>3. \A f \in RecFile : file'[f] = file[f]
      BY <1>0, <2>1
    <2>4. SdCardTypeOK' /\ FtpTypeOK'
      BY <1>0, <2>1, <1>8 DEF WriteFails, GiveUp
    <2>5. Sections' /\ OutputMatchesStatus'
      BY <1>0, <2>2, <2>3 DEF RecorderTypeOK
    <2>6. Transfer' /\ CardIsProtected'
      BY <1>0, <1>c, <1>8, <2>1 DEF WriteFails, GiveUp, CloseFile, Current
    <2> QED
      BY <1>r, <2>4, <2>5, <2>6 DEF IInv, TypeOK
  <1>9. CASE Received
    <2>1. /\ Current \in File \ RecFile /\ writing[FtpHandle] = Current
          /\ \E content \in {"absent", "partial", "complete"} : file' = [file EXCEPT ![Current] = content]
          /\ writing' = [writing EXCEPT ![FtpHandle] = None]
      BY <1>0, <1>c, <1>9 DEF Received, CloseFile
    <2>2. \A h \in RecHandle : writing'[h] = writing[h]
      BY <1>0, <2>1
    <2>3. \A f \in RecFile : file'[f] = file[f]
      BY <1>0, <2>1
    <2>4. SdCardTypeOK' /\ FtpTypeOK'
      BY <1>0, <2>1, <1>9 DEF Received, GiveUp
    <2>5. Sections' /\ OutputMatchesStatus'
      BY <1>0, <2>2, <2>3 DEF RecorderTypeOK
    <2>6. Transfer' /\ CardIsProtected'
      BY <1>0, <1>c, <1>9, <2>1 DEF Received, CloseFile, Current
    <2> QED
      BY <1>r, <2>4, <2>5, <2>6 DEF IInv, TypeOK
  <1>10. CASE Store
    BY <1>0, <1>r, <1>c, <1>10 DEF Store, MakeReadOnly, CheckSDCardFile, IInv, TypeOK
  <1>11. CASE ReplyFiles
    BY <1>0, <1>r, <1>11 DEF ReplyFiles, IInv, TypeOK
  <1> QED
    BY <1>1, <1>2, <1>3, <1>4, <1>5, <1>6, <1>7, <1>8, <1>9, <1>10, <1>11 DEF FtpNext, Work

----------------------------------------------------------------------------
(* Theorems.                                                               *)

LEMMA Stutter == ASSUME IInv, UNCHANGED vars PROVE IInv'
  BY DEF IInv, vars, cardVars, recorderVars, outsideVars, taskVars, ftpVars, TypeOK, SdCardTypeOK,
         RecorderTypeOK, FtpTypeOK, Sections, Transfer, OutputMatchesStatus, RecordedTimeIsRight,
         CardIsProtected, InUse, Busy, Current

\* IInv is an inductive invariant of the recorder and the FTP thread together.
THEOREM Invariance == Spec => []IInv
  <1>1. IInv /\ [Next]_vars => IInv'
    BY RecorderStep, FtpStep, Stutter DEF Next
  <1> QED
    BY InitIInv, <1>1, PTL DEF Spec

\* The results are the first names of the request, and each has been stored.
Stored ==
    /\ Len(results) = index
    /\ \A i \in DOMAIN results : results[i] = request[i] /\ file[results[i]] # "absent"
    /\ ftp = "wait" /\ errCode = "noError" => Len(results) = Len(request)

\* Whatever the recorder does, a name that stands for a file goes on doing so.
LEMMA RecorderKeeps ==
    ASSUME IInv, RecorderNext, NEW f \in File, file[f] # "absent"
    PROVE  file'[f] # "absent"
  <1>1. SdCardTypeOK
    BY DEF IInv, TypeOK
  <1> USE <1>1 DEF SdCardTypeOK, cardVars
  <1>2. \/ UNCHANGED file
        \/ \E h \in Handle : CloseFile(h, "complete")
        \/ \E h \in RecHandle : Open(h, media)
    <2>1. status = "RECORDING" \/ status = "PAUSE" => out \in Handle
      BY RecorderAssumption DEF IInv, Sections
    <2> QED
      BY <2>1 DEF RecorderNext, ReportEvent, Execute, AnswerOnly, Pause, Resume, Stop, StartUnknownFormat,
         Start, Opened, OpenFails, OpenOutput, EndClose, LastPacket, Tick, Enter, DiskFails, Notify, BeginClose
  <1> QED
    BY <1>2 DEF CloseFile, Open

LEMMA StoredStep == ASSUME IInv, Stored, [Next]_vars PROVE Stored'
  <1>0. SdCardTypeOK /\ FtpTypeOK /\ Transfer
    BY DEF IInv, TypeOK
  <1>q. request \in Request \cup {<<>>}
    BY <1>0, Zenon DEF FtpTypeOK
  <1>r. request \in Seq(File)
    <2>1. CASE request \in Request
      BY <2>1, FtpAssumption
    <2>2. CASE request = <<>>
      BY <2>2
    <2> QED
      BY <1>q, <2>1, <2>2
  <1>s. request \in Seq(File) /\ results \in Seq(File) /\ index \in 0 .. Len(request)
    BY <1>0, <1>r DEF FtpTypeOK
  <1>1. CASE RecorderNext /\ UNCHANGED ftpVars
    BY <1>1, <1>s, RecorderKeeps DEF Stored, ftpVars
  <1>2. CASE FtpNext /\ UNCHANGED recorderVars
    <2> USE DEF Stored, cardVars, GiveUp, SdCardTypeOK
    <2>1. ASSUME NEW list \in Request, Download(list) PROVE Stored'
      BY <2>1 DEF Download
    <2>2. CASE Connect \/ Prepare
      BY <2>2 DEF Connect, Prepare
    <2>3. CASE ConnectFails \/ OpenLocalFails \/ Refused \/ WriteFails
      BY <2>3 DEF ConnectFails, OpenLocalFails, Refused, WriteFails
    <2>4. CASE OpenLocal
      BY <1>0, <1>s, <2>4 DEF OpenLocal, Open
    <2>5. CASE Received
      BY <1>0, <1>s, <2>5 DEF Received, CloseFile
    <2>6. CASE Store
      <3>1. /\ ftp' = "next" /\ file' = file /\ request' = request
            /\ results' = Append(results, Current) /\ index' = index + 1 /\ file[Current] # "absent"
        BY <1>0, <2>6 DEF Store, Transfer
      <3>2. Current = request[index + 1] /\ Current \in File
        BY <1>0, <1>s, <2>6, CurrentFile DEF Current, Store, Transfer
      <3>3. DOMAIN results' = 1 .. Len(results) + 1 /\ DOMAIN results = 1 .. Len(results)
        BY <1>s, <3>1, <3>2
      <3>4. \A i \in DOMAIN results : results'[i] = results[i]
        BY <1>s, <3>1, <3>2
      <3>5. results'[Len(results) + 1] = Current
        BY <1>s, <3>1, <3>2
      <3> QED
        BY <1>s, <3>1, <3>2, <3>3, <3>4, <3>5
    <2>7. CASE ReplyFiles
      BY <2>7 DEF ReplyFiles
    <2> QED
      BY <1>2, <2>1, <2>2, <2>3, <2>4, <2>5, <2>6, <2>7 DEF FtpNext, Work
  <1>3. CASE UNCHANGED vars
    BY <1>3 DEF Stored, vars, cardVars, ftpVars
  <1> QED
    BY <1>1, <1>2, <1>3 DEF Next

\* A download reported as successful has stored every file that was asked for,
\* whatever the recorder does meanwhile.
THEOREM DownloadStored == Spec => []SuccessIsStored
  <1>1. Init => Stored
    BY DEF Init, FtpInit, Stored
  <1>2. IInv /\ Stored => SuccessIsStored
    <2> SUFFICES ASSUME IInv, Stored, ftp = "wait", errCode = "noError"
                 PROVE  results = request /\ \A i \in DOMAIN request : file[request[i]] # "absent"
      BY DEF SuccessIsStored
    <2>1. request \in Seq(File) /\ results \in Seq(File) /\ Len(results) = Len(request)
      BY FtpAssumption DEF IInv, TypeOK, FtpTypeOK, Stored
    <2> QED
      BY <2>1 DEF Stored
  <1> QED
    BY Invariance, <1>1, <1>2, StoredStep, PTL DEF Spec

\* The variables of card, recorder and FTP thread keep to their ranges.
THEOREM StorageTyped == Spec => []TypeOK
  BY Invariance, PTL DEF IInv

\* A recording's context is open exactly in RECORDING and PAUSE, whichever of the
\* three threads changes the task.
THEOREM OutputOpen == Spec => []OutputMatchesStatus
  BY Invariance, PTL DEF IInv

\* recordedTime is the time spent in RECORDING, for every order of pauses and resumes.
THEOREM TimeKept == Spec => []RecordedTimeIsRight
  BY Invariance, PTL DEF IInv

\* However recorder and FTP thread remount the card, it is read-only when unused.
THEOREM CardProtected == Spec => []CardIsProtected
  BY Invariance, PTL DEF IInv
=============================================================================
