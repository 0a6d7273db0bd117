------------------------------ MODULE Storage ------------------------------
(***************************************************************************)
(* The recorder and the FTP thread on one SD card.  Each makes the card    *)
(* writable before it opens a file and read-only after it has closed it,   *)
(* and neither knows of the other.                                         *)
(***************************************************************************)
EXTENDS MuxRecorder, FtpDownload

\* Recordings and downloads have different names and descriptors.
ASSUME StorageAssumption ==
    /\ FtpHandle \notin RecHandle
    /\ \A list \in Request : \A i \in DOMAIN list : list[i] \notin RecFile

vars == <<recorderVars, ftpVars, cardVars>>

Init == SdCardInit /\ RecorderInit /\ FtpInit

Next ==
    \/ RecorderNext /\ UNCHANGED ftpVars
    \/ FtpNext /\ UNCHANGED recorderVars

Spec == Init /\ [][Next]_vars

\* The threads go on, and what waits for mutexLock gets it.  LastPacket is fair
\* only towards a disk that is not failing: where writes go on failing, it is never
\* enabled, and DiskFails need not happen again.
FairSpec ==
    /\ Spec
    /\ SF_vars(Execute /\ UNCHANGED ftpVars)
    /\ WF_vars(Opened /\ UNCHANGED ftpVars)
    /\ WF_vars(EndClose /\ UNCHANGED ftpVars)
    /\ WF_vars(Tick /\ UNCHANGED ftpVars)
    /\ SF_vars(LastPacket /\ UNCHANGED ftpVars)
    /\ WF_vars(Enter /\ UNCHANGED ftpVars)
    /\ WF_vars(Work /\ UNCHANGED recorderVars)

----------------------------------------------------------------------------

TypeOK == SdCardTypeOK /\ RecorderTypeOK /\ FtpTypeOK

\* Somebody is between making the card writable and making it read-only again.
InUse ==
    \/ section # "free" /\ media \in SdFile
    \/ ftp \in {"get", "receive", "received"} /\ Current \in SdFile
    \/ Busy

\* Whatever the order in which the recorder and the FTP thread remount the card,
\* it is read-only when nobody uses it, unless somebody has failed.
CardIsProtected == card = "rw" => InUse \/ spoiled
=============================================================================
