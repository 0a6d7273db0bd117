---------------------------- MODULE FtpDownload ----------------------------
(***************************************************************************)
(* The FTP thread (cmnMuxFtpThread.c, FtpXfer of cmnFtpLib.c): it downloads *)
(* the files of one command after the other, makes the SD card writable    *)
(* for each file that is on it, and read-only afterwards.                  *)
(***************************************************************************)
EXTENDS SdCard, Naturals, Sequences

CONSTANTS
    Request,      \* the lists of files that a command may ask for
    FtpHandle     \* the descriptor of the local file

ASSUME FtpAssumption == FtpHandle \in Handle /\ Request \subseteq Seq(File)

VARIABLES
    ftp,          \* where the FTP thread is
    request,      \* client->downloadFileList
    index,        \* the loop's i: files of the list that are done with
    results,      \* client->downloadResults
    errCode       \* dataConn->errCode of the last reply

ftpVars == <<ftp, request, index, results, errCode>>

FtpInit ==
    ftp = "wait" /\ request = <<>> /\ index = 0 /\ results = <<>> /\ errCode = "noError"

Current == request[index + 1]

Download(list) ==
    /\ ftp = "wait" /\ ftp' = "connect"
    /\ request' = list /\ index' = 0 /\ results' = <<>> /\ errCode' = "noError"
    /\ UNCHANGED cardVars

Connect ==
    /\ ftp = "connect" /\ ftp' = "next"
    /\ UNCHANGED <<request, index, results, errCode, cardVars>>

\* The server is not there, or it does not know the user.
ConnectFails ==
    /\ ftp = "connect" /\ ftp' = "wait"
    /\ errCode' = "serverError" /\ request' = <<>> /\ index' = 0 /\ results' = <<>>
    /\ UNCHANGED cardVars

\* The next file of the list.
Prepare ==
    /\ ftp = "next" /\ index < Len(request)
    /\ MakeWritable(Current)
    /\ ftp' = "get"
    /\ UNCHANGED <<request, index, results, errCode, file, writing, spoiled>>

\* Mutant: the reply says that nothing went wrong.
MutGiveUp ==
    /\ ftp' = "wait" /\ errCode' = "noError" /\ spoiled' = TRUE
    /\ UNCHANGED <<request, index, results, card>>

\* Mutant: the file is tried again.
MutTryAgain ==
    /\ ftp' = "next" /\ spoiled' = TRUE
    /\ UNCHANGED <<request, index, results, errCode, card>>

\* The first file that fails ends the command: no other file is tried, those
\* already stored are not listed, and the card is left as it is.  The CMN_FTP_CLIENT
\* with both lists is not freed, and nobody finds it again.
GiveUp ==
    /\ ftp' = "wait" /\ errCode' = "dataError" /\ spoiled' = TRUE
    /\ request' = <<>> /\ index' = 0 /\ results' = <<>>
    /\ UNCHANGED card

OpenLocal ==
    /\ ftp = "get" /\ ftp' = "receive"
    /\ Open(FtpHandle, Current)
    /\ UNCHANGED <<request, index, results, errCode, card, spoiled>>

OpenLocalFails ==
    /\ ftp = "get" /\ GiveUp
    /\ UNCHANGED <<file, writing>>

\* The server does not have the file: what was opened is removed.
Refused ==
    /\ ftp = "receive" /\ GiveUp
    /\ CloseFile(FtpHandle, "absent")

WriteFails ==
    /\ ftp = "receive" /\ GiveUp
    /\ CloseFile(FtpHandle, "partial")

\* FtpRead returns 0 at the end of the file and when the connection breaks, and
\* FtpXfer takes both for success.
Received ==
    /\ ftp = "receive" /\ ftp' = "received"
    /\ \E content \in {"complete", "partial"} : CloseFile(FtpHandle, content)
    /\ UNCHANGED <<request, index, results, errCode, card, spoiled>>

\* Mutant: the card is made read-only once, after the last file.
MutStore ==
    /\ ftp = "received" /\ ftp' = "next"
    /\ IF index + 1 = Len(request) THEN MakeReadOnly(Current) ELSE UNCHANGED card
    /\ results' = Append(results, Current) /\ index' = index + 1
    /\ UNCHANGED <<request, errCode, file, writing, spoiled>>

Store ==
    /\ ftp = "received" /\ ftp' = "next"
    /\ MakeReadOnly(Current)
    /\ results' = Append(results, Current) /\ index' = index + 1
    /\ UNCHANGED <<request, errCode, file, writing, spoiled>>

ReplyFiles ==
    /\ ftp = "next" /\ index = Len(request)
    /\ ftp' = "wait"
    /\ UNCHANGED <<request, index, results, errCode, cardVars>>

Work ==
    \/ Connect \/ ConnectFails \/ Prepare \/ OpenLocal \/ OpenLocalFails
    \/ Refused \/ WriteFails \/ Received \/ Store \/ ReplyFiles

FtpNext == Work \/ \E list \in Request : Download(list)

----------------------------------------------------------------------------
(* Properties.                                                             *)

FtpTypeOK ==
    /\ ftp \in {"wait", "connect", "next", "get", "receive", "received"}
    /\ request \in Request \cup {<<>>} /\ results \in Seq(File)
    /\ index \in 0 .. Len(request)
    /\ errCode \in {"noError", "serverError", "dataError"}

\* A download that is reported as successful lists every file that was asked for and
\* has put something on the disk for each; of a broken connection it is not told.
SuccessIsStored ==
    ftp = "wait" /\ errCode = "noError" =>
        /\ results = request
        /\ \A i \in DOMAIN request : file[request[i]] # "absent"

\* A server that answers or goes away lets every download command end.
DownloadEnds == ftp # "wait" ~> ftp = "wait"
=============================================================================
