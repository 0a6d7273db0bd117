------------------------------- MODULE SdCard -------------------------------
(***************************************************************************)
(* The files that recordings and downloads write, and the SD card, which   *)
(* is mounted read-only except while somebody writes to it                 *)
(* (cmnMediaScanFileList.c).  The recorder and the FTP thread share it     *)
(* without a lock; the kernel refuses to make it read-only while a file on *)
(* it is open for writing.                                                 *)
(***************************************************************************)
CONSTANTS
    File,         \* names of the files
    SdFile,       \* those on the SD card; the others are on a USB disk
    Handle,       \* open files of the process
    None          \* no file

ASSUME SdCardAssumption == SdFile \subseteq File /\ None \notin File \cup Handle

VARIABLES
    card,         \* how the SD card is mounted
    file,         \* what is stored under each name
    writing,      \* the file each handle is open on
    spoiled       \* somebody has failed and not cleaned up (a history)

cardVars == <<card, file, writing, spoiled>>

SdCardTypeOK ==
    /\ card \in {"ro", "rw"}
    /\ file \in [File -> {"absent", "partial", "complete"}]
    /\ writing \in [Handle -> File \cup {None}]
    /\ spoiled \in BOOLEAN

SdCardInit ==
    /\ card = "ro"
    /\ file \in [File -> {"absent", "complete"}]
    /\ \A f \in File \ SdFile : file[f] = "absent"   \* nobody asks for those
    /\ writing = [h \in Handle |-> None]
    /\ spoiled = FALSE

\* cmnMediaCheckSDCardFile: realpath fails for a file that does not exist.
CheckSDCardFile(f) == f \in SdFile /\ file[f] # "absent"

Busy == \E h \in Handle : writing[h] \in SdFile

\* cmnMediaRemountSDCard(TRUE), when the file is on the card.
MakeWritable(f) == card' = IF CheckSDCardFile(f) THEN "rw" ELSE card

\* cmnMediaRemountSDCard(FALSE), when the file is on the card; the result of
\* mount is not looked at.
MakeReadOnly(f) == card' = IF CheckSDCardFile(f) /\ ~Busy THEN "ro" ELSE card

CanOpen(h, f) == writing[h] = None /\ (f \in SdFile => card = "rw")

Open(h, f) ==
    /\ CanOpen(h, f)
    /\ writing' = [writing EXCEPT ![h] = f]
    /\ file' = [file EXCEPT ![f] = "partial"]

CloseFile(h, content) ==
    /\ writing' = [writing EXCEPT ![h] = None]
    /\ file' = [file EXCEPT ![writing[h]] = content]
=============================================================================
