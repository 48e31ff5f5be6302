------------------------------- MODULE Usbsas -------------------------------
(***************************************************************************)
(* A session of usbsas: the orchestrator with all its children, from the   *)
(* first request of the client (the web server, the imager, a script) to   *)
(* the answer to End.                                                      *)
(***************************************************************************)
EXTENDS CopyFiles

CONSTANTS
    Requests,   \* the kinds of request the client may make
    Dests,      \* destinations: a subset of {"Usb", "Net", "Cmd"}
    FsTypes,    \* file system types: a subset of {"Fat", "Ntfs", "Bad"}
    WipeDevs,   \* bus/device numbers a client asks to wipe
    DiskChunks, \* reads an image of the source device takes
    Crashable,  \* children that may die at any point
    MaxCrashes  \* how many of them do in one session

ASSUME DestsKnown == Dests \subseteq {"Usb", "Net", "Cmd"}
ASSUME DiskChunksPositive == DiskChunks \in Nat \ {0}
ASSUME CrashableAreProcs == Crashable \subseteq Procs
ASSUME MaxCrashesInNat == MaxCrashes \in Nat

VARIABLE
    crashes     \* children that have died

vars == <<ipcVars, orchVars, storeVars, crashes>>

---------------------------------------------------------------------------
(* Requests that are one call to a child: the state that serves them, the  *)
(* request, the point where the call is made and the state after it.       *)
Serves ==
    {<<s, "Id", "id", s>> : s \in {"Init", "DevOpened", "PartitionOpened"}}
    \cup {<<"Init", "Devices", "devices", "Init">>,
          <<"Init", "OpenDevice", "open", "DevOpened">>,
          <<"Init", "ImgDisk", "img_open", "ImgDisk">>,
          <<"DevOpened", "Partitions", "parts", "DevOpened">>,
          <<"DevOpened", "OpenPartition", "openpart", "PartitionOpened">>,
          <<"PartitionOpened", "GetAttr", "attr", "PartitionOpened">>,
          <<"PartitionOpened", "ReadDir", "readdir", "PartitionOpened">>,
          <<"TransferDone", "PostCopyCmd", "postcopy", "WaitEnd">>}

(* usbsas waits for a request and gets one of type t.                      *)
Asked(t) == pc = "recv" /\ t \in Requests

ClientCall ==
    /\ \E s \in Serves : /\ state = s[1]
                         /\ Asked(s[2])
                         /\ pc' = s[3]
    /\ answers' = <<>>
    /\ UNCHANGED <<ipcVars, state, wait, locked, nth, jobVars, loopVars,
                   reportVars, storeVars>>

ClientCallOk ==
    /\ \E s \in Serves : /\ state = s[1]
                         /\ CallOk(s[3])
                         /\ state' = s[4]
                         /\ pc' = IF s[3] = "img_open" THEN "img_start"
                                                       ELSE "recv"
                         /\ answers' = IF s[3] = "img_open" THEN <<>>
                                                            ELSE <<s[2]>>
                         /\ hasId' = (hasId \/ s[2] = "Id")
    /\ UNCHANGED <<st, req, locked, nth, dest, fstype, filtered, last, loopVars,
                   reportVars, storeVars>>

ClientCallFails_Advances ==
    /\ \E s \in Serves : /\ state = s[1]
                         /\ CallFails(s[3])
                         /\ state' = s[4]
    /\ pc' = "recv"
    /\ answers' = <<"Error">>
    /\ UNCHANGED <<st, req, locked, nth, jobVars, loopVars, reportVars,
                   storeVars>>

(* A failed call is answered by an error and leaves the state as it was,   *)
(* except after a transfer.                                                *)
ClientCallFails ==
    /\ \E s \in Serves : /\ state = s[1]
                         /\ CallFails(s[3])
    /\ state' = IF state = "TransferDone" THEN "WaitEnd" ELSE state
    /\ pc' = "recv"
    /\ answers' = <<"Error">>
    /\ UNCHANGED <<st, req, locked, nth, jobVars, loopVars, reportVars,
                   storeVars>>

(* A request that the state does not serve, CopyStart without an           *)
(* identified user included.                                               *)
BadRequest ==
    /\ Asked("Bad")
    /\ state' = IF state = "TransferDone" THEN "WaitEnd" ELSE state
    /\ answers' = <<"Error">>
    /\ UNCHANGED <<ipcVars, pc, wait, locked, nth, jobVars, loopVars, reportVars,
                   storeVars>>

(* A request with a missing field makes run() return Err.                  *)
MalformedRequest ==
    /\ Asked("Malformed")
    /\ state' = "WaitEnd"
    /\ answers' = <<"Error">>
    /\ UNCHANGED <<ipcVars, pc, wait, locked, nth, jobVars, loopVars, reportVars,
                   storeVars>>

CopyStart ==
    /\ Asked("CopyStart")
    /\ state = "PartitionOpened"
    /\ hasId
    /\ dest' \in Dests
    /\ fstype' \in FsTypes
    /\ state' = "CopyFiles"
    /\ pc' = "select"
    /\ answers' = <<>>
    /\ UNCHANGED <<ipcVars, wait, locked, nth, hasId, filtered, last, loopVars,
                   reportVars, storeVars>>

End ==
    /\ Asked("End")
    /\ pc' = "end"
    /\ nth' = 1
    /\ answers' = <<>>
    /\ UNCHANGED <<ipcVars, state, wait, locked, jobVars, loopVars, reportVars,
                   storeVars>>

---------------------------------------------------------------------------
(* WipeState: fs2dev zeroes the device unless the wipe is quick, then an   *)
(* empty file system is made and copied like that of a transfer (InitFs,   *)
(* ForwardBitVec, StartCopy, CopyDone).                                    *)
Wipe ==
    /\ Asked("Wipe")
    /\ state = "Init"
    /\ fstype' \in FsTypes
    /\ \/ /\ ~Closed("fs2dev")
          /\ \E busdev \in WipeDevs : req' = WriteUnlock("fs2dev", busdev)
          /\ locked' = locked \ {"fs2dev"}
          /\ state' = "Wipe"
          /\ pc' \in {"wipe", "fs_size"}
          /\ answers' = <<>>
       \/ /\ Closed("fs2dev")
          /\ state' = "WaitEnd"
          /\ answers' = <<"Error">>
          /\ UNCHANGED <<req, locked, pc>>
    /\ UNCHANGED <<st, rsp, wait, nth, hasId, dest, filtered, last, loopVars,
                   reportVars, storeVars>>

WipeStarted ==
    /\ pc = "wipe"
    /\ Read("fs2dev", "Wipe")
    /\ pc' = "wiping"
    /\ UNCHANGED <<st, req, state, wait, locked, nth, jobVars, loopVars,
                   reportVars, answers, storeVars>>

WipeZeroed ==
    /\ pc = "wiping"
    /\ Read("fs2dev", "CopyStatusDone")
    /\ wait' = "none"
    /\ pc' = "fs_size"
    /\ UNCHANGED <<st, req, state, locked, nth, jobVars, loopVars, reportVars,
                   answers, storeVars>>

WipeFails ==
    /\ \/ CallFails("wipe")
       \/ /\ pc = "wiping"
          /\ ReadFails("fs2dev", {"CopyStatus", "CopyStatusDone"})
          /\ wait' = "none"
    /\ RunFails
    /\ UNCHANGED <<st, req, locked, nth, jobVars, loopVars, reportVars,
                   storeVars>>

(* Mutant: the offset does not advance.                                    *)
ImgDisk_Forever ==
    /\ \/ CallOk("img_start") /\ pc' = "img_read"
       \/ CallOk("img_read") /\ pc' = "img_write"
       \/ CallOk("img_write") /\ pc' = "img_read"
    /\ off' = 0
    /\ UNCHANGED <<st, req, state, locked, nth, jobVars, todo, cur, reportVars,
                   answers, storeVars>>

(* ImgDiskState: the source device is read from end to end into the image. *)
ImgDisk ==
    /\ \/ /\ CallOk("img_start")
          /\ pc' = "img_read"
          /\ off' = 0
          /\ UNCHANGED <<state, answers>>
       \/ /\ CallOk("img_read")
          /\ pc' = "img_write"
          /\ UNCHANGED <<off, state, answers>>
       \/ /\ CallOk("img_write")
          /\ off' = off + 1
          /\ IF off' < DiskChunks
               THEN pc' = "img_read" /\ UNCHANGED <<state, answers>>
               ELSE RunEnds("ImgDisk", "WaitEnd")
    /\ UNCHANGED <<st, req, locked, nth, jobVars, todo, cur, reportVars,
                   storeVars>>

ImgDiskFails ==
    /\ \E p \in {"img_start", "img_read", "img_write"} : CallFails(p)
    /\ RunFails
    /\ UNCHANGED <<st, req, locked, nth, jobVars, loopVars, reportVars,
                   storeVars>>

---------------------------------------------------------------------------
(* The steps of usbsas: those it takes because the client asked, and those *)
(* it takes on its own.                                                    *)
ClientNext ==
    \/ ClientCall
    \/ BadRequest
    \/ MalformedRequest
    \/ CopyStart
    \/ Wipe
    \/ End

UsbsasNext ==
    \/ SendRequest
    \/ ClientCallOk
    \/ ClientCallFails
    \/ CopyFilesNext
    \/ WipeStarted
    \/ WipeZeroed
    \/ WipeFails
    \/ ImgDisk
    \/ ImgDiskFails
    \/ EndSend
    \/ EndReturn
    \/ WaitChild

ClientStep == ClientNext /\ UNCHANGED crashes
UsbsasStep == UsbsasNext /\ UNCHANGED crashes

(* The steps of the children.                                              *)
Files2TarStep ==
    Files2TarNext /\ UNCHANGED <<orchVars, index, imgVars, devVars, crashes>>
Tar2FilesStep ==
    Tar2FilesNext /\ UNCHANGED <<orchVars, imgVars, devVars, crashes>>
Files2FsStep ==
    Files2FsNext /\ UNCHANGED <<orchVars, tarVars, index, devVars, crashes>>
Fs2DevStep ==
    Fs2DevNext /\ UNCHANGED <<orchVars, tarVars, index, imgVars, crashes>>
Scsi2FilesStep ==
    Scsi2FilesNext /\ UNCHANGED <<orchVars, storeVars, crashes>>
Dev2ScsiStep ==
    Dev2ScsiNext /\ UNCHANGED <<orchVars, storeVars, crashes>>
ServicesStep ==
    ServicesNext /\ UNCHANGED <<orchVars, index, imgVars, devVars, crashes>>

ChildNext ==
    \/ Files2TarStep
    \/ Tar2FilesStep
    \/ Files2FsStep
    \/ Fs2DevStep
    \/ Scsi2FilesStep
    \/ Dev2ScsiStep
    \/ ServicesStep

(* A child dies.                                                           *)
Crash == /\ pc # "exit"
         /\ crashes < MaxCrashes
         /\ crashes' = crashes + 1
         /\ \E c \in Crashable : Die(c)
         /\ UNCHANGED <<orchVars, storeVars>>

(* usbsas has answered End and exits.                                      *)
Exited == pc = "exit" /\ UNCHANGED vars

Next ==
    \/ ClientStep
    \/ UsbsasStep
    \/ ChildNext
    \/ Crash
    \/ Exited

(* Usbsas::new() has spawned the children; those that do not wait for an   *)
(* unlock have run their InitState.                                        *)
Init ==
    /\ \E start \in [ServiceNames -> UNION {ServiceStart(c) : c \in ServiceNames}] :
          /\ \A c \in ServiceNames : start[c] \in ServiceStart(c)
          /\ st = [c \in Procs |->
                     CASE c \in WaitOnStartup \cup {"dev2scsi"} -> "Locked"
                       [] c = "files2fs" -> "WaitFsInfos"
                       [] c = "scsi2files" -> "ChildStarted"
                       [] c = "analyzer" -> IF Analyze THEN start[c].st
                                                       ELSE "End"
                       [] OTHER -> start[c].st]
          /\ rsp = [c \in Procs |->
                      IF c \in ServiceNames THEN start[c].rsp ELSE <<>>]
    /\ req = [c \in Procs |-> <<>>]
    /\ TarInit /\ IndexInit /\ ImgInit /\ DevInit
    /\ state = "Init" /\ pc = "recv" /\ wait = "none"
    /\ locked = WaitOnStartup
    /\ nth = 1
    /\ hasId = FALSE /\ dest = "Usb" /\ fstype = "Fat" /\ last = FALSE
    /\ todo = {} /\ cur = NoEntry /\ off = 0
    /\ files = {} /\ dirs = {} /\ filtered = {} /\ errors = {} /\ dirty = {}
    /\ hidden = {}
    /\ answers = <<>>
    /\ crashes = 0

(* Every process is a thread that the kernel schedules: it does not stop   *)
(* while it can move.  The client owes nothing.                            *)
Fairness ==
    /\ WF_vars(UsbsasStep)
    /\ WF_vars(Files2TarStep)
    /\ WF_vars(Tar2FilesStep)
    /\ WF_vars(Files2FsStep)
    /\ WF_vars(Fs2DevStep)
    /\ WF_vars(Scsi2FilesStep)
    /\ WF_vars(Dev2ScsiStep)
    /\ WF_vars(ServicesStep)

Spec == Init /\ [][Next]_vars
FairSpec == Spec /\ Fairness

---------------------------------------------------------------------------
(* Properties.                                                             *)

ProcStates == F2TStates \cup T2FStates \cup F2FStates \cup F2DStates
                  \cup S2FStates \cup D2SStates \cup ServiceStates

(* Types: every variable stays in the domain the code gives it.            *)
TypeOK ==
    /\ st \in [Procs -> ProcStates]
    /\ TarTypeOK /\ IndexTypeOK /\ ImgTypeOK /\ DevTypeOK
    /\ state \in States
    /\ pc \in DOMAIN CallOf \cup {"recv", "select", "tar_next", "analyzed",
                                  "dir_next", "w_next", "copying", "wiping",
                                  "end", "wait", "exit"}
    /\ wait \in Children \cup {"none", "epipe"}
    /\ locked \subseteq WaitOnStartup
    /\ hasId \in BOOLEAN /\ last \in BOOLEAN
    /\ dest \in {"Usb", "Net", "Cmd"}
    /\ files \subseteq Files /\ dirs \subseteq Dirs
    /\ filtered \subseteq Entries /\ errors \subseteq Entries
    /\ dirty \subseteq Files /\ todo \subseteq Entries
    /\ hidden \subseteq Entries
    /\ cur \in Entries \cup {NoEntry} /\ off \in Nat
    /\ nth \in 1 .. Len(EndOrder)
    /\ crashes \in 0 .. MaxCrashes

(* The unlock bytes of a child are written at most once, and before any    *)
(* message: only a child that still waits for them has some to read.       *)
(* Bytes written twice would be taken for the length of a message, and     *)
(* block the child in recv() for good.                                     *)
UnlockedOnce ==
    \A c \in WaitOnStartup :
        \A i \in DOMAIN req[c] :
            req[c][i].type = "Unlock" => i = 1 /\ st[c] \in {"Locked", "End"}

(* A child that waits for requests in its working states.                  *)
Serving(c) == st[c] \notin {"Locked", "LoadMetadata", "WaitEnd", "End"}

(* Requests and responses stay paired: a working child of whom usbsas      *)
(* awaits nothing has nothing in its pipes, so the next response read from *)
(* it is the answer to the next request and not a left over.  (A child     *)
(* that failed and waits for End may have one error in excess.)            *)
Lockstep ==
    \A c \in Children : Serving(c) /\ wait # c => req[c] = <<>> /\ rsp[c] = <<>>

(* tar2files never reads an archive that is still being written, and every *)
(* file it finds there is whole, although a file whose reading failed half *)
(* way is left unfinished by usbsas.                                       *)
TarReadComplete ==
    st["tar2files"] \in {"LoadMetadata", "MainLoop"} =>
        tarClosed /\ \A e \in Entries : tar[e] = -1 \/ InTar(e)

(* What fs2dev copies on the destination device is a finished file system, *)
(* and each file in it is whole unless the report lists it as an error.    *)
ImageComplete ==
    st["fs2dev"] = "Copying" \/ dev = "image" =>
        imgClosed /\ \A f \in Files : img[f] = -1 \/ InImage(f) \/ f \in errors

(* Only files that passed the filter and, with an analyzer, that it called *)
(* clean ever enter the image of the destination file system.              *)
OnlyClean ==
    \A f \in Files : img[f] >= 0 => f \in files /\ f \notin Rejected \cup dirty

(* A transfer to a device that ends with CopyDone and no error accounts    *)
(* for every file: it is in a list of the report, or whole on the device   *)
(* with the data of the source.  The files that usbsas cannot account for  *)
(* are those of a FAT or exFAT source whose failed reads ff_disk_read      *)
(* turned into zeros: they are copied as zeros, or are not listed.         *)
Accounted ==
    answers = <<"CopyDone">> /\ dest = "Usb" =>
        \A f \in Files \ hidden : \/ f \in filtered \cup errors \cup dirty
                                  \/ dev = "image" /\ InImage(f)

(* CopyDone tells the client that the destination device holds the image.  *)
CopyDoneMeansCopied ==
    (\E i \in DOMAIN answers : answers[i] = "CopyDone") /\ dest = "Usb"
        => dev = "image"

(* A transfer that is given up, because nothing is left to copy or because *)
(* the device is too small, has not touched the destination device.        *)
GiveUpLeavesDevice ==
    (\E i \in DOMAIN answers : answers[i] \in {"NothingToCopy", "NotEnoughSpace"})
        => dev = "old"

(* The destination device only changes while usbsas waits for a copy or a  *)
(* wipe that it asked for: not before, and not after it stopped waiting.   *)
DeviceOnlyOnDemand ==
    [][dev' # dev => wait = "fs2dev" /\ pc \in {"startcopy", "copying",
                                                "wipe", "wiping"}]_vars

(* A client gets one final answer to each request.                         *)
OneFinalAnswer == pc \in {"recv", "exit"} => Len(answers) <= 1

(* Every request of the client is answered, End included, for which all    *)
(* the children have to exit.                                              *)
RequestsAnswered == pc # "recv" ~> pc \in {"recv", "exit"}
============================================================================
