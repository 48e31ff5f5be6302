------------------------- MODULE SessionInvariants --------------------------
(***************************************************************************)
(* The inductive invariants of a session, which the proofs are about.      *)
(*                                                                         *)
(* TypeInv     every variable and every message has its type               *)
(* ControlInv  usbsas is at a point of its state, and has not answered yet *)
(* PipeInv     child by child, what may be in its pipes, whom usbsas takes *)
(*             for locked and for whom it waits                            *)
(* WriterInv   what files2tar and files2fs handle is what usbsas asked     *)
(*             last, and what they left unread cannot be taken for a       *)
(*             success                                                     *)
(* TarSync     usbsas and files2tar are at the same chunk of the same entry*)
(* ImgSync     so are usbsas and files2fs                                  *)
(* TarInv      what is in the archive, and who may know of it              *)
(* CleanInv    what is in the list of files, and so in the image           *)
(* ImgInv      how much of each file is in the image                       *)
(* DevInv      when the destination device is still untouched              *)
(* AccountInv  where each file of the source is: in the list, the archive, *)
(*             the image, the report                                       *)
(* FinalInv    what fs2dev says during a copy that no write error          *)
(*             interrupts                                                  *)
(***************************************************************************)
EXTENDS Usbsas

---------------------------------------------------------------------------
(* What travels in the pipes.                                              *)
ReqTypes == {"Id", "Devices", "OpenDevice", "Partitions", "OpenPartition",
             "GetAttr", "ReadDir", "ReadFile", "ReadSectors", "PostCopyExec",
             "Exec", "DevSize", "WriteFile", "EndFile", "Close", "Analyze",
             "Upload", "SetFsInfos", "BitVec", "LoadBitVec", "StartCopy",
             "Wipe", "ImgDisk", "WriteData", "End"}

Reqs ==
    [type : ReqTypes]
    \cup [type : {"NewFile", "GetAttr", "ReadFile"}, path : Entries \cup {NoEntry}]
    \cup [type : {"WriteFile"}, offset : Nat]
    \cup [type : {"SetFsInfos"}, fstype : FsTypes \cup {"Fat"}]
    \cup [type : {"LoadBitVec"}, last : BOOLEAN]
    \cup [type : {"Unlock"}, value : WipeDevs \cup {0, 1, 2}]

RspTypes == (ReqTypes \ {"Analyze", "BitVec"})
                \cup {"NewFile", "Error", "UploadStatus", "CopyStatus",
                      "CopyStatusDone"}

Rsps ==
    [type : RspTypes] \cup {Zeros}
    \cup [type : {"Analyze"}, clean : SUBSET Files, dirty : SUBSET Files]
    \cup [type : {"BitVec"}, last : BOOLEAN]

IpcTypeOK == /\ st \in [Procs -> ProcStates]
             /\ req \in [Procs -> Seq(Reqs)]
             /\ rsp \in [Procs -> Seq(Rsps)]

(* files2fs.  It hands out the bit vector once, and counts its messages.   *)
BitVecInv ==
    /\ st["files2fs"] \in {"WaitFsInfos", "WaitNewFile", "WritingFile",
                           "ImgDisk"} => bvLeft = BvChunks
    /\ st["files2fs"] = "ForwardBitVec" => bvLeft > 0

---------------------------------------------------------------------------
(* usbsas.                                                                 *)

(* The points where usbsas is busy with the entry cur.                     *)
EntryPoints == {"tar_attr", "tar_new", "tar_read", "tar_write", "tar_end",
                "dir_attr", "dir_new", "w_attr", "w_new", "w_read", "w_write",
                "w_end"}

(* What TypeOK says of the variables of usbsas, and that cur is an entry   *)
(* where it is used.                                                       *)
OrchTypeOK ==
    /\ state \in States
    /\ pc \in DOMAIN CallOf \cup {"recv", "select", "tar_next", "analyzed",
                                  "dir_next", "w_next", "copying", "wiping",
                                  "end", "wait", "exit"}
    /\ wait \in Children \cup {"none", "epipe"}
    /\ locked \subseteq WaitOnStartup
    /\ hasId \in BOOLEAN /\ last \in BOOLEAN
    /\ files \subseteq Files /\ dirs \subseteq Dirs
    /\ filtered \subseteq Entries /\ errors \subseteq Entries
    /\ dirty \subseteq Files /\ todo \subseteq Entries
    /\ hidden \subseteq Entries
    /\ cur \in Entries \cup {NoEntry} /\ off \in Nat
    /\ nth \in 1 .. Len(EndOrder)
    /\ fstype \in FsTypes \cup {"Fat"}
    /\ dest \in {"Usb", "Net", "Cmd"}
    /\ pc \in EntryPoints => cur \in Entries

StoreTypeOK == TarTypeOK /\ IndexTypeOK /\ ImgTypeOK /\ DevTypeOK

TypeInv == /\ IpcTypeOK
           /\ StoreTypeOK
           /\ OrchTypeOK
           /\ BitVecInv
           /\ crashes \in 0 .. MaxCrashes

---------------------------------------------------------------------------
(* The points of usbsas, by what it does there.                            *)
IdleStates == {"Init", "DevOpened", "PartitionOpened", "TransferDone", "WaitEnd"}

TarPoints == {"tar_next", "tar_attr", "tar_new", "tar_read", "tar_write",
              "tar_end", "tar_close"}

FilePoints == {"analyzed", "dir_next", "dir_attr", "dir_new", "w_next", "w_attr",
               "w_new", "w_read", "w_write", "w_end"}

FsPoints == {"fs_size", "fs_init", "fs_close"}

FinalPoints == {"bv_get", "bv_load", "startcopy", "copying"}

ImgPoints == {"img_start", "img_read", "img_write"}

(* usbsas may be at point p of state s, for destination d.                 *)
At(s, p, d) ==
    \/ p \in {"recv", "end", "wait"} /\ s \in IdleStates
    \/ p = "exit" /\ s = "End"
    \/ \E v \in Serves : s = v[1] /\ p = v[3]
    \/ p = "cf_size" /\ s = "CopyFiles" /\ d = "Usb"
    \/ p \in {"select"} \cup TarPoints /\ s = "CopyFiles"
    \/ p \in {"analyze"} \cup FilePoints /\ s = "WriteFiles" /\ d = "Usb"
    \/ p \in FsPoints \cup FinalPoints /\ s = "WriteFiles" /\ d = "Usb"
    \/ p \in {"wipe", "wiping"} \cup FsPoints \cup FinalPoints /\ s = "Wipe"
    \/ p \in {"upload", "exec"} /\ s = "UploadOrCmd" /\ d # "Usb"
    \/ p \in ImgPoints /\ s = "ImgDisk"

(* The inductive invariant: usbsas is at a point of its state, and while   *)
(* it works for a request it has not answered it.                          *)
ControlInv ==
    /\ dest \in {"Usb", "Net", "Cmd"}
    /\ At(state, pc, dest)
    /\ pc \notin {"recv", "exit"} => answers = <<>>

---------------------------------------------------------------------------
(* The pipes of a child in state s, with requests q and responses r; w:    *)
(* usbsas waits for it.                                                    *)

(* States in which a child waits for requests, and those in which it is in *)
(* the middle of one.                                                      *)
Parked == {"Locked", "LoadMetadata", "WaitEnd", "End"}

Inside == {"Copying", "Wiping", "Opening", "Listing", "Ending"}

(* Before the first request: the unlock bytes, then what was asked.        *)
Starting(s, q, r, w) ==
    /\ s = "Locked" => /\ r = <<>>
                       /\ Len(q) \in (IF w THEN {2} ELSE {0, 1})
    /\ s = "LoadMetadata" => r = <<>> /\ Len(q) = (IF w THEN 1 ELSE 0)

Quiet(s, q, r, w) == s \notin Parked /\ ~w => q = <<>> /\ r = <<>>

(* A child that answers each request once.                                 *)
PlainOK(s, q, r, w) ==
    /\ Starting(s, q, r, w)
    /\ Quiet(s, q, r, w)
    /\ s \in Inside => w /\ q = <<>> /\ r = <<>>
    /\ s \notin Parked \cup Inside /\ w => \/ Len(q) = 1 /\ r = <<>>
                                           \/ q = <<>> /\ Len(r) = 1

(* uploader answers one request, and is parked then.                       *)
UploaderOK(s, q, r, w) ==
    /\ Quiet(s, q, r, w)
    /\ s \notin Parked /\ w => Len(q) = 1 /\ r = <<>>

(* analyzer may announce its answer; p: the point usbsas is at.            *)
AnalyzerOK(s, q, r, w, p) ==
    /\ Quiet(s, q, r, w)
    /\ s \notin Parked /\ w =>
         \/ Len(q) = 1 /\ r = <<>> /\ (p = "end" => q[1].type = "End")
         \/ /\ q = <<>> /\ p # "end"
            /\ \/ Len(r) = 1 /\ r[1].type # "UploadStatus"
               \/ Len(r) = 2 /\ r[1].type = "UploadStatus"
                             /\ r[2].type # "UploadStatus"

(* What usbsas asks of fs2dev, and where.                                  *)
DevAsks == [cf_size |-> "DevSize", fs_size |-> "DevSize", bv_load |-> "LoadBitVec",
            startcopy |-> "StartCopy", wipe |-> "Wipe", end |-> "End"]

(* A copy or a wipe under way: p is the point where usbsas waits for the   *)
(* first answer, of type t, or p2 the one where it waits for the end.      *)
Reporting(r, p, p1, t, p2) ==
    \/ p = p1 /\ r # <<>> /\ r[1].type = t
              /\ \A i \in DOMAIN r : i > 1 => r[i].type = "CopyStatus"
    \/ p = p2 /\ \A i \in DOMAIN r : r[i].type = "CopyStatus"

(* A wipe that is done.                                                    *)
Reported(r, p, p1, t, p2) ==
    /\ r # <<>> /\ r[Len(r)].type = "CopyStatusDone"
    /\ \/ p = p1 /\ Len(r) > 1 /\ r[1].type = t
                 /\ \A i \in DOMAIN r : i > 1 /\ i < Len(r) => r[i].type = "CopyStatus"
       \/ p = p2 /\ \A i \in DOMAIN r : i < Len(r) => r[i].type = "CopyStatus"

Fs2DevOK(s, q, r, w, p) ==
    /\ Starting(s, q, r, w)
    /\ Quiet(s, q, r, w)
    /\ s = "Locked" /\ w => p \in DOMAIN DevAsks /\ q[2].type = DevAsks[p]
    /\ s = "Copying" => w /\ q = <<>>
                          /\ Reporting(r, p, "startcopy", "StartCopy", "copying")
    /\ s = "Wiping" => w /\ q = <<>> /\ Reporting(r, p, "wipe", "Wipe", "wiping")
    /\ s \notin Parked \cup {"Copying", "Wiping"} /\ w =>
         \/ /\ Len(q) = 1 /\ r = <<>>
            /\ p \in DOMAIN DevAsks /\ q[1].type = DevAsks[p]
         \/ q = <<>> /\ Len(r) = 1 /\ p \in {"cf_size", "fs_size", "bv_load"}
         \/ q = <<>> /\ Reported(r, p, "wipe", "Wipe", "wiping")

Plain == Children \ {"fs2dev", "analyzer", "uploader"}

(* The pipes of child c.                                                   *)
PipesOK(c, s, q, r, w, p) ==
    /\ c = "fs2dev" => Fs2DevOK(s, q, r, w, p)
    /\ c = "analyzer" => AnalyzerOK(s, q, r, w, p)
    /\ c = "uploader" => UploaderOK(s, q, r, w)
    /\ c \in Plain => PlainOK(s, q, r, w)

ChildOK(c) == PipesOK(c, st[c], req[c], rsp[c], wait = c, pc)

---------------------------------------------------------------------------
(* The unlock bytes.                                                       *)

(* The children usbsas takes for locked, l, at point p of state s.         *)
LocksOK(s, p, d, l) ==
    /\ s \in {"Init", "DevOpened", "PartitionOpened", "ImgDisk"} => l = WaitOnStartup
    /\ p = "select" => l = WaitOnStartup
    /\ p = "cf_size" => l = {"files2tar", "tar2files"}
    /\ p \in TarPoints => l = IF d = "Usb" THEN {"tar2files"}
                                           ELSE {"fs2dev", "tar2files"}
    /\ s = "WriteFiles" => l = {}
    /\ s = "UploadOrCmd" => l = {"fs2dev"}
    /\ s = "Wipe" => l = {"files2tar", "tar2files"}

(* end_all has not asked c to end yet.                                     *)
NotEnded(c) == /\ pc \notin {"wait", "exit"}
               /\ pc = "end" => /\ wait # c
                                /\ \E i \in nth .. Len(EndOrder) : EndOrder[i] = c

FlagOK(c) ==
    /\ c \in locked /\ NotEnded(c) =>
         /\ st[c] \in {"Locked", "End"}
         /\ st[c] = "Locked" => req[c] = <<>>
    /\ st[c] = "Locked" /\ c \notin locked => req[c] # <<>>
    /\ \A i \in DOMAIN req[c] :
         /\ req[c][i].type = "Unlock" => i = 1 /\ st[c] \in {"Locked", "End"}
         /\ st[c] = "Locked" /\ i = 1 => req[c][i].type = "Unlock"

---------------------------------------------------------------------------
(* For whom usbsas waits.                                                  *)
WaitOK ==
    /\ wait \in Children => \/ pc \in DOMAIN CallOf /\ wait = CallOf[pc][1]
                            \/ pc \in {"copying", "wiping"} /\ wait = "fs2dev"
                            \/ pc = "end" /\ wait = EndOrder[nth]
    /\ wait = "epipe" => pc \in DOMAIN CallOf \cup {"end"}
    /\ pc \in {"copying", "wiping"} => wait = "fs2dev"

(* The copy of scsi2files that a dev2scsi may become is there only after   *)
(* scsi2files has dropped its pipes to it.                                 *)
GhostOK == st["dev2scsi"] = "Ghost" => MassStorageDropped

PipeInv == /\ \A c \in Children : ChildOK(c)
           /\ \A c \in WaitOnStartup : FlagOK(c)
           /\ LocksOK(state, pc, dest, locked)
           /\ WaitOK
           /\ GhostOK

---------------------------------------------------------------------------
(* Types, control and pipes together.                                      *)
SessionInv == TypeInv /\ ControlInv /\ PipeInv

(* Only the children spawned with wait_on_startup are ever locked.         *)
NeverLocked == \A c \in Children \ WaitOnStartup : st[c] # "Locked"

---------------------------------------------------------------------------
(* The writers, files2tar and files2fs, with requests q and responses r;   *)
(* w: usbsas waits for it, for the answer to a.                            *)
Writers == {"files2tar", "files2fs"}

(* What a writer may have left unread when it was not asked.               *)
Spoilt == {"Error", "End"}

WriterOK(q, r, w, a) ==
    /\ w /\ q # <<>> => q[Len(q)] = a
    /\ \A i \in DOMAIN r : i > 1 \/ ~w \/ q # <<>> => r[i].type \in Spoilt

(* What usbsas asks at the point it has reached.                           *)
Asking == IF pc = "end" THEN Msg("End") ELSE Request

WriterInv == \A c \in Writers : WriterOK(req[c], rsp[c], wait = c, Asking)

(* c has answered the call that usbsas has made.                           *)
Handled(c) == wait = c /\ req[c] = <<>>

Answered1(c, t) == Handled(c) /\ rsp[c] # <<>> /\ rsp[c][1].type = t

(* usbsas and a writer agree on the entry they are at.                     *)
TarSync ==
    /\ pc = "tar_new" =>
         off = 0 /\ (Answered1("files2tar", "NewFile") => tarCur = cur /\ tar[cur] = 0)
    /\ pc \in {"tar_read", "tar_write"} => tarCur = cur /\ off < Chunks(cur)
    /\ pc = "tar_read" => tar[cur] = off
    /\ pc = "tar_write" =>
         /\ ~Handled("files2tar") => tar[cur] = off
         /\ Answered1("files2tar", "WriteFile") => tar[cur] = off + 1
    /\ pc = "tar_end" => tarCur = cur /\ tar[cur] = Chunks(cur)

ImgSync ==
    /\ pc = "w_new" =>
         off = 0 /\ (Answered1("files2fs", "NewFile") => imgCur = cur /\ img[cur] = 0)
    /\ pc \in {"w_read", "w_write"} => imgCur = cur /\ off < Chunks(cur)
    /\ pc = "w_read" => img[cur] = off
    /\ pc = "w_write" =>
         /\ ~Handled("files2fs") => img[cur] = off
         /\ Answered1("files2fs", "WriteFile") => img[cur] = off + 1
    /\ pc = "w_end" => imgCur = cur /\ img[cur] = Chunks(cur)

---------------------------------------------------------------------------
(* The archive.                                                            *)

(* Every message of a pipe is one of S.                                    *)
Among(q, S) == \A i \in DOMAIN q : q[i] \in S

Other(t) == {m \in Rsps : m.type # t}

(* Not the byte that makes tar2files read the archive.                     *)
NotRead == {m \in Reqs : m.type = "Unlock" => m.value # 1}

(* Verdicts on the files T.                                                *)
Verdicts(T) == {m \in Rsps : m.type = "Analyze" => /\ m.clean \cap m.dirty = {}
                                                    /\ m.clean \cup m.dirty = T}

Archived == {f \in Files : InTar(f)}

(* files2tar has left nothing unfinished but the entry it is at, and stops *)
(* for good when it closes the archive.                                    *)
WholeInv ==
    /\ st["files2tar"] \in {"Locked", "WaitNewFile"} \/ tarClosed =>
         \A e \in Entries : tar[e] = -1 \/ InTar(e)
    /\ st["files2tar"] = "WritingFile" =>
         \A e \in Entries \ {tarCur} : tar[e] = -1 \/ InTar(e)
    /\ tarClosed => st["files2tar"] \in {"WaitEnd", "End"}

(* Nobody reads the archive, and usbsas does not take it for closed,       *)
(* before it is.                                                           *)
ClosedInv ==
    ~tarClosed => /\ Among(rsp["files2tar"], Other("Close"))
                  /\ Among(req["tar2files"], NotRead)
                  /\ st["tar2files"] \notin {"LoadMetadata", "MainLoop"}
                  /\ state \notin {"WriteFiles", "UploadOrCmd"}
                  /\ Among(rsp["analyzer"], Other("Analyze"))

VerdictInv == Among(rsp["analyzer"], Verdicts(Archived))

TarInv == WholeInv /\ ClosedInv /\ VerdictInv

---------------------------------------------------------------------------
(* The image and the report.                                               *)
DirPoints == {"dir_next", "dir_attr", "dir_new"}
MidPoints == {"w_new", "w_read", "w_write", "w_end"}
WritePoints == {"w_next", "w_attr"} \cup MidPoints

(* Nothing is in the image yet.                                            *)
Early == \/ state \in {"Init", "DevOpened", "PartitionOpened", "CopyFiles"}
         \/ pc = "analyze"

(* What usbsas is about to write passed the filter and the analyzer.       *)
CleanInv ==
    /\ Early => dirty = {} /\ \A e \in Entries : img[e] = -1
    /\ files \cap (Rejected \cup dirty) = {}
    /\ OnlyClean
    /\ pc \in DirPoints => todo \subseteq Dirs /\ (pc # "dir_next" => cur \in Dirs)
    /\ pc \in WritePoints => todo \subseteq files /\ (pc # "w_next" => cur \in files)

(* A file that is not whole in the image was reported, or usbsas is at it; *)
(* only a closed image is copied.                                          *)
ImgInv ==
    /\ \A f \in Files : \/ img[f] = -1 \/ InImage(f) \/ f \in errors
                         \/ (f = cur /\ pc \in MidPoints)
    /\ imgClosed => st["files2fs"] \in {"ForwardBitVec", "WaitEnd", "End"}
    /\ ~imgClosed => /\ Among(rsp["files2fs"], Other("Close"))
                     /\ pc \notin FinalPoints
    /\ ImageComplete

(* A session that has not asked for a copy or a wipe, or gave the transfer *)
(* up, has an untouched device.                                            *)
Untaken ==
    \/ state \in {"Init", "DevOpened", "PartitionOpened", "CopyFiles", "UploadOrCmd",
                  "ImgDisk"}
    \/ state = "WriteFiles" /\ pc \notin {"startcopy", "copying"}
    \/ \E i \in DOMAIN answers : answers[i] \in {"NothingToCopy", "NotEnoughSpace"}

DevInv == Untaken => dev = "old" /\ st["fs2dev"] \notin {"Copying", "Wiping"}

---------------------------------------------------------------------------
(* The report.                                                             *)
TarFilePoints == {"tar_attr", "tar_new", "tar_read", "tar_write", "tar_end"}

Noted == filtered \cup errors \cup dirty

Wrote(f) == InImage(f) \/ f \in errors

(* A file of the source is in the list usbsas works on or in the report;   *)
(* a file of the list is in the archive, then in the image, or reported,   *)
(* once the loop over the list has passed it.                              *)
ListInv ==
    /\ pc \in {"cf_size"} \cup TarPoints \/ state = "WriteFiles" =>
         Files \subseteq files \cup Noted \cup hidden
    /\ pc \in TarPoints =>
         \A f \in files : \/ f \in todo \cup errors \/ InTar(f)
                          \/ (f = cur /\ pc \in TarFilePoints)
    /\ pc = "tar_close" => todo = {}
    /\ pc = "analyze" => \A f \in files : InTar(f) \/ f \in errors
    /\ pc \in WritePoints =>
         \A f \in files : f \in todo \/ Wrote(f) \/ (f = cur /\ pc # "w_next")
    /\ pc \in {"fs_close"} \cup FinalPoints /\ state = "WriteFiles" =>
         \A f \in files : Wrote(f)

Retired == {"WaitEnd", "End"}

(* fs2dev reports the end of a copy only when the image is on the device,  *)
(* and does nothing more to it.                                            *)
CopyInv ==
    /\ st["fs2dev"] = "Copying" /\ devLeft = 0 => dev = "image"
    /\ state \in {"Init", "DevOpened", "PartitionOpened", "CopyFiles", "WriteFiles"} =>
         \/ Among(rsp["fs2dev"], Other("CopyStatusDone"))
         \/ dev = "image" /\ st["fs2dev"] \in Retired
    /\ answers = <<"CopyDone">> /\ dest = "Usb" =>
         /\ dev = "image" /\ st["fs2dev"] \in Retired
         /\ \A f \in Files \ hidden : f \in Noted \/ InImage(f)

AccountInv == ListInv /\ CopyInv

(* What fs2dev sends during a copy that no write error interrupts.         *)
Progress == {m \in Rsps : m.type \in {"CopyStatus", "CopyStatusDone"}}

Begun == /\ pc = "startcopy" /\ Handled("fs2dev")
         /\ rsp["fs2dev"] # <<>> /\ Among(Tail(rsp["fs2dev"]), Progress)

(* A copy that fs2dev has begun ends with CopyStatusDone, so a request has *)
(* no answer or one.                                                       *)
FinalInv ==
    /\ pc = "copying" => req["fs2dev"] = <<>> /\ Among(rsp["fs2dev"], Progress)
    /\ Among(rsp["fs2dev"], Other("StartCopy")) \/ Begun
    /\ answers = <<>> \/ \E a : answers = <<a>>

(* A reader of the source that reports its errors hides nothing from       *)
(* usbsas.                                                                 *)
TrueReads == Rsps \ {Zeros}

ReadsInv == hidden = {} /\ Among(rsp["scsi2files"], TrueReads)

(* All of it.                                                              *)
TransferInv ==
    /\ SessionInv /\ NeverLocked
    /\ WriterInv /\ TarSync /\ ImgSync
    /\ TarInv /\ CleanInv /\ ImgInv /\ DevInv /\ AccountInv

=============================================================================
