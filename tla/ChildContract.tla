--------------------------- MODULE ChildContract ---------------------------
(***************************************************************************)
(* One child on its own, under a parent that makes calls through           *)
(* usbsas-comm one at a time but in any order, the requests that the state *)
(* of the child does not expect included.                                  *)
(***************************************************************************)
EXTENDS Tar2Files, Files2Fs, Fs2Dev, Scsi2Files, Services

CONSTANT Subjects       \* the children to examine

ASSUME SubjectsAreChildren == Subjects \subseteq Children

VARIABLES
    who,        \* the child examined
    asked,      \* the type of the request the parent awaits the answer of
    surplus     \* answers written minus requests made

vars == <<ipcVars, tarVars, index, imgVars, devVars, who, asked, surplus>>

(* The requests that the protocol of a child defines.                      *)
Vocabulary(c) ==
    {"End"} \cup
    CASE c = "files2tar" -> {"NewFile", "WriteFile", "EndFile", "Close"}
      [] c = "tar2files" -> {"GetAttr", "ReadFile", "ReadDir", "OpenDevice"}
      [] c = "files2fs" -> {"SetFsInfos", "NewFile", "WriteFile", "EndFile",
                            "Close", "BitVec", "ImgDisk", "WriteData"}
      [] c = "fs2dev" -> {"DevSize", "LoadBitVec", "StartCopy", "Wipe"}
      [] c = "scsi2files" -> {"OpenDevice", "Partitions", "OpenPartition",
                              "GetAttr", "ReadDir", "ReadFile", "ReadSectors"}
      [] c = "analyzer" -> {"Analyze"}
      [] c = "uploader" -> {"Upload"}
      [] c = "cmdexec" -> {"Exec", "PostCopyExec"}
      [] c = "identificator" -> {"Id"}
      [] c = "usbdev" -> {"Devices"}
      [] c = "filter" -> {}

Requests(t) ==
    CASE t \in {"NewFile", "GetAttr", "ReadFile"} -> [type : {t}, path : Entries]
      [] t = "WriteFile" -> [type : {t}, offset : 0 .. 1]
      [] t = "SetFsInfos" -> [type : {t}, fstype : {"Fat", "Bad"}]
      [] t = "LoadBitVec" -> [type : {t}, last : BOOLEAN]
      [] OTHER -> {Msg(t)}

(* Responses that are followed by another one to the same request.         *)
Progress == {"StartCopy", "Wipe", "CopyStatus", "UploadStatus"}

---------------------------------------------------------------------------
(* ProtoReqCommon: a call sends its request and blocks for the response.   *)
Send ==
    /\ asked = "none"
    /\ ~Closed(who)
    /\ st[who] # "Locked" \/ req[who] # <<>>
    /\ \E t \in Vocabulary(who) :
          /\ asked' = t
          /\ \E m \in Requests(t) : req' = [req EXCEPT ![who] = Append(@, m)]
    /\ surplus' = surplus - 1
    /\ UNCHANGED <<st, rsp, tarVars, index, imgVars, devVars, who>>

Recv ==
    /\ asked # "none"
    /\ rsp[who] # <<>>
    /\ rsp' = [rsp EXCEPT ![who] = Tail(@)]
    /\ asked' = IF Head(rsp[who]).type \in Progress THEN asked ELSE "none"
    /\ UNCHANGED <<st, req, tarVars, index, imgVars, devVars, who, surplus>>

(* The bytes that start a child spawned with wait_on_startup.              *)
SendUnlock ==
    /\ who \in WaitOnStartup
    /\ st[who] = "Locked"
    /\ req[who] = <<>>
    /\ \E v \in 0 .. 2 : req' = [req EXCEPT ![who] = <<Unlock(v)>>]
    /\ UNCHANGED <<st, rsp, tarVars, index, imgVars, devVars, who, asked, surplus>>

(* The child's own steps.                                                  *)
ChildStep ==
    /\ \/ Files2TarNext /\ UNCHANGED <<index, imgVars, devVars>>
       \/ Tar2FilesNext /\ UNCHANGED <<imgVars, devVars>>
       \/ Files2FsNext /\ UNCHANGED <<tarVars, index, devVars>>
       \/ Fs2DevNext /\ UNCHANGED <<tarVars, index, imgVars>>
       \/ Scsi2FilesNext /\ UNCHANGED <<tarVars, index, imgVars, devVars>>
       \/ Dev2ScsiNext /\ UNCHANGED <<tarVars, index, imgVars, devVars>>
       \/ ServicesNext /\ UNCHANGED <<index, imgVars, devVars>>
    /\ surplus' = surplus + Len(SelectSeq(rsp'[who], LAMBDA m : m.type \notin Progress))
                          - Len(SelectSeq(rsp[who], LAMBDA m : m.type \notin Progress))
    /\ UNCHANGED <<who, asked>>

(* The child has exited and the parent has read all that it said.          *)
Gone == /\ Closed(who)
        /\ asked = "none" \/ rsp[who] = <<>>
        /\ UNCHANGED vars

Next == Send \/ Recv \/ SendUnlock \/ ChildStep \/ Gone

Init ==
    /\ who \in Subjects
    /\ \E start \in ServiceStart(who) :
          /\ st = [c \in Procs |->
                     IF c = who /\ c \in ServiceNames THEN start.st
                     ELSE CASE c = "files2fs" -> "WaitFsInfos"
                            [] c = "scsi2files" -> "ChildStarted"
                            [] c \in WaitOnStartup \cup {"dev2scsi"} -> "Locked"
                            [] OTHER -> "Running"]
          /\ rsp = [c \in Procs |-> IF c = who THEN start.rsp ELSE <<>>]
          /\ surplus = Len(start.rsp)
    /\ req = [c \in Procs |-> <<>>]
    /\ TarInit /\ IndexInit /\ ImgInit /\ DevInit
    /\ asked = "none"

(* The parent reads the answers it asked for; what it asks is up to it.    *)
Spec == Init /\ [][Next]_vars /\ WF_vars(ChildStep) /\ WF_vars(Recv)

---------------------------------------------------------------------------
(* A child in a working state has written one answer, progress aside, to   *)
(* each request it took, expected or not, and none on its own account: no  *)
(* answer can be taken for that of a later request.                        *)
OneAnswer ==
    st[who] \notin {"WaitEnd", "End"} =>
        surplus = 0 \/ (surplus = -1 /\ asked # "none")

(* No request leaves the parent blocked: it is answered, or the pipes of   *)
(* the child get closed.                                                   *)
Replies == asked # "none" ~> asked = "none" \/ Closed(who)

(* A parent that keeps asking a child to end sees it exit, whatever the    *)
(* child has been through.  One End is not always enough: the handlers of  *)
(* WritingFile and LoadBitVec, and a file system that cannot be unmounted, *)
(* consume it and go to WaitEnd.                                           *)
EndExits == []<>(asked = "End") => <>Closed(who)
============================================================================
