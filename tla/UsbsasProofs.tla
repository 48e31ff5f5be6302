---------------------------- MODULE UsbsasProofs ----------------------------
(***************************************************************************)
(* Theorems about a session of usbsas, for any set of files, any number of *)
(* chunks and of SCSI writes, any failures and any number of crashes.      *)
(*                                                                         *)
(* First the types: TypeInv is inductive.  Then what the steps of the      *)
(* children, each on its own, do to the pipes (PipeInv).                   *)
(***************************************************************************)
EXTENDS SessionInvariants, TLAPS

(* A leaf that names no prover is for Zenon.                               *)
USE Zenon

---------------------------------------------------------------------------
(* Sequences: a pipe is one.                                               *)

(* Only the empty sequence has length 0.                                   *)
LEMMA EmptyIsZero ==
    ASSUME NEW S, NEW s \in Seq(S)
    PROVE  Len(s) \in Nat /\ DOMAIN s = 1 .. Len(s) /\ (s = <<>> <=> Len(s) = 0)
<1>1. Len(s) \in Nat /\ DOMAIN s = 1 .. Len(s)
  BY SMT
<1>2. Len(s) = 0 => s = <<>>
  BY SMT
<1> QED
  BY <1>1, <1>2

(* What reading the first message of a pipe leaves.                        *)
LEMMA TailFacts ==
    ASSUME NEW S, NEW s \in Seq(S), s # <<>>
    PROVE  /\ Head(s) = s[1] /\ Head(s) \in S
           /\ Tail(s) \in Seq(S) /\ Len(Tail(s)) = Len(s) - 1
           /\ \A i \in 1 .. Len(Tail(s)) : Tail(s)[i] = s[i + 1]
  BY SMT

(* What writing a message to a pipe makes of it.                           *)
LEMMA AppendFacts ==
    ASSUME NEW S, NEW s \in Seq(S), NEW e \in S
    PROVE  /\ Append(s, e) \in Seq(S) /\ Append(s, e) # <<>>
           /\ Len(Append(s, e)) = Len(s) + 1 /\ Append(s, e) = s \o <<e>>
           /\ \A i \in 1 .. Len(s) : Append(s, e)[i] = s[i]
           /\ Append(s, e)[Len(s) + 1] = e
  BY SMT

(* What writing several messages makes of it.                              *)
LEMMA ConcatFacts ==
    ASSUME NEW S, NEW s \in Seq(S), NEW t \in Seq(S)
    PROVE  /\ s \o t \in Seq(S) /\ Len(s \o t) = Len(s) + Len(t)
           /\ \A i \in 1 .. Len(s) : (s \o t)[i] = s[i]
           /\ \A i \in 1 .. Len(t) : (s \o t)[i + Len(s)] = t[i]
  BY SMT

(* Sequences are equal if their elements are.                              *)
LEMMA SameSeq ==
    ASSUME NEW S, NEW s \in Seq(S), NEW t \in Seq(S), Len(s) = Len(t),
           \A i \in 1 .. Len(s) : s[i] = t[i]
    PROVE  s = t
  BY SMT

(* A message in an empty pipe.                                             *)
LEMMA FirstAnswer == \A m : Append(<<>>, m) = <<m>>
  BY SMT

(* Reading the only message.                                               *)
LEMMA TailOfOne ==
    ASSUME NEW R, NEW r \in Seq(R), Len(r) = 1
    PROVE  Tail(r) = <<>> /\ Head(r) = r[1]
<1>1. r # <<>> /\ Head(r) = r[1] /\ Tail(r) \in Seq(R) /\ Len(Tail(r)) = 0
  BY SMT
<1>2. Tail(r) = <<>>
  BY <1>1, EmptyIsZero
<1> QED
  BY <1>1, <1>2

(* A pipe that is not empty holds one message or more.                     *)
LEMMA LongEnough ==
    ASSUME NEW R, NEW r \in Seq(R), r # <<>>
    PROVE  Len(r) = 1 \/ 1 < Len(r)
<1>1. Len(r) \in Nat /\ Len(r) # 0
  BY EmptyIsZero
<1>2. \A n \in Nat : n # 0 => n = 1 \/ 1 < n
  BY SMT
<1> QED
  BY <1>1, <1>2

(* A message in a pipe with at most one.                                   *)
LEMMA AppendToShort ==
    ASSUME NEW Q, NEW q \in Seq(Q), NEW m \in Q
    PROVE  /\ Append(q, m) \in Seq(Q)
           /\ q = <<>> => Len(q) = 0 /\ Len(Append(q, m)) = 1 /\ Append(q, m)[1] = m
           /\ Len(q) = 0 => q = <<>>
           /\ Len(q) = 1 => Len(Append(q, m)) = 2 /\ Append(q, m)[2] = m
                            /\ Append(q, m)[1] = q[1]
<1>1. Append(q, m) \in Seq(Q) /\ Len(Append(q, m)) = Len(q) + 1
  BY AppendFacts
<1>2. Append(q, m)[Len(q) + 1] = m /\ \A i \in 1 .. Len(q) : Append(q, m)[i] = q[i]
  BY SMT, AppendFacts
<1>3. q = <<>> <=> Len(q) = 0
  BY EmptyIsZero
<1> QED
  BY SMT, <1>1, <1>2, <1>3

---------------------------------------------------------------------------
(* The calls of usbsas, and where it makes them.                           *)

(* The points where usbsas calls a child.                                  *)
LEMMA CallPoints ==
    DOMAIN CallOf =
        {"id", "devices", "open", "parts", "openpart", "attr", "readdir",
         "postcopy", "cf_size", "tar_attr", "tar_new", "tar_read", "tar_write",
         "tar_end", "tar_close", "analyze", "fs_size", "fs_init", "dir_attr",
         "dir_new", "w_attr", "w_new", "w_read", "w_write", "w_end",
         "fs_close", "bv_get", "bv_load", "startcopy", "upload", "exec",
         "wipe", "img_open", "img_start", "img_read", "img_write"}
  BY DEF CallOf

(* The table of calls, row by row.                                         *)
LEMMA CallValues ==
    /\ CallOf["id"] = <<"identificator", "Id">>
    /\ CallOf["devices"] = <<"usbdev", "Devices">>
    /\ CallOf["open"] = <<"scsi2files", "OpenDevice">>
    /\ CallOf["parts"] = <<"scsi2files", "Partitions">>
    /\ CallOf["openpart"] = <<"scsi2files", "OpenPartition">>
    /\ CallOf["attr"] = <<"scsi2files", "GetAttr">>
    /\ CallOf["readdir"] = <<"scsi2files", "ReadDir">>
    /\ CallOf["postcopy"] = <<"cmdexec", "PostCopyExec">>
    /\ CallOf["cf_size"] = <<"fs2dev", "DevSize">>
    /\ CallOf["tar_attr"] = <<"scsi2files", "GetAttr">>
    /\ CallOf["tar_new"] = <<"files2tar", "NewFile">>
    /\ CallOf["tar_read"] = <<"scsi2files", "ReadFile">>
    /\ CallOf["tar_write"] = <<"files2tar", "WriteFile">>
    /\ CallOf["tar_end"] = <<"files2tar", "EndFile">>
    /\ CallOf["tar_close"] = <<"files2tar", "Close">>
    /\ CallOf["analyze"] = <<"analyzer", "Analyze">>
    /\ CallOf["fs_size"] = <<"fs2dev", "DevSize">>
    /\ CallOf["fs_init"] = <<"files2fs", "SetFsInfos">>
    /\ CallOf["dir_attr"] = <<"tar2files", "GetAttr">>
    /\ CallOf["dir_new"] = <<"files2fs", "NewFile">>
    /\ CallOf["w_attr"] = <<"tar2files", "GetAttr">>
    /\ CallOf["w_new"] = <<"files2fs", "NewFile">>
    /\ CallOf["w_read"] = <<"tar2files", "ReadFile">>
    /\ CallOf["w_write"] = <<"files2fs", "WriteFile">>
    /\ CallOf["w_end"] = <<"files2fs", "EndFile">>
    /\ CallOf["fs_close"] = <<"files2fs", "Close">>
    /\ CallOf["bv_get"] = <<"files2fs", "BitVec">>
    /\ CallOf["bv_load"] = <<"fs2dev", "LoadBitVec">>
    /\ CallOf["startcopy"] = <<"fs2dev", "StartCopy">>
    /\ CallOf["upload"] = <<"uploader", "Upload">>
    /\ CallOf["exec"] = <<"cmdexec", "Exec">>
    /\ CallOf["wipe"] = <<"fs2dev", "Wipe">>
    /\ CallOf["img_open"] = <<"scsi2files", "OpenDevice">>
    /\ CallOf["img_start"] = <<"files2fs", "ImgDisk">>
    /\ CallOf["img_read"] = <<"scsi2files", "ReadSectors">>
    /\ CallOf["img_write"] = <<"files2fs", "WriteData">>
  BY DEF CallOf

(* A wipe is asked of fs2dev.                                              *)
LEMMA WipeCall == "fs2dev" \in Procs /\ CallOf["wipe"][1] = "fs2dev"
<1>1. CallOf["wipe"] = <<"fs2dev", "Wipe">>
  BY CallValues
<1>2. "fs2dev" \in Procs
  BY DEF Procs, Children
<1> QED
  BY SMT, <1>1, <1>2

(* The table of calls: to which children, for which requests.              *)
LEMMA CallTable ==
    ASSUME NEW p \in DOMAIN CallOf
    PROVE  /\ CallOf[p][1] \in Children
           /\ CallOf[p][2] \in ReqTypes \/ p \in {"tar_new", "dir_new", "w_new"}
<1>1. CallOf[p][1] \in Children
  BY SMT, CallPoints, CallValues DEF Children
<1>2. CallOf[p][2] \in ReqTypes \/ p \in {"tar_new", "dir_new", "w_new"}
  BY SMT, CallPoints, CallValues DEF ReqTypes
<1> QED
  BY <1>1, <1>2

(* The points where usbsas calls nobody, and the calls with more than one  *)
(* answer.                                                                 *)
LEMMA CallFacts ==
    /\ {"recv", "select", "tar_next", "analyzed", "dir_next", "w_next", "copying",
        "wiping", "end", "wait", "exit"} \cap DOMAIN CallOf = {}
    /\ CallOf["startcopy"][1] = "fs2dev" /\ CallOf["startcopy"][2] = "StartCopy"
    /\ CallOf["wipe"][1] = "fs2dev" /\ CallOf["wipe"][2] = "Wipe"
    /\ CallOf["analyze"][1] = "analyzer" /\ CallOf["analyze"][2] = "Analyze"
    /\ CallOf["upload"][1] = "uploader"
    /\ \A p \in DOMAIN CallOf :
         /\ CallOf[p][1] \in Children
         /\ CallOf[p][1] = "analyzer" => p = "analyze"
         /\ CallOf[p][1] = "fs2dev" => p \in DOMAIN DevAsks /\ CallOf[p][2] = DevAsks[p]
<1>1. {"recv", "select", "tar_next", "analyzed", "dir_next", "w_next", "copying",
       "wiping", "end", "wait", "exit"} \cap DOMAIN CallOf = {}
  BY SMT, CallPoints
<1>2. /\ CallOf["startcopy"] = <<"fs2dev", "StartCopy">>
      /\ CallOf["wipe"] = <<"fs2dev", "Wipe">>
      /\ CallOf["analyze"] = <<"analyzer", "Analyze">>
      /\ CallOf["upload"] = <<"uploader", "Upload">>
      /\ CallOf["cf_size"] = <<"fs2dev", "DevSize">>
      /\ CallOf["fs_size"] = <<"fs2dev", "DevSize">>
      /\ CallOf["bv_load"] = <<"fs2dev", "LoadBitVec">>
  BY CallValues
<1>3. \A p \in DOMAIN CallOf : CallOf[p][1] = "analyzer" => p = "analyze"
  BY SMT, CallPoints, CallValues
<1>4. \A p \in DOMAIN CallOf :
        CallOf[p][1] = "fs2dev" => p \in {"cf_size", "fs_size", "bv_load", "startcopy",
                                          "wipe"}
  BY SMT, CallPoints, CallValues
<1>5. \A p \in {"cf_size", "fs_size", "bv_load", "startcopy", "wipe"} :
        p \in DOMAIN DevAsks /\ CallOf[p][2] = DevAsks[p]
  BY SMT, <1>2 DEF DevAsks
<1> HIDE DEF CallOf
<1> QED
  BY SMT, <1>1, <1>2, <1>3, <1>4, <1>5, CallTable

(* The callees, by the part of the transfer that calls them.               *)
LEMMA CalleeTable ==
    ASSUME NEW p \in DOMAIN CallOf
    PROVE  /\ p \in TarPoints => CallOf[p][1] \in {"scsi2files", "files2tar"}
           /\ p = "cf_size" => CallOf[p][1] = "fs2dev"
           /\ p \in (FsPoints \cup FinalPoints \cup {"wipe"}) \ FilePoints =>
                CallOf[p][1] \in {"fs2dev", "files2fs"}
           /\ p \notin TarPoints \cup FilePoints \cup FsPoints \cup FinalPoints
                       \cup {"wipe", "cf_size"} =>
                CallOf[p][1] \notin WaitOnStartup
<1>1. p \in TarPoints => CallOf[p][1] \in {"scsi2files", "files2tar"}
  BY SMT, CallPoints, CallValues DEF TarPoints
<1>2. p = "cf_size" => CallOf[p][1] = "fs2dev"
  BY SMT, CallValues
<1>3. p \in (FsPoints \cup FinalPoints \cup {"wipe"}) \ FilePoints =>
        CallOf[p][1] \in {"fs2dev", "files2fs"}
  BY SMT, CallPoints, CallValues DEF FilePoints, FsPoints, FinalPoints
<1>4. p \notin TarPoints \cup FilePoints \cup FsPoints \cup FinalPoints
              \cup {"wipe", "cf_size"} =>
        CallOf[p][1] \notin WaitOnStartup
  BY SMT, CallPoints, CallValues DEF TarPoints, FilePoints, FsPoints,
     FinalPoints, WaitOnStartup
<1> QED
  BY <1>1, <1>2, <1>3, <1>4

(* The table of requests that are one call, row by row.                    *)
LEMMA ServesRows ==
    ASSUME NEW v \in Serves
    PROVE  \/ /\ v[1] \in {"Init", "DevOpened", "PartitionOpened"}
              /\ v[2] = "Id" /\ v[3] = "id" /\ v[4] = v[1]
           \/ v[1] = "Init" /\ v[2] = "Devices" /\ v[3] = "devices" /\ v[4] = "Init"
           \/ v[1] = "Init" /\ v[2] = "OpenDevice" /\ v[3] = "open"
              /\ v[4] = "DevOpened"
           \/ v[1] = "Init" /\ v[2] = "ImgDisk" /\ v[3] = "img_open"
              /\ v[4] = "ImgDisk"
           \/ v[1] = "DevOpened" /\ v[2] = "Partitions" /\ v[3] = "parts"
              /\ v[4] = "DevOpened"
           \/ v[1] = "DevOpened" /\ v[2] = "OpenPartition" /\ v[3] = "openpart"
              /\ v[4] = "PartitionOpened"
           \/ v[1] = "PartitionOpened" /\ v[2] = "GetAttr" /\ v[3] = "attr"
              /\ v[4] = "PartitionOpened"
           \/ v[1] = "PartitionOpened" /\ v[2] = "ReadDir" /\ v[3] = "readdir"
              /\ v[4] = "PartitionOpened"
           \/ v[1] = "TransferDone" /\ v[2] = "PostCopyCmd" /\ v[3] = "postcopy"
              /\ v[4] = "WaitEnd"
  BY SMT DEF Serves

(* A point serves one kind of request, and none of the other points does.  *)
LEMMA ServedAt ==
    ASSUME NEW v \in Serves
    PROVE  /\ (CHOOSE w \in Serves : w[3] = v[3])[2] = v[2]
           /\ v[1] \in IdleStates
           /\ v[3] \notin {"recv", "end", "wait", "exit", "select", "cf_size",
                           "analyze", "wipe", "wiping", "upload", "exec"}
           /\ v[3] \notin TarPoints \cup FilePoints \cup FsPoints
                              \cup FinalPoints \cup ImgPoints
<1> DEFINE w == CHOOSE u \in Serves : u[3] = v[3]
<1>1. w \in Serves /\ w[3] = v[3]
  OBVIOUS
<1> HIDE DEF w
<1>2. w[2] = v[2]
  BY SMTT(30), <1>1, ServesRows
<1>3. v[1] \in IdleStates
  BY ServesRows DEF IdleStates
<1>4. v[3] \in {"id", "devices", "open", "img_open", "parts", "openpart", "attr",
                "readdir", "postcopy"}
  BY ServesRows
<1> QED
  BY <1>2, <1>3, <1>4 DEF w, TarPoints, FilePoints, FsPoints, FinalPoints,
     ImgPoints

(* The state that a point belongs to.                                      *)
LEMMA PointStates ==
    ASSUME NEW s, NEW p, NEW d, At(s, p, d)
    PROVE  /\ p \in {"recv", "end", "wait"} => s \in IdleStates
           /\ p = "exit" => s = "End"
           /\ p \in {"select", "cf_size"} \cup TarPoints => s = "CopyFiles"
           /\ p = "cf_size" => d = "Usb"
           /\ p \in {"analyze"} \cup FilePoints => s = "WriteFiles" /\ d = "Usb"
           /\ p \in FsPoints \cup FinalPoints =>
                s = "Wipe" \/ (s = "WriteFiles" /\ d = "Usb")
           /\ p \in {"wipe", "wiping"} => s = "Wipe"
           /\ p \in {"upload", "exec"} => s = "UploadOrCmd" /\ d # "Usb"
           /\ p \in ImgPoints => s = "ImgDisk"
<1>1. CASE \E v \in Serves : s = v[1] /\ p = v[3]
  <2>1. PICK v \in Serves : s = v[1] /\ p = v[3]
    BY <1>1
  <2>2. /\ p \notin {"recv", "end", "wait", "exit", "select", "cf_size",
                     "analyze", "wipe", "wiping", "upload", "exec"}
        /\ p \notin TarPoints \cup FilePoints \cup FsPoints \cup FinalPoints
                        \cup ImgPoints
    BY <2>1, ServedAt
  <2> QED
    BY <2>2
<1>2. CASE ~\E v \in Serves : s = v[1] /\ p = v[3]
  <2> USE DEF TarPoints, FilePoints, FsPoints, FinalPoints, ImgPoints
  <2>1. CASE p \in {"recv", "end", "wait"} /\ s \in IdleStates
    BY <2>1
  <2>2. CASE p = "exit" /\ s = "End"
    BY <2>2
  <2>3. CASE p = "cf_size" /\ s = "CopyFiles" /\ d = "Usb"
    BY <2>3
  <2>4. CASE p \in {"select"} \cup TarPoints /\ s = "CopyFiles"
    BY <2>4
  <2>5. CASE p \in {"analyze"} \cup FilePoints /\ s = "WriteFiles" /\ d = "Usb"
    BY <2>5
  <2>6. CASE p \in FsPoints \cup FinalPoints /\ s = "WriteFiles" /\ d = "Usb"
    BY <2>6
  <2>7. CASE p \in {"wipe", "wiping"} \cup FsPoints \cup FinalPoints /\ s = "Wipe"
    BY <2>7
  <2>8. CASE p \in {"upload", "exec"} /\ s = "UploadOrCmd" /\ d # "Usb"
    BY <2>8
  <2>9. CASE p \in ImgPoints /\ s = "ImgDisk"
    BY <2>9
  <2> HIDE DEF TarPoints, FilePoints, FsPoints, FinalPoints, ImgPoints
  <2> QED
    BY <1>2, <2>1, <2>2, <2>3, <2>4, <2>5, <2>6, <2>7, <2>8, <2>9 DEF At
<1> QED
  BY <1>1, <1>2

(* usbsas waits for nobody where it calls nobody.                          *)
LEMMA NotWaiting ==
    ASSUME TypeInv, PipeInv, pc \notin DOMAIN CallOf \cup {"copying", "wiping", "end"}
    PROVE  wait = "none"
<1>1. wait \in Children \cup {"none", "epipe"}
  BY DEF TypeInv, OrchTypeOK
<1> QED
  BY <1>1 DEF PipeInv, WaitOK

(* A message without data.                                                 *)
LEMMA PlainMessage ==
    /\ \A t \in RspTypes : Msg(t) \in Rsps
    /\ \A t \in ReqTypes : Msg(t) \in Reqs
  BY DEF Msg, Rsps, Reqs

---------------------------------------------------------------------------
(* The pipes of a child.                                                   *)

(* The names of the processes, and the messages they all send.             *)
LEMMA Names ==
    /\ {"files2tar", "tar2files", "files2fs", "scsi2files", "cmdexec",
        "identificator", "usbdev", "filter"} \subseteq Plain
    /\ Plain \subseteq Children /\ Children \subseteq Procs
    /\ {"fs2dev", "analyzer", "uploader"} \subseteq Children
    /\ ServiceNames \subseteq Children
    /\ Error \in Rsps /\ EndRsp \in Rsps
    /\ \A t \in RspTypes : Msg(t) \in Rsps
  BY PlainMessage DEF Plain, Children, Procs, ServiceNames, Error, EndRsp,
     RspTypes, ReqTypes

(* States in which a child answers each request once and waits for the     *)
(* next.                                                                   *)
AtWork == {"WaitNewFile", "WritingFile", "MainLoop", "WaitFsInfos", "ImgDisk",
           "ForwardBitVec", "ChildStarted", "DevOpened", "PartitionsListed",
           "PartitionOpened", "Running", "Drained"}

(* A parked child may have anything in its pipes.                          *)
LEMMA ParkedOK ==
    ASSUME NEW s \in {"WaitEnd", "End"}, NEW q, NEW r, NEW w, NEW p
    PROVE  /\ PlainOK(s, q, r, w) /\ UploaderOK(s, q, r, w)
           /\ AnalyzerOK(s, q, r, w, p) /\ Fs2DevOK(s, q, r, w, p)
  BY DEF PlainOK, UploaderOK, AnalyzerOK, Fs2DevOK, Starting, Quiet, Parked,
     Inside

(* The step leaves process c and its pipes alone.                          *)
Untouched(c) == st'[c] = st[c] /\ req'[c] = req[c] /\ rsp'[c] = rsp[c]

(* A child that a step leaves alone stays as PipeInv says.                 *)
LEMMA UntouchedOK ==
    ASSUME NEW c \in Children, ChildOK(c), Untouched(c), (wait' = c) = (wait = c),
           wait = c => pc' = pc
    PROVE  ChildOK(c)'
<1>1. CASE wait = c
  BY <1>1 DEF Untouched, ChildOK, PipesOK, Plain
<1>2. CASE wait # c
  BY <1>2 DEF Untouched, ChildOK, PipesOK, Plain, Fs2DevOK, AnalyzerOK, Quiet,
     Starting, Parked
<1> QED
  BY <1>1, <1>2

(* What an answer changes: the pipes and the state of its child only.      *)
LEMMA Touches ==
    ASSUME IpcTypeOK, NEW c \in Procs, NEW rs, NEW s2
    PROVE  /\ Answer(c, rs, s2) => /\ st'[c] = s2
                                   /\ req'[c] = Tail(req[c])
                                   /\ rsp'[c] = rsp[c] \o rs
           /\ Emit(c, rs, s2) => /\ st'[c] = s2
                                 /\ req'[c] = req[c]
                                 /\ rsp'[c] = rsp[c] \o rs
           /\ Answer(c, rs, s2) \/ Emit(c, rs, s2) =>
                \A d \in Procs \ {c} : Untouched(d)
  BY DEF IpcTypeOK, Answer, Emit, Untouched

(* usbsas reads a response of c.                                           *)
Reads(c) == /\ wait = c
            /\ rsp[c] # <<>>
            /\ rsp' = [rsp EXCEPT ![c] = Tail(@)]

(* No other response to the same request follows the one read from c.      *)
LastAnswer(c, r, p) ==
    /\ c = "fs2dev" =>
         /\ p = "startcopy" => Head(r).type # "StartCopy"
         /\ p = "wipe" => Head(r).type # "Wipe"
         /\ p \in {"copying", "wiping"} => Head(r).type # "CopyStatus"
    /\ c = "analyzer" => p = "end" \/ Head(r).type # "UploadStatus"

LastOne(c) == LastAnswer(c, rsp[c], pc)

---------------------------------------------------------------------------
(* The types of the messages, of the states of the children and of what    *)
(* the disks hold.                                                         *)

(* A child that reads a request, answers it and changes its state keeps    *)
(* the types of the pipes.                                                 *)
LEMMA AnswerType ==
    ASSUME IpcTypeOK, NEW c \in Procs, NEW rs \in Seq(Rsps),
           NEW s \in ProcStates, req[c] # <<>>, Answer(c, rs, s)
    PROVE  IpcTypeOK'
<1>1. req[c] \in Seq(Reqs) /\ rsp[c] \in Seq(Rsps)
  BY DEF IpcTypeOK
<1>2. Tail(req[c]) \in Seq(Reqs)
  BY SMT, <1>1
<1>3. rsp[c] \o rs \in Seq(Rsps)
  BY SMT, <1>1
<1> QED
  BY <1>2, <1>3 DEF IpcTypeOK, Answer

(* So does one that writes a response without having read a request.       *)
LEMMA EmitType ==
    ASSUME IpcTypeOK, NEW c \in Procs, NEW rs \in Seq(Rsps),
           NEW s \in ProcStates, Emit(c, rs, s)
    PROVE  IpcTypeOK'
<1>1. rsp[c] \o rs \in Seq(Rsps)
  BY SMT DEF IpcTypeOK
<1> QED
  BY <1>1 DEF IpcTypeOK, Emit

(* The responses of the handlers.                                          *)
LEMMA SmallAnswers ==
    /\ <<>> \in Seq(Rsps)
    /\ <<Error>> \in Seq(Rsps) /\ <<EndRsp>> \in Seq(Rsps)
    /\ <<Error, Error>> \in Seq(Rsps)
    /\ <<Zeros>> \in Seq(Rsps)
    /\ \A t \in RspTypes : <<Msg(t)>> \in Seq(Rsps)
<1>1. Error \in Rsps /\ EndRsp \in Rsps /\ \A t \in RspTypes : Msg(t) \in Rsps
  BY PlainMessage DEF Error, EndRsp, RspTypes, ReqTypes
<1>2. Zeros \in Rsps
  BY DEF Rsps
<1> QED
  BY SMT, <1>1, <1>2

(* What the answers that carry something carry.                            *)
LEMMA Payloads ==
    ASSUME NEW m \in Rsps
    PROVE  /\ m.type = "Analyze" => m.clean \subseteq Files /\ m.dirty \subseteq Files
           /\ m.type = "BitVec" => m.last \in BOOLEAN
<1>1. CASE m = Zeros
  <2>1. m.type = "ReadFile"
    BY SMT, <1>1 DEF Zeros
  <2> QED
    BY <2>1
<1>2. CASE m \in Rsps \ {Zeros}
  BY <1>2 DEF Rsps, RspTypes, ReqTypes
<1> QED
  BY <1>1, <1>2

(* The shapes that the steps of most children have.                        *)
LEMMA ErrorTypes ==
    ASSUME IpcTypeOK, NEW c \in Procs
    PROVE  /\ req[c] # <<>> /\ RunError(c) => IpcTypeOK'
           /\ req[c] # <<>> /\ BadRequestTwice(c) => IpcTypeOK'
           /\ WaitEndOnce(c) => IpcTypeOK'
           /\ WaitEndLoop(c) => IpcTypeOK'
<1>1. "WaitEnd" \in ProcStates /\ "End" \in ProcStates
  BY DEF ProcStates, F2TStates
<1> QED
  BY <1>1, AnswerType, SmallAnswers DEF RunError, BadRequestTwice, WaitEndOnce,
     WaitEndLoop, Receives, ReceivesOther

---------------------------------------------------------------------------
(* files2tar.                                                              *)
LEMMA Files2TarTypes ==
    ASSUME IpcTypeOK, TarTypeOK, Files2TarNext
    PROVE  IpcTypeOK' /\ TarTypeOK'
<1> DEFINE c == "files2tar"
<1>1. c \in Procs /\ F2TStates \subseteq ProcStates
  BY DEF Procs, Children, ProcStates
<1> USE DEF Receives, ReceivesOther
<1>2. CASE F2TUnlock
  <2>1. IpcTypeOK'
    BY <1>1, <1>2, AnswerType, ErrorTypes, SmallAnswers DEF F2TUnlock, F2TStates
  <2> QED
    BY <2>1, <1>2 DEF F2TUnlock, TarTypeOK, tarVars
<1>3. CASE F2TNewFile
  <2>1. IpcTypeOK'
    BY <1>1, <1>3, AnswerType, SmallAnswers DEF F2TNewFile, F2TStates, RspTypes
  <2>2. Head(req[c]).path \in Entries \cup {NoEntry}
    <3>1. Head(req[c]) \in Reqs /\ Head(req[c]).type = "NewFile"
      BY SMT, <1>1, <1>3 DEF F2TNewFile, IpcTypeOK
    <3> QED
      BY <3>1 DEF Reqs, ReqTypes
  <2>3. TarTypeOK'
    BY SMT, <2>2, <1>3 DEF F2TNewFile, TarTypeOK, tarVars
  <2> QED
    BY <2>1, <2>3
<1>4. CASE F2TWriteFile
  <2>1. IpcTypeOK'
    BY <1>1, <1>4, AnswerType, ErrorTypes, SmallAnswers DEF F2TWriteFile,
       F2TStates, RspTypes, ReqTypes
  <2>2. TarTypeOK'
    BY SMT, <1>4 DEF F2TWriteFile, TarTypeOK, tarVars
  <2> QED
    BY <2>1, <2>2
<1>5. CASE F2TEndFile \/ F2TClose \/ F2TEnd
  <2>1. IpcTypeOK'
    BY <1>1, <1>5, AnswerType, ErrorTypes, SmallAnswers DEF F2TEndFile,
       F2TClose, F2TEnd, F2TStates, RspTypes, ReqTypes
  <2>2. TarTypeOK'
    BY <1>5 DEF F2TEndFile, F2TClose, F2TEnd, TarTypeOK, tarVars
  <2> QED
    BY <2>1, <2>2
<1>6. CASE F2TUnexpected \/ F2TWaitEnd
  <2>1. IpcTypeOK'
    BY <1>1, <1>6, ErrorTypes DEF F2TUnexpected, F2TWaitEnd
  <2>2. TarTypeOK'
    BY <1>6 DEF F2TUnexpected, F2TWaitEnd, TarTypeOK, tarVars
  <2> QED
    BY <2>1, <2>2
<1> QED
  BY <1>2, <1>3, <1>4, <1>5, <1>6 DEF Files2TarNext

(* tar2files.                                                              *)
LEMMA Tar2FilesTypes ==
    ASSUME IpcTypeOK, TarTypeOK, IndexTypeOK, Tar2FilesNext
    PROVE  IpcTypeOK' /\ TarTypeOK' /\ IndexTypeOK'
<1> DEFINE c == "tar2files"
<1>1. c \in Procs /\ T2FStates \subseteq ProcStates
  BY DEF Procs, Children, ProcStates
<1> USE DEF Receives, ReceivesOther
<1>2. CASE T2FUnlock
  <2>1. IpcTypeOK'
    BY <1>1, <1>2, AnswerType, ErrorTypes, SmallAnswers DEF T2FUnlock, T2FStates
  <2> QED
    BY <2>1, <1>2 DEF T2FUnlock, TarTypeOK, IndexTypeOK, tarVars
<1>3. CASE T2FLoadMetadata
  <2>1. IpcTypeOK'
    BY <1>1, <1>3, EmitType, SmallAnswers DEF T2FLoadMetadata, T2FStates
  <2> QED
    BY <2>1, <1>3 DEF T2FLoadMetadata, TarTypeOK, IndexTypeOK, tarVars
<1>4. CASE T2FGetAttr \/ T2FReadFile \/ T2FReadDir \/ T2FEnd \/ T2FUnexpected
  <2>1. IpcTypeOK'
    BY <1>1, <1>4, AnswerType, SmallAnswers DEF T2FGetAttr, T2FReadFile,
       T2FReadDir, T2FEnd, T2FUnexpected, T2FStates, RspTypes, ReqTypes
  <2> QED
    BY <2>1, <1>4 DEF T2FGetAttr, T2FReadFile, T2FReadDir, T2FEnd,
       T2FUnexpected, TarTypeOK, IndexTypeOK, tarVars
<1>5. CASE T2FWaitEnd
  <2>1. IpcTypeOK'
    BY <1>1, <1>5, ErrorTypes DEF T2FWaitEnd
  <2> QED
    BY <2>1, <1>5 DEF T2FWaitEnd, TarTypeOK, IndexTypeOK, tarVars
<1> QED
  BY <1>2, <1>3, <1>4, <1>5 DEF Tar2FilesNext

(* The steps of files2fs keep the types of the pipes and of the image.     *)
LEMMA Files2FsTypes ==
    ASSUME IpcTypeOK, ImgTypeOK, BitVecInv, Files2FsNext
    PROVE  IpcTypeOK' /\ ImgTypeOK' /\ BitVecInv'
<1> DEFINE c == "files2fs"
<1>1. c \in Procs /\ F2FStates \subseteq ProcStates /\ c \in DOMAIN st
  BY DEF Procs, Children, ProcStates, IpcTypeOK
<1> USE DEF Receives, ReceivesOther
<1>2. CASE F2FSetFsInfos
  <2>1. IpcTypeOK'
    BY <1>1, <1>2, AnswerType, ErrorTypes, SmallAnswers DEF F2FSetFsInfos,
       F2FStates, RspTypes, ReqTypes
  <2>2. ImgTypeOK' /\ BitVecInv'
    BY <1>1, <1>2 DEF F2FSetFsInfos, ImgTypeOK, BitVecInv, imgVars, Answer,
       RunError
  <2> QED
    BY <2>1, <2>2
<1>3. CASE F2FNewFile
  <2>1. IpcTypeOK'
    BY <1>1, <1>3, AnswerType, SmallAnswers DEF F2FNewFile, F2FStates, RspTypes
  <2>2. Head(req[c]).path \in Entries \cup {NoEntry}
    <3>1. Head(req[c]) \in Reqs /\ Head(req[c]).type = "NewFile"
      BY SMT, <1>1, <1>3 DEF F2FNewFile, IpcTypeOK
    <3> QED
      BY <3>1 DEF Reqs, ReqTypes
  <2>3. ImgTypeOK'
    BY SMT, <2>2, <1>3 DEF F2FNewFile, ImgTypeOK
  <2>4. BitVecInv'
    BY <1>1, <1>3 DEF F2FNewFile, BitVecInv, Answer
  <2> QED
    BY <2>1, <2>3, <2>4
<1>4. CASE F2FWriteFile
  <2>1. IpcTypeOK'
    BY <1>1, <1>4, AnswerType, SmallAnswers DEF F2FWriteFile, F2FStates,
       RspTypes, ReqTypes
  <2>2. ImgTypeOK'
    BY SMT, <1>4 DEF F2FWriteFile, ImgTypeOK
  <2>3. BitVecInv'
    BY <1>1, <1>4 DEF F2FWriteFile, BitVecInv, Answer
  <2> QED
    BY <2>1, <2>2, <2>3
<1>5. CASE F2FEndFile \/ F2FClose
  <2>1. IpcTypeOK'
    BY <1>1, <1>5, AnswerType, ErrorTypes, SmallAnswers DEF F2FEndFile,
       F2FClose, F2FStates, RspTypes, ReqTypes
  <2>2. ImgTypeOK'
    BY <1>5 DEF F2FEndFile, F2FClose, ImgTypeOK, imgVars
  <2>3. BitVecInv'
    BY SMT, <1>1, <1>5, BvChunksPositive DEF F2FEndFile, F2FClose, BitVecInv,
       imgVars, Answer, RunError
  <2> QED
    BY <2>1, <2>2, <2>3
<1>6. CASE F2FBitVec
  <2>1. bvLeft' \in 0 .. BvChunks /\ bvLeft' \in Nat
    BY SMT, <1>6, BvChunksPositive DEF F2FBitVec, BitVecInv, ImgTypeOK
  <2>2. <<[type |-> "BitVec", last |-> bvLeft' = 0]>> \in Seq(Rsps)
    BY SMT DEF Rsps
  <2>3. IpcTypeOK'
    BY <1>1, <1>6, <2>2, AnswerType DEF F2FBitVec, F2FStates
  <2>4. ImgTypeOK'
    BY <1>6, <2>1 DEF F2FBitVec, ImgTypeOK
  <2>5. BitVecInv'
    <3>1. st'[c] = IF bvLeft' = 0 THEN "WaitEnd" ELSE "ForwardBitVec"
      BY <1>1, <1>6 DEF F2FBitVec, Answer
    <3> QED
      BY SMT, <3>1, <2>1 DEF BitVecInv
  <2> QED
    BY <2>3, <2>4, <2>5
<1>7. CASE F2FImgDisk \/ F2FWriteData \/ F2FEnd
  <2>1. IpcTypeOK'
    BY <1>1, <1>7, AnswerType, ErrorTypes, SmallAnswers DEF F2FImgDisk,
       F2FWriteData, F2FEnd, F2FStates, RspTypes, ReqTypes
  <2>2. ImgTypeOK' /\ BitVecInv'
    BY <1>1, <1>7 DEF F2FImgDisk, F2FWriteData, F2FEnd, ImgTypeOK, BitVecInv,
       imgVars, Answer, RunError
  <2> QED
    BY <2>1, <2>2
<1>8. CASE F2FUnexpected \/ F2FWaitEnd
  <2>1. IpcTypeOK'
    BY <1>1, <1>8, ErrorTypes DEF F2FUnexpected, F2FWaitEnd
  <2>2. ImgTypeOK' /\ BitVecInv'
    BY <1>1, <1>8 DEF F2FUnexpected, F2FWaitEnd, WaitEndOnce, ImgTypeOK,
       BitVecInv, imgVars, Answer, RunError, BadRequestTwice
  <2> QED
    BY <2>1, <2>2
<1> QED
  BY <1>2, <1>3, <1>4, <1>5, <1>6, <1>7, <1>8 DEF Files2FsNext

(* fs2dev.                                                                 *)
LEMMA Fs2DevTypes ==
    ASSUME IpcTypeOK, DevTypeOK, Fs2DevNext
    PROVE  IpcTypeOK' /\ DevTypeOK'
<1> DEFINE c == "fs2dev"
<1>1. c \in Procs /\ F2DStates \subseteq ProcStates
  BY DEF Procs, Children, ProcStates
<1> USE DEF Receives, ReceivesOther
<1>2. CASE F2DUnlock \/ F2DDevSize \/ F2DLoadBitVec \/ F2DEnd
  <2>1. IpcTypeOK'
    BY <1>1, <1>2, AnswerType, ErrorTypes, SmallAnswers DEF F2DUnlock,
       F2DDevSize, F2DLoadBitVec, F2DEnd, F2DStates, RspTypes, ReqTypes
  <2> QED
    BY <2>1, <1>2 DEF F2DUnlock, F2DDevSize, F2DLoadBitVec, F2DEnd, DevTypeOK,
       devVars
<1>3. CASE F2DStartCopy \/ F2DWipe
  <2>1. IpcTypeOK'
    BY <1>1, <1>3, AnswerType, SmallAnswers DEF F2DStartCopy, F2DWipe,
       F2DStates, RspTypes, ReqTypes
  <2>2. DevTypeOK'
    BY SMT, <1>3, GroupsPositive DEF F2DStartCopy, F2DWipe, DevTypeOK
  <2> QED
    BY <2>1, <2>2
<1>4. CASE F2DWriteGroup \/ F2DWriteFails
  <2>1. IpcTypeOK'
    BY <1>1, <1>4, EmitType, SmallAnswers DEF F2DWriteGroup, F2DWriteFails,
       F2DStates, RspTypes
  <2>2. DevTypeOK'
    BY SMT, <1>4, GroupsPositive DEF F2DWriteGroup, F2DWriteFails, DevTypeOK,
       DevContents
  <2> QED
    BY <2>1, <2>2
<1>5. CASE F2DStatusDone
  <2>1. IpcTypeOK'
    BY <1>1, <1>5, EmitType, SmallAnswers DEF F2DStatusDone, F2DStates, RspTypes
  <2> QED
    BY <2>1, <1>5 DEF F2DStatusDone, DevTypeOK, devVars
<1>6. CASE F2DUnexpected \/ F2DWaitEnd
  <2>1. IpcTypeOK'
    BY <1>1, <1>6, ErrorTypes DEF F2DUnexpected, F2DWaitEnd
  <2> QED
    BY <2>1, <1>6 DEF F2DUnexpected, F2DWaitEnd, DevTypeOK, devVars
<1> QED
  BY <1>2, <1>3, <1>4, <1>5, <1>6 DEF Fs2DevNext

(* scsi2files forwards requests to dev2scsi and relays its responses.      *)
LEMMA ForwardType ==
    ASSUME IpcTypeOK, NEW ms \in Seq(Reqs), NEW s \in ProcStates,
           req["scsi2files"] # <<>>, Forward(ms, s)
    PROVE  IpcTypeOK'
<1>1. "scsi2files" \in Procs /\ "dev2scsi" \in Procs
  BY DEF Procs, Children
<1>2. Tail(req["scsi2files"]) \in Seq(Reqs) /\ req["dev2scsi"] \o ms \in Seq(Reqs)
  BY SMT, <1>1 DEF IpcTypeOK
<1> QED
  BY <1>1, <1>2 DEF IpcTypeOK, Forward

(* So does scsi2files when it relays the answer of dev2scsi.               *)
LEMMA RelayType ==
    ASSUME IpcTypeOK, NEW r \in Rsps, NEW s \in ProcStates,
           rsp["dev2scsi"] # <<>>, Relay(r, s)
    PROVE  IpcTypeOK'
<1>1. "scsi2files" \in Procs /\ "dev2scsi" \in Procs
  BY DEF Procs, Children
<1>2. Tail(rsp["dev2scsi"]) \in Seq(Rsps) /\ Append(rsp["scsi2files"], r) \in Seq(Rsps)
  BY SMT, <1>1 DEF IpcTypeOK
<1> QED
  BY <1>1, <1>2 DEF IpcTypeOK, Relay

(* scsi2files and dev2scsi.                                                *)
LEMMA Scsi2FilesTypes ==
    ASSUME IpcTypeOK, Scsi2FilesNext
    PROVE  IpcTypeOK'
<1> DEFINE c == "scsi2files"
<1>1. c \in Procs /\ S2FStates \subseteq ProcStates
  BY DEF Procs, Children, ProcStates
<1> USE DEF Receives, ReceivesOther
<1>2. CASE S2FOpenDevice \/ S2FPartitions
  <2>1. <<Unlock(1)>> \in Seq(Reqs) /\ <<Msg("Partitions")>> \in Seq(Reqs)
    BY SMT DEF Unlock, Msg, Reqs, ReqTypes
  <2> QED
    BY <1>1, <1>2, <2>1, ForwardType DEF S2FOpenDevice, S2FPartitions, S2FStates
<1>3. CASE S2FOpened \/ S2FListed \/ S2FEnded
  <2>1. /\ Msg("OpenDevice") \in Rsps /\ Msg("Partitions") \in Rsps
        /\ Error \in Rsps /\ EndRsp \in Rsps
    BY PlainMessage DEF Error, EndRsp, RspTypes, ReqTypes
  <2> QED
    BY <1>1, <1>3, <2>1, RelayType DEF S2FOpened, S2FListed, S2FEnded, Answered,
       Refused, S2FStates
<1>4. CASE S2FReadSectors \/ S2FOpenPartition \/ S2FEndFails
  BY <1>1, <1>4, AnswerType, ErrorTypes, SmallAnswers DEF S2FReadSectors,
     S2FOpenPartition, S2FEndFails, S2FStates, RspTypes, ReqTypes
<1>5. CASE S2FRead
  <2>1. \A t \in {"GetAttr", "ReadDir", "ReadFile"} : t \in RspTypes
    BY DEF RspTypes, ReqTypes
  <2> QED
    BY <1>1, <1>5, <2>1, AnswerType, SmallAnswers DEF S2FRead, S2FStates
<1>6. CASE S2FEnd
  <2>1. <<Unlock(0), Msg("End")>> \in Seq(Reqs) /\ <<Msg("End")>> \in Seq(Reqs)
    BY SMT DEF Unlock, Msg, Reqs, ReqTypes
  <2> QED
    BY <1>1, <1>6, <2>1, ForwardType DEF S2FEnd, S2FStates
<1>7. CASE S2FBrokenPipe
  BY <1>1, <1>7, EmitType, ErrorTypes, SmallAnswers DEF S2FBrokenPipe, S2FStates
<1>8. CASE S2FUnexpected \/ S2FWaitEnd
  BY <1>1, <1>8, AnswerType, ErrorTypes, SmallAnswers DEF S2FUnexpected,
     S2FWaitEnd, S2FStates
<1> QED
  BY <1>2, <1>3, <1>4, <1>5, <1>6, <1>7, <1>8 DEF Scsi2FilesNext

(* The steps of dev2scsi keep the types of the pipes.                      *)
LEMMA Dev2ScsiTypes ==
    ASSUME IpcTypeOK, Dev2ScsiNext
    PROVE  IpcTypeOK'
<1> DEFINE c == "dev2scsi"
<1>1. c \in Procs /\ "scsi2files" \in Procs /\ D2SStates \subseteq ProcStates
  BY DEF Procs, Children, ProcStates
<1> USE DEF Receives, ReceivesOther
<1>2. CASE D2SUnlock \/ D2SPartitions \/ D2SEnd
  BY <1>1, <1>2, AnswerType, SmallAnswers DEF D2SUnlock, D2SPartitions, D2SEnd,
     D2SStates, RspTypes, ReqTypes
<1>3. CASE D2SKilled
  BY <1>1, <1>3, EmitType, SmallAnswers DEF D2SKilled, D2SStates
<1>4. CASE D2SReturnsIntoParent \/ D2SGhostWaitEnd
  <2>1. /\ Append(rsp["scsi2files"], Error) \in Seq(Rsps)
        /\ Append(rsp["scsi2files"], EndRsp) \in Seq(Rsps)
    BY SMT, <1>1, PlainMessage DEF IpcTypeOK, Error, EndRsp, RspTypes, ReqTypes
  <2>2. rsp' \in [Procs -> Seq(Rsps)]
    BY <1>1, <1>4, <2>1 DEF IpcTypeOK, D2SReturnsIntoParent, D2SGhostWaitEnd
  <2>3. req' \in [Procs -> Seq(Reqs)]
    <3>1. req["scsi2files"] # <<>> => Tail(req["scsi2files"]) \in Seq(Reqs)
      BY SMT, <1>1 DEF IpcTypeOK
    <3> QED
      BY <1>1, <1>4, <3>1 DEF IpcTypeOK, D2SReturnsIntoParent, D2SGhostWaitEnd
  <2>4. st' \in [Procs -> ProcStates]
    BY <1>1, <1>4 DEF IpcTypeOK, D2SReturnsIntoParent, D2SGhostWaitEnd,
       D2SStates
  <2> QED
    BY <2>2, <2>3, <2>4 DEF IpcTypeOK
<1> QED
  BY <1>2, <1>3, <1>4 DEF Dev2ScsiNext

(* The services.                                                           *)
LEMMA ServicesTypes ==
    ASSUME IpcTypeOK, TarTypeOK, ServicesNext
    PROVE  IpcTypeOK' /\ TarTypeOK'
<1>1. ServiceNames \subseteq Procs /\ ServiceStates \subseteq ProcStates
  BY DEF ServiceNames, Procs, Children, ProcStates
<1>2. TarTypeOK'
  BY DEF ServicesNext, AnalyzerAnalyze, AnalyzerAgain, UploaderUpload,
     CmdExecRun, IdentificatorId, UsbDevDevices, ServiceEnd, ServiceWaitEnd,
     TarTypeOK, tarVars
<1> USE DEF Receives, ReceivesOther
<1>3. CASE AnalyzerAnalyze
  <2>1. CASE "analyze" \in Faults /\ Answer("analyzer", <<Error>>, "Drained")
    BY <1>1, <1>2, <1>3, <2>1, AnswerType, SmallAnswers DEF AnalyzerAnalyze,
       ServiceNames, ServiceStates
  <2>2. ASSUME NEW clean \in SUBSET {f \in Files : InTar(f)},
               NEW progress \in {<<>>, <<Msg("UploadStatus")>>},
               Answer("analyzer",
                    Append(progress,
                           [type |-> "Analyze", clean |-> clean,
                            dirty |-> {f \in Files : InTar(f)} \ clean]),
                    "Drained")
        PROVE  IpcTypeOK'
    <3> DEFINE verdict == [type |-> "Analyze", clean |-> clean,
                           dirty |-> {f \in Files : InTar(f)} \ clean]
    <3>1. verdict \in Rsps
      BY DEF Rsps
    <3>2. progress \in Seq(Rsps)
      BY SmallAnswers DEF RspTypes
    <3> HIDE DEF verdict
    <3>3. Append(progress, verdict) \in Seq(Rsps)
      BY SMT, <3>1, <3>2
    <3> QED
      BY <1>1, <1>3, <2>2, <3>3, AnswerType DEF AnalyzerAnalyze, ServiceNames,
         ServiceStates, verdict
  <2> QED
    BY <1>3, <1>2, <2>1, <2>2 DEF AnalyzerAnalyze
<1>4. CASE AnalyzerAgain
  BY <1>1, <1>2, <1>4, AnswerType, SmallAnswers DEF AnalyzerAgain, ServiceNames,
     ServiceStates
<1>5. CASE UploaderUpload
  <2>1. \A progress \in {<<>>, <<Msg("UploadStatus")>>} :
            Append(progress, Msg("Upload")) \in Seq(Rsps)
    <3>1. Msg("Upload") \in Rsps
      BY PlainMessage DEF RspTypes, ReqTypes
    <3>2. <<>> \in Seq(Rsps) /\ <<Msg("UploadStatus")>> \in Seq(Rsps)
      BY SmallAnswers DEF RspTypes
    <3>3. ASSUME NEW progress \in Seq(Rsps)
          PROVE  Append(progress, Msg("Upload")) \in Seq(Rsps)
      BY SMT, <3>1
    <3> QED
      BY <3>2, <3>3
  <2> QED
    BY <1>1, <1>2, <1>5, <2>1, AnswerType, SmallAnswers DEF UploaderUpload,
       ServiceNames, ServiceStates
<1>6. CASE CmdExecRun \/ IdentificatorId \/ UsbDevDevices
  <2>1. {"Exec", "PostCopyExec", "Id", "Devices"} \subseteq RspTypes
    BY DEF RspTypes, ReqTypes
  <2> QED
    BY <1>1, <1>2, <1>6, <2>1, AnswerType, SmallAnswers DEF CmdExecRun,
       IdentificatorId, UsbDevDevices, ServiceNames, ServiceStates
<1>7. CASE ServiceEnd \/ ServiceWaitEnd
  BY <1>1, <1>2, <1>7, AnswerType, ErrorTypes, SmallAnswers DEF ServiceEnd,
     ServiceWaitEnd, ServiceStates
<1> QED
  BY <1>3, <1>4, <1>5, <1>6, <1>7 DEF ServicesNext

(* A request of usbsas is one, and never an unlock.                        *)
LEMMA RequestType ==
    ASSUME TypeOK, fstype \in FsTypes \cup {"Fat"}, pc \in DOMAIN CallOf
    PROVE  /\ Request \in Reqs
           /\ Request.type # "Unlock"
           /\ Callee \in Children
<1> DEFINE t == CallOf[pc][2]
<1>2. CASE pc \in {"tar_new", "dir_attr", "dir_new", "w_attr", "w_new", "w_read"}
  <2>1. t \in {"NewFile", "GetAttr", "ReadFile"}
    BY SMT, <1>2, CallValues
  <2>2. Request = [type |-> t, path |-> cur]
    BY <1>2 DEF Request
  <2> HIDE DEF t
  <2> QED
    BY <2>1, <2>2, CallTable DEF Reqs, TypeOK, Callee
<1>3. CASE pc \in {"tar_write", "w_write"}
  <2>1. t = "WriteFile"
    BY SMTT(60), <1>3, CallValues
  <2>2. Request = [type |-> t, offset |-> off]
    BY <1>3 DEF Request
  <2> HIDE DEF t
  <2> QED
    BY <2>1, <2>2, CallTable DEF Reqs, TypeOK, Callee
<1>4. CASE pc = "fs_init"
  <2>1. t = "SetFsInfos"
    BY SMT, <1>4, CallValues
  <2>2. Request = [type |-> t, fstype |-> fstype]
    BY <1>4 DEF Request
  <2> HIDE DEF t
  <2> QED
    BY <2>1, <2>2, CallTable DEF Reqs, TypeOK, Callee
<1>5. CASE pc = "bv_load"
  <2>1. t = "LoadBitVec"
    BY SMT, <1>5, CallValues
  <2>2. Request = [type |-> t, last |-> last]
    BY <1>5 DEF Request
  <2> HIDE DEF t
  <2> QED
    BY <2>1, <2>2, CallTable DEF Reqs, TypeOK, Callee
<1>6. CASE pc \notin {"tar_new", "dir_attr", "dir_new", "w_attr", "w_new",
                      "w_read", "tar_write", "w_write", "fs_init", "bv_load"}
  <2>1. t \in ReqTypes
    BY <1>6, CallTable
  <2>2. Request = Msg(t)
    BY <1>6 DEF Request
  <2> HIDE DEF t
  <2> QED
    BY <2>1, <2>2, CallTable, PlainMessage DEF Msg, ReqTypes, Callee
<1> QED
  BY <1>2, <1>3, <1>4, <1>5, <1>6

(* The inductive invariant is stronger than the property of the runs.      *)
LEMMA TypeInvTypeOK == TypeInv => TypeOK
  BY DEF TypeInv, IpcTypeOK, StoreTypeOK, OrchTypeOK, TypeOK

(* Reading a response keeps the types of the pipes.                        *)
LEMMA ReadType ==
    ASSUME IpcTypeOK, NEW c \in Procs, NEW T,
           Read(c, T) \/ ReadFails(c, T)
    PROVE  rsp' \in [Procs -> Seq(Rsps)]
<1>1. rsp[c] # <<>> => Tail(rsp[c]) \in Seq(Rsps)
  BY SMT DEF IpcTypeOK
<1> QED
  BY <1>1 DEF IpcTypeOK, Read, ReadFails, ReadOther, ReadEof

(* The second half of a call keeps the types of the pipes.                 *)
LEMMA CallType ==
    ASSUME IpcTypeOK, NEW p \in DOMAIN CallOf, CallOk(p) \/ CallFails(p)
    PROVE  rsp' \in [Procs -> Seq(Rsps)] /\ wait' = "none" /\ pc = p
<1>1. CallOf[p][1] \in Procs
  BY CallTable DEF Procs
<1> HIDE DEF CallOf
<1> QED
  BY <1>1, ReadType DEF CallOk, CallFails

(* Writing unlock bytes does too.                                          *)
LEMMA WriteUnlockType ==
    ASSUME IpcTypeOK, NEW c \in Procs, NEW v \in WipeDevs \cup {0, 1, 2}
    PROVE  WriteUnlock(c, v) \in [Procs -> Seq(Reqs)]
<1>1. Unlock(v) \in Reqs
  BY DEF Unlock, Reqs
<1>2. Append(req[c], Unlock(v)) \in Seq(Reqs)
  BY SMT, <1>1 DEF IpcTypeOK
<1> QED
  BY <1>2 DEF WriteUnlock, IpcTypeOK

(* end_all and wait_all go through the children.                           *)
LEMMA EndOrderValue ==
    /\ Analyze => EndOrder = <<"analyzer", "identificator", "cmdexec", "files2fs",
                               "files2tar", "filter", "fs2dev", "scsi2files",
                               "tar2files", "uploader", "usbdev">>
    /\ ~Analyze => EndOrder = <<"identificator", "cmdexec", "files2fs", "files2tar",
                                "filter", "fs2dev", "scsi2files", "tar2files",
                                "uploader", "usbdev">>
<1>1. ASSUME Analyze
      PROVE  EndOrder = <<"analyzer", "identificator", "cmdexec", "files2fs",
                          "files2tar", "filter", "fs2dev", "scsi2files",
                          "tar2files", "uploader", "usbdev">>
  <2> DEFINE rest == <<"identificator", "cmdexec", "files2fs", "files2tar",
                       "filter", "fs2dev", "scsi2files", "tar2files",
                       "uploader", "usbdev">>
             all == <<"analyzer", "identificator", "cmdexec", "files2fs",
                      "files2tar", "filter", "fs2dev", "scsi2files",
                      "tar2files", "uploader", "usbdev">>
  <2>1. EndOrder = <<"analyzer">> \o rest
    BY <1>1 DEF EndOrder
  <2>2. /\ Len(<<"analyzer">> \o rest) = 11
        /\ <<"analyzer">> \o rest \in Seq(Children)
    BY SMT DEF Children
  <2>3. all \in Seq(Children) /\ Len(all) = 11
    BY SMT DEF Children
  <2>4. \A i \in 1 .. 11 : (<<"analyzer">> \o rest)[i] = all[i]
    BY SMT
  <2> HIDE DEF rest, all
  <2>5. <<"analyzer">> \o rest = all
    BY <2>2, <2>3, <2>4, SameSeq
  <2> QED
    BY <2>1, <2>5 DEF all
<1>2. ASSUME ~Analyze
      PROVE  EndOrder = <<"identificator", "cmdexec", "files2fs", "files2tar",
                          "filter", "fs2dev", "scsi2files", "tar2files",
                          "uploader", "usbdev">>
  BY SMT, <1>2 DEF EndOrder
<1> QED
  BY <1>1, <1>2

(* end_all goes through each child once.                                   *)
LEMMA EndOrderType ==
    /\ Len(EndOrder) \in {10, 11}
    /\ \A i \in 1 .. Len(EndOrder) : EndOrder[i] \in Children
    /\ \A i, j \in 1 .. Len(EndOrder) : EndOrder[i] = EndOrder[j] => i = j
<1>1. CASE Analyze
  <2>1. Len(EndOrder) = 11
    BY SMT, <1>1, EndOrderValue
  <2>2. /\ EndOrder[1] = "analyzer"
        /\ EndOrder[2] = "identificator"
        /\ EndOrder[3] = "cmdexec"
        /\ EndOrder[4] = "files2fs"
        /\ EndOrder[5] = "files2tar"
        /\ EndOrder[6] = "filter"
        /\ EndOrder[7] = "fs2dev"
        /\ EndOrder[8] = "scsi2files"
        /\ EndOrder[9] = "tar2files"
        /\ EndOrder[10] = "uploader"
        /\ EndOrder[11] = "usbdev"
    BY SMT, <1>1, EndOrderValue
  <2>3. \A i \in 1 .. 11 : i \in {1, 2, 3, 4, 5, 6, 7, 8, 9, 10, 11}
    BY SMT
  <2>4. \A i, j \in 1 .. 11 : EndOrder[i] = EndOrder[j] => i = j
    BY SMT, <2>2, <2>3
  <2>5. \A i \in 1 .. 11 : EndOrder[i] \in Children
    BY <2>2, <2>3 DEF Children
  <2> QED
    BY <2>1, <2>4, <2>5
<1>2. CASE ~Analyze
  <2>1. Len(EndOrder) = 10
    BY SMT, <1>2, EndOrderValue
  <2>2. /\ EndOrder[1] = "identificator"
        /\ EndOrder[2] = "cmdexec"
        /\ EndOrder[3] = "files2fs"
        /\ EndOrder[4] = "files2tar"
        /\ EndOrder[5] = "filter"
        /\ EndOrder[6] = "fs2dev"
        /\ EndOrder[7] = "scsi2files"
        /\ EndOrder[8] = "tar2files"
        /\ EndOrder[9] = "uploader"
        /\ EndOrder[10] = "usbdev"
    BY SMT, <1>2, EndOrderValue
  <2>3. \A i \in 1 .. 10 : i \in {1, 2, 3, 4, 5, 6, 7, 8, 9, 10}
    BY SMT
  <2>4. \A i, j \in 1 .. 10 : EndOrder[i] = EndOrder[j] => i = j
    BY SMT, <2>2, <2>3
  <2>5. \A i \in 1 .. 10 : EndOrder[i] \in Children
    BY <2>2, <2>3 DEF Children
  <2> QED
    BY <2>1, <2>4, <2>5
<1> QED
  BY <1>1, <1>2

(* The variables that usbsas never writes.                                 *)
LEMMA StoresUnchanged ==
    ASSUME TypeInv, UNCHANGED <<st, storeVars>>
    PROVE  StoreTypeOK' /\ BitVecInv'
<1>1. TarTypeOK' /\ IndexTypeOK'
  BY DEF TypeInv, StoreTypeOK, TarTypeOK, IndexTypeOK, storeVars, tarVars
<1>2. ImgTypeOK' /\ DevTypeOK' /\ BitVecInv'
  BY DEF TypeInv, StoreTypeOK, ImgTypeOK, DevTypeOK, BitVecInv, storeVars,
     imgVars, devVars
<1> QED
  BY <1>1, <1>2 DEF StoreTypeOK

(* The variables of usbsas, where it takes no step.                        *)
LEMMA OrchUnchanged ==
    ASSUME OrchTypeOK, UNCHANGED orchVars
    PROVE  OrchTypeOK'
<1>1. /\ UNCHANGED <<state, pc, wait, locked, nth>>
      /\ UNCHANGED <<hasId, dest, fstype, filtered, last>>
      /\ UNCHANGED <<todo, cur, off, files, dirs, errors, dirty, hidden>>
  BY DEF orchVars, ctlVars, jobVars, loopVars, reportVars
<1> QED
  BY SMT, <1>1 DEF OrchTypeOK

(* The calls: a request is written, or an answer read and something done   *)
(* with it.                                                                *)
LEMMA SendRequestTypes ==
    ASSUME TypeInv, SendRequest
    PROVE  IpcTypeOK' /\ StoreTypeOK' /\ OrchTypeOK' /\ BitVecInv'
<1>1. pc \in DOMAIN CallOf /\ UNCHANGED <<st, rsp, storeVars>>
  BY DEF SendRequest
<1>2. Request \in Reqs /\ Callee \in Children
  BY <1>1, RequestType, TypeInvTypeOK DEF TypeInv, OrchTypeOK
<1>3. Callee \in Procs
  BY <1>2 DEF Procs
<1>4. Append(req[Callee], Request) \in Seq(Reqs)
  BY SMT, <1>2, <1>3 DEF TypeInv, IpcTypeOK
<1>5. IpcTypeOK'
  BY <1>1, <1>3, <1>4 DEF SendRequest, TypeInv, IpcTypeOK
<1>6. OrchTypeOK'
  BY <1>2 DEF SendRequest, TypeInv, OrchTypeOK, jobVars, loopVars, reportVars
<1> QED
  BY <1>1, <1>5, <1>6, StoresUnchanged

(* What usbsas does at a request of its client keeps the types.            *)
LEMMA ClientTypes ==
    ASSUME TypeInv, ClientNext
    PROVE  IpcTypeOK' /\ StoreTypeOK' /\ OrchTypeOK' /\ BitVecInv'
<1>1. UNCHANGED <<st, storeVars>>
  BY DEF ClientNext, ClientCall, BadRequest, MalformedRequest, CopyStart, Wipe,
     End, ipcVars
<1>2. StoreTypeOK' /\ BitVecInv'
  BY <1>1, StoresUnchanged
<1>3. CASE ClientCall
  <2>1. pc' \in DOMAIN CallOf \ EntryPoints
    BY SMTT(60), <1>3, CallPoints DEF ClientCall, Serves, EntryPoints
  <2> QED
    BY <1>2, <1>3, <2>1 DEF ClientCall, TypeInv, IpcTypeOK, OrchTypeOK, ipcVars,
       jobVars, loopVars, reportVars
<1>4. CASE BadRequest \/ MalformedRequest
  BY SMTT(60), <1>2, <1>4 DEF BadRequest, MalformedRequest, TypeInv, IpcTypeOK,
     OrchTypeOK, States, ipcVars, jobVars, loopVars, reportVars
<1>5. CASE CopyStart
  BY <1>2, <1>5, DestsKnown DEF CopyStart, TypeInv, IpcTypeOK, OrchTypeOK,
     States, EntryPoints, ipcVars, loopVars, reportVars
<1>6. CASE End
  BY SMTT(60), <1>2, <1>6, EndOrderType DEF End, TypeInv, IpcTypeOK, OrchTypeOK,
     EntryPoints, ipcVars, jobVars, loopVars, reportVars
<1>7. CASE Wipe
  <2>1. "fs2dev" \in Procs
    BY DEF Procs, Children
  <2>2. req' \in [Procs -> Seq(Reqs)]
    BY SMT, <1>7, <2>1, WriteUnlockType DEF Wipe, TypeInv, IpcTypeOK
  <2>3. pc' = pc \/ pc' \in DOMAIN CallOf \ EntryPoints
    BY <1>7, CallPoints DEF Wipe, EntryPoints
  <2>4. OrchTypeOK'
    BY SMT, <1>7, <2>3 DEF Wipe, TypeInv, OrchTypeOK, States, loopVars,
       reportVars
  <2>5. IpcTypeOK'
    BY <1>7, <2>2 DEF Wipe, TypeInv, IpcTypeOK
  <2> QED
    BY <1>2, <2>4, <2>5
<1> QED
  BY <1>3, <1>4, <1>5, <1>6, <1>7 DEF ClientNext

(* The transfer.                                                           *)
LEMMA CopyFilesTypes ==
    ASSUME TypeInv, CopyFilesNext
    PROVE  IpcTypeOK' /\ StoreTypeOK' /\ OrchTypeOK' /\ BitVecInv'
<1> USE DEF TypeInv
<1>1. UNCHANGED <<st, storeVars>>
  BY DEF CopyFilesNext, Select, GotDevSize, TarNext, TarFile, TarFileFails,
     TarClosed, AnalyzeProgress, AnalyzeDone, AnalyzeFails, Analyzed, InitFs,
     DirNext, WriteDir, WriteNext, WriteFile, WriteFileFails, ForwardBitVec,
     StartCopy, CopyProgress, CopyDone, CopyRefused, CopyBroken, UploadProgress,
     Delivered, UploadFails, TransferAborts, ipcVars
<1>2. StoreTypeOK' /\ BitVecInv'
  BY <1>1, StoresUnchanged
<1>3. /\ "fs2dev" \in Procs /\ "files2tar" \in Procs /\ "tar2files" \in Procs
      /\ "analyzer" \in Procs /\ "uploader" \in Procs /\ "files2fs" \in Procs
  BY DEF Procs, Children
<1>4. IpcTypeOK' /\ OrchTypeOK'
  <2>1. CASE Select
    <3>1. IpcTypeOK'
      <4>1. req' \in {req, WriteUnlock("fs2dev", 1), WriteUnlock("files2tar", 1)}
        BY <2>1 DEF Select
      <4>2. UNCHANGED <<st, rsp>>
        BY <2>1 DEF Select
      <4> QED
        BY <1>3, <4>1, <4>2, WriteUnlockType DEF IpcTypeOK
    <3>2. OrchTypeOK'
      <4>1. CASE /\ SourceFails \/ Closed("filter")
                 /\ RunFails
                 /\ UNCHANGED <<req, locked, todo, reportVars, filtered>>
        BY <2>1, <4>1 DEF Select, RunFails, OrchTypeOK, States, EntryPoints,
           reportVars
      <4>2. CASE \E lost \in Unlisted, gone \in Unreadable :
                    LET kept == Entries \ (lost \cup gone \cup Rejected) IN
                    /\ hidden' = lost
                    /\ errors' = gone \ lost
                    /\ filtered' = Rejected \ (lost \cup gone)
                    /\ files' = kept \cap Files
                    /\ dirs' = kept \cap Dirs
                    /\ \/ GiveUp("NothingToCopy") /\ UNCHANGED <<locked, todo>>
                       \/ /\ locked' = locked \ {"fs2dev"}
                          /\ pc' = "cf_size"
                          /\ UNCHANGED <<state, todo>>
                       \/ locked' = locked \ {"files2tar"} /\ StartTar(kept)
                       \/ RunFails /\ UNCHANGED <<locked, todo>>
        <5>1. PICK lost \in Unlisted, gone \in Unreadable :
                    LET kept == Entries \ (lost \cup gone \cup Rejected) IN
                    /\ hidden' = lost
                    /\ errors' = gone \ lost
                    /\ filtered' = Rejected \ (lost \cup gone)
                    /\ files' = kept \cap Files
                    /\ dirs' = kept \cap Dirs
                    /\ \/ GiveUp("NothingToCopy") /\ UNCHANGED <<locked, todo>>
                       \/ /\ locked' = locked \ {"fs2dev"}
                          /\ pc' = "cf_size"
                          /\ UNCHANGED <<state, todo>>
                       \/ locked' = locked \ {"files2tar"} /\ StartTar(kept)
                       \/ RunFails /\ UNCHANGED <<locked, todo>>
          BY <4>2
        <5>2. lost \subseteq Entries /\ gone \subseteq Entries
          BY DEF Unlisted, Unreadable
        <5>3. /\ errors' \subseteq Entries /\ filtered' \subseteq Entries
              /\ hidden' \subseteq Entries
              /\ files' \subseteq Files /\ dirs' \subseteq Dirs
          BY <5>1, <5>2, RejectedAreEntries
        <5>4. /\ todo' \subseteq Entries
              /\ locked' \subseteq WaitOnStartup
              /\ state' \in States
              /\ pc' \in {"recv", "cf_size", "tar_next"}
          BY <5>1 DEF OrchTypeOK, GiveUp, RunEnds, RunFails, StartTar, States
        <5>5. UNCHANGED <<wait, nth, hasId, dest, fstype, last, cur, off, dirty>>
          BY <2>1 DEF Select
        <5> QED
          BY SMT, <5>3, <5>4, <5>5, CallPoints DEF OrchTypeOK, EntryPoints
      <4> QED
        BY <2>1, <4>1, <4>2 DEF Select
    <3> QED
      BY <3>1, <3>2
  <2>2. CASE GotDevSize
    <3>1. rsp' \in [Procs -> Seq(Rsps)] /\ wait' = "none"
      BY <2>2, CallType, CallPoints DEF GotDevSize
    <3>2. IpcTypeOK'
      <4>1. /\ req' \in {req, WriteUnlock("files2tar", 0)}
            /\ UNCHANGED st
        BY <2>2 DEF GotDevSize
      <4>2. WriteUnlock("files2tar", 0) \in [Procs -> Seq(Reqs)]
        BY <1>3, WriteUnlockType DEF Procs, Children
      <4> QED
        BY <1>3, <3>1, <4>1, <4>2 DEF IpcTypeOK
    <3>3. OrchTypeOK'
      BY SMT, <2>2, <3>1 DEF GotDevSize, GiveUp, RunEnds, RunFails, StartTar,
         States, OrchTypeOK, EntryPoints, jobVars, reportVars, Entries
    <3> QED
      BY <3>2, <3>3
  <2>3. CASE TarNext \/ DirNext \/ WriteNext
    <3>1. IpcTypeOK'
      BY <2>3 DEF TarNext, DirNext, WriteNext, IpcTypeOK, ipcVars
    <3>2. OrchTypeOK'
      <4>1. /\ pc' \in {"tar_attr", "tar_close", "dir_attr", "w_next", "w_attr",
                       "fs_close"}
            /\ \/ cur' \in todo /\ todo' = todo \ {cur'}
               \/ (cur' = cur /\ todo' \in {todo, files} /\ pc' \notin EntryPoints)
            /\ UNCHANGED <<state, wait, locked, nth, jobVars, off, reportVars>>
        BY <2>3 DEF TarNext, DirNext, WriteNext, EntryPoints
      <4>2. pc' \in DOMAIN CallOf \cup {"w_next"}
        BY <4>1, CallPoints
      <4>3. todo' \subseteq Entries /\ cur' \in Entries \cup {NoEntry}
            /\ (pc' \in EntryPoints => cur' \in Entries)
        BY <4>1 DEF OrchTypeOK, Entries
      <4> QED
        BY <4>1, <4>2, <4>3 DEF OrchTypeOK, jobVars, reportVars
    <3> QED
      BY <3>1, <3>2
  <2>4. CASE TarFile \/ WriteFile
    <3>1. /\ rsp' \in [Procs -> Seq(Rsps)] /\ wait' = "none"
          /\ pc \in EntryPoints
      BY SMT, <2>4, CallType, CallPoints DEF TarFile, WriteFile, EntryPoints
    <3>2. IpcTypeOK'
      BY <2>4, <3>1 DEF TarFile, WriteFile, IpcTypeOK
    <3>3. /\ off' \in Nat
          /\ pc' \in {"tar_new", "tar_read", "tar_write", "tar_end", "tar_next",
                      "w_new", "w_read", "w_write", "w_end", "w_next"}
      BY SMTT(60), <2>4 DEF TarFile, WriteFile, OrchTypeOK
    <3>4. /\ UNCHANGED <<state, locked, nth, jobVars, todo, cur, files, dirs,
                         errors, dirty>>
          /\ hidden' \in {hidden, hidden \cup {cur}}
      BY <2>4 DEF TarFile, WriteFile, reportVars
    <3>5. cur \in Entries
      BY <3>1 DEF OrchTypeOK
    <3>6. hidden' \subseteq Entries
      BY <3>4, <3>5 DEF OrchTypeOK
    <3>7. OrchTypeOK'
      BY <3>1, <3>3, <3>4, <3>6, CallPoints DEF OrchTypeOK, jobVars
    <3> QED
      BY <3>2, <3>7
  <2>5. CASE TarFileFails \/ WriteFileFails
    <3>1. /\ rsp' \in [Procs -> Seq(Rsps)] /\ wait' = "none"
          /\ pc \in EntryPoints
      BY SMTT(60), <2>5, CallType, CallPoints DEF TarFileFails, WriteFileFails,
         EntryPoints
    <3>2. IpcTypeOK'
      BY <2>5, <3>1 DEF TarFileFails, WriteFileFails, IpcTypeOK
    <3>3. /\ errors' = errors \cup {cur}
          /\ pc' \in {"tar_next", "w_next"}
          /\ UNCHANGED <<state, locked, nth, jobVars, loopVars, files, dirs,
                         dirty, hidden>>
      BY <2>5 DEF TarFileFails, WriteFileFails
    <3>4. OrchTypeOK'
      BY <3>1, <3>3 DEF OrchTypeOK, EntryPoints, jobVars, loopVars
    <3> QED
      BY <3>2, <3>4
  <2>6. CASE TarClosed
    <3>1. rsp' \in [Procs -> Seq(Rsps)] /\ wait' = "none"
      BY <2>6, CallType, CallPoints DEF TarClosed
    <3>2. IpcTypeOK'
      <4>1. req' \in {req, WriteUnlock("tar2files", 0), WriteUnlock("tar2files", 1)}
        BY <2>6 DEF TarClosed
      <4>2. UNCHANGED st
        BY <2>6 DEF TarClosed
      <4> QED
        BY <1>3, <3>1, <4>1, <4>2, WriteUnlockType DEF IpcTypeOK
    <3>3. pc' \in {"analyze", "analyzed", "upload", "exec", "recv"}
      BY <2>6 DEF TarClosed, RunFails, OrchTypeOK
    <3>4. /\ state' \in States
          /\ locked' \subseteq locked
          /\ UNCHANGED <<nth, jobVars, loopVars, reportVars>>
      BY <2>6 DEF TarClosed, RunFails, States
    <3>5. OrchTypeOK'
      BY <3>1, <3>3, <3>4, CallPoints DEF OrchTypeOK, EntryPoints, jobVars,
         loopVars, reportVars
    <3> QED
      BY <3>2, <3>5
  <2>7. CASE AnalyzeProgress \/ CopyProgress \/ UploadProgress
    <3>1. rsp' \in [Procs -> Seq(Rsps)]
      BY <1>3, <2>7, ReadType DEF AnalyzeProgress, CopyProgress, UploadProgress
    <3>2. UNCHANGED <<st, req, orchVars>>
      BY <2>7 DEF AnalyzeProgress, CopyProgress, UploadProgress
    <3> QED
      BY SMTT(60), <3>1, <3>2 DEF IpcTypeOK, OrchTypeOK, orchVars, ctlVars,
         jobVars, loopVars, reportVars
  <2>8. CASE AnalyzeDone
    <3>1. /\ rsp' \in [Procs -> Seq(Rsps)] /\ wait' = "none"
          /\ Read("analyzer", "Analyze")
      <4>1. CallOk("analyze")
        BY <2>8 DEF AnalyzeDone
      <4>2. CallOf["analyze"] = <<"analyzer", "Analyze">>
        BY CallValues
      <4>3. Read("analyzer", "Analyze")
        BY SMT, <4>1, <4>2 DEF CallOk
      <4> QED
        BY <4>1, <4>3, CallType, CallPoints
    <3>2. Head(rsp["analyzer"]) \in Rsps
      BY SMT, <1>3, <3>1 DEF IpcTypeOK, Read
    <3>3. Head(rsp["analyzer"]).dirty \subseteq Files
      BY <3>1, <3>2, Payloads DEF Read
    <3>4. /\ dirty' = dirty \cup Head(rsp["analyzer"]).dirty
          /\ files' \subseteq files
          /\ pc' = "analyzed"
          /\ UNCHANGED <<st, req, state, locked, nth, jobVars, loopVars, dirs,
                         errors, hidden>>
      BY <2>8 DEF AnalyzeDone
    <3>5. OrchTypeOK'
      BY <3>1, <3>3, <3>4 DEF OrchTypeOK, EntryPoints, jobVars, loopVars
    <3> QED
      BY <3>1, <3>4, <3>5 DEF IpcTypeOK
  <2>9. CASE AnalyzeFails \/ UploadFails \/ CopyDone \/ CopyRefused \/ CopyBroken
    <3>1. rsp' \in [Procs -> Seq(Rsps)] /\ wait' = "none"
      BY ZenonT(30), <1>3, <2>9, ReadType DEF AnalyzeFails, UploadFails,
         CopyDone, CopyRefused, CopyBroken, ReadFails
    <3>2. /\ pc' = "recv"
          /\ state' \in {"WaitEnd", "TransferDone"}
          /\ UNCHANGED <<st, req, locked, nth, jobVars, loopVars, reportVars>>
      BY <2>9 DEF AnalyzeFails, UploadFails, CopyDone, CopyRefused, CopyBroken,
         RunFails, RunEnds
    <3> QED
      BY <3>1, <3>2 DEF IpcTypeOK, OrchTypeOK, EntryPoints, States, jobVars,
         loopVars, reportVars
  <2>10. CASE Analyzed
    BY SMTT(60), <2>10, CallPoints DEF Analyzed, GiveUp, RunEnds, IpcTypeOK,
       OrchTypeOK, EntryPoints, States, ipcVars, jobVars, loopVars, reportVars
  <2>11. CASE InitFs
    <3>1. rsp' \in [Procs -> Seq(Rsps)] /\ wait' = "none"
      BY <2>11, CallType, CallPoints DEF InitFs
    <3>2. /\ pc' \in {"fs_init", "fs_close", "dir_next"}
          /\ todo' \in {todo, dirs}
          /\ UNCHANGED <<st, req, state, locked, nth, jobVars, cur, off,
                         reportVars>>
      BY <2>11 DEF InitFs
    <3> QED
      BY SMTT(60), <3>1, <3>2, CallPoints DEF IpcTypeOK, OrchTypeOK,
         EntryPoints, Entries, jobVars, reportVars
  <2>12. CASE WriteDir
    <3>1. /\ rsp' \in [Procs -> Seq(Rsps)] /\ wait' = "none"
          /\ pc \in EntryPoints
      BY <2>12, CallType, CallPoints DEF WriteDir, EntryPoints
    <3>2. /\ pc' \in {"dir_new", "dir_next"}
          /\ UNCHANGED <<st, req, state, locked, nth, jobVars, loopVars,
                         reportVars>>
      BY <2>12 DEF WriteDir
    <3> QED
      BY <3>1, <3>2, CallPoints DEF IpcTypeOK, OrchTypeOK, jobVars, loopVars,
         reportVars
  <2>13. CASE ForwardBitVec
    <3>1. rsp' \in [Procs -> Seq(Rsps)] /\ wait' = "none"
      BY <2>13, CallType, CallPoints DEF ForwardBitVec
    <3>2. last' \in BOOLEAN
      <4>1. CASE CallOk("bv_get") /\ last' = Head(rsp["files2fs"]).last
        <5>1. Read("files2fs", "BitVec")
          <6>1. CallOf["bv_get"] = <<"files2fs", "BitVec">>
            BY CallValues
          <6> QED
            BY SMT, <4>1, <6>1 DEF CallOk
        <5>2. Head(rsp["files2fs"]) \in Rsps
          BY SMT, <1>3, <5>1 DEF IpcTypeOK, Read
        <5> QED
          BY <4>1, <5>1, <5>2, Payloads DEF Read
      <4>2. CASE UNCHANGED last
        BY <4>2 DEF OrchTypeOK
      <4> QED
        BY <2>13, <4>1, <4>2 DEF ForwardBitVec
    <3>3. /\ pc' \in {"bv_get", "bv_load", "startcopy"}
          /\ UNCHANGED <<st, req, state, locked, nth, hasId, dest, fstype,
                         filtered, loopVars, reportVars>>
      BY <2>13 DEF ForwardBitVec
    <3> QED
      BY <3>1, <3>2, <3>3, CallPoints DEF IpcTypeOK, OrchTypeOK, EntryPoints,
         loopVars, reportVars
  <2>14. CASE StartCopy
    <3>1. rsp' \in [Procs -> Seq(Rsps)]
      BY <1>3, <2>14, ReadType DEF StartCopy
    <3> QED
      BY <3>1, <2>14 DEF StartCopy, IpcTypeOK, OrchTypeOK, EntryPoints, jobVars,
         loopVars, reportVars
  <2>15. CASE Delivered
    <3>1. rsp' \in [Procs -> Seq(Rsps)] /\ wait' = "none"
      BY <2>15, CallType, CallPoints DEF Delivered
    <3>2. IpcTypeOK'
      <4>1. req' \in {req, WriteUnlock("fs2dev", 0)} /\ UNCHANGED st
        BY <2>15 DEF Delivered
      <4> QED
        BY ZenonT(30), <1>3, <3>1, <4>1, WriteUnlockType DEF IpcTypeOK
    <3>3. OrchTypeOK'
      BY <2>15, <3>1 DEF Delivered, RunEnds, RunFails, States, OrchTypeOK,
         EntryPoints, jobVars, loopVars, reportVars
    <3> QED
      BY <3>2, <3>3
  <2>16. CASE TransferAborts
    <3>1. rsp' \in [Procs -> Seq(Rsps)] /\ wait' = "none"
      BY SMT, <2>16, CallType, CallPoints DEF TransferAborts
    <3> QED
      BY <2>16, <3>1 DEF TransferAborts, RunFails, States, IpcTypeOK,
         OrchTypeOK, EntryPoints, jobVars, loopVars, reportVars
  <2> QED
    BY <2>1, <2>2, <2>3, <2>4, <2>5, <2>6, <2>7, <2>8, <2>9, <2>10, <2>11,
       <2>12, <2>13, <2>14, <2>15, <2>16 DEF CopyFilesNext
<1> QED
  BY <1>2, <1>4

(* The other steps of usbsas.                                              *)
LEMMA UsbsasTypes ==
    ASSUME TypeInv, UsbsasNext
    PROVE  IpcTypeOK' /\ StoreTypeOK' /\ OrchTypeOK' /\ BitVecInv'
<1> USE DEF TypeInv
<1>1. CASE SendRequest
  BY <1>1, SendRequestTypes
<1>2. CASE CopyFilesNext
  BY <1>2, CopyFilesTypes
<1>3. CASE ClientCallOk \/ ClientCallFails
  <2>1. PICK s \in Serves : \/ /\ CallOk(s[3]) /\ state' = s[4]
                               /\ hasId' = (hasId \/ s[2] = "Id")
                            \/ /\ CallFails(s[3]) /\ UNCHANGED hasId
                               /\ state' \in {state, "WaitEnd"}
    BY <1>3 DEF ClientCallOk, ClientCallFails, jobVars
  <2>2. /\ s[3] \in DOMAIN CallOf
        /\ s[4] \in States
    BY SMT, CallPoints DEF Serves, States
  <2>3. rsp' \in [Procs -> Seq(Rsps)] /\ wait' = "none"
    BY <2>1, <2>2, CallType
  <2>4. state' \in States
    <3>1. state \in States /\ "WaitEnd" \in States
      BY DEF OrchTypeOK, States
    <3> QED
      BY <2>1, <2>2, <3>1
  <2>7. hasId' \in BOOLEAN
    BY <2>1 DEF OrchTypeOK
  <2>5. /\ pc' \in {"img_start", "recv"}
        /\ UNCHANGED <<st, req, locked, nth, dest, fstype, filtered, last,
                       loopVars, reportVars, storeVars>>
    BY <1>3 DEF ClientCallOk, ClientCallFails, jobVars
  <2>6. OrchTypeOK'
    BY <2>3, <2>4, <2>5, <2>7, CallPoints DEF OrchTypeOK, EntryPoints, loopVars,
       reportVars
  <2> QED
    BY <2>3, <2>5, <2>6, StoresUnchanged DEF IpcTypeOK
<1>4. CASE WipeStarted \/ WipeZeroed \/ WipeFails
  <2>1. "fs2dev" \in Procs /\ CallOf["wipe"][1] = "fs2dev"
    BY WipeCall
  <2>2. rsp' \in [Procs -> Seq(Rsps)]
    BY ZenonT(30), <1>4, <2>1, ReadType DEF WipeStarted, WipeZeroed, WipeFails,
       CallFails
  <2>3. /\ wait' \in {wait, "none"}
        /\ pc' \in {"wiping", "fs_size", "recv"}
        /\ state' \in {state, "WaitEnd"}
        /\ UNCHANGED <<st, req, locked, nth, jobVars, loopVars, reportVars,
                       storeVars>>
    BY <1>4 DEF WipeStarted, WipeZeroed, WipeFails, CallFails, RunFails
  <2>4. pc' \in DOMAIN CallOf \cup {"recv", "wiping"} /\ pc' \notin EntryPoints
    BY <2>3, CallPoints DEF EntryPoints
  <2>5. OrchTypeOK'
    BY SMT, <2>2, <2>3, <2>4 DEF OrchTypeOK, States, jobVars, loopVars,
       reportVars
  <2> QED
    BY <2>2, <2>3, <2>5, StoresUnchanged DEF IpcTypeOK
<1>5. CASE ImgDisk \/ ImgDiskFails
  <2>1. rsp' \in [Procs -> Seq(Rsps)] /\ wait' = "none"
    BY <1>5, CallType, CallPoints DEF ImgDisk, ImgDiskFails
  <2>2. /\ pc' \in {"img_read", "img_write", "recv"}
        /\ state' \in {state, "WaitEnd"}
        /\ off' \in {off, 0, off + 1}
        /\ UNCHANGED <<st, req, locked, nth, jobVars, todo, cur, reportVars,
                       storeVars>>
    BY <1>5 DEF ImgDisk, ImgDiskFails, RunFails, RunEnds, loopVars
  <2>3. pc' \in DOMAIN CallOf \cup {"recv"} /\ pc' \notin EntryPoints
    BY <2>2, CallPoints DEF EntryPoints
  <2>4. OrchTypeOK'
    BY SMT, <2>1, <2>2, <2>3 DEF OrchTypeOK, States, jobVars, reportVars
  <2> QED
    BY <2>1, <2>2, <2>4, StoresUnchanged DEF IpcTypeOK
<1>6. CASE EndSend
  <2> DEFINE c == EndOrder[nth]
             bytes == IF c \in locked THEN <<Unlock(EndByte(c))>> ELSE <<>>
  <2>1. c \in Children /\ c \in Procs
    BY EndOrderType DEF OrchTypeOK, Procs
  <2>2. Unlock(EndByte(c)) \in Reqs /\ Msg("End") \in Reqs
    BY DEF Unlock, EndByte, Msg, Reqs, ReqTypes
  <2>3. bytes \o <<Msg("End")>> \in Seq(Reqs)
    <3> HIDE DEF Reqs
    <3> QED
      BY SMT, <2>2
  <2>4. req[c] \o bytes \o <<Msg("End")>> \in Seq(Reqs)
    <3>1. req[c] \in Seq(Reqs) /\ bytes \in Seq(Reqs) /\ <<Msg("End")>> \in Seq(Reqs)
      BY SMT, <2>1, <2>2 DEF IpcTypeOK
    <3> HIDE DEF bytes, c
    <3> QED
      BY SMT, <3>1
  <2>5. /\ wait' \in {c, "epipe"}
        /\ req' \in {req, [req EXCEPT ![c] = @ \o bytes \o <<Msg("End")>>]}
        /\ UNCHANGED <<st, rsp, state, pc, locked, nth, jobVars, loopVars,
                       reportVars, storeVars>>
    BY <1>6 DEF EndSend
  <2> HIDE DEF bytes, c
  <2>6. IpcTypeOK'
    BY <2>1, <2>4, <2>5 DEF IpcTypeOK
  <2>7. OrchTypeOK'
    BY SMTT(60), <2>1, <2>5 DEF OrchTypeOK, jobVars, loopVars, reportVars
  <2> QED
    BY <2>5, <2>6, <2>7, StoresUnchanged
<1>7. CASE EndReturn
  <2>1. EndOrder[nth] \in Procs
    BY EndOrderType DEF OrchTypeOK, Procs
  <2>2. rsp' \in [Procs -> Seq(Rsps)]
    BY <1>7, <2>1, ReadType DEF EndReturn
  <2>3. /\ wait' = "none"
        /\ pc' \in {"end", "wait"}
        /\ nth' \in 1 .. Len(EndOrder)
        /\ UNCHANGED <<st, req, state, locked, jobVars, loopVars, reportVars,
                       storeVars>>
    BY SMTT(60), <1>7, EndOrderType DEF EndReturn, OrchTypeOK
  <2>4. OrchTypeOK'
    BY <2>3 DEF OrchTypeOK, EntryPoints, jobVars, loopVars, reportVars
  <2> QED
    BY <2>2, <2>3, <2>4, StoresUnchanged DEF IpcTypeOK
<1>8. CASE WaitChild
  <2>1. /\ pc' \in {"wait", "exit"}
        /\ state' \in {state, "End"}
        /\ nth' \in 1 .. Len(EndOrder)
        /\ UNCHANGED <<ipcVars, wait, locked, jobVars, loopVars, reportVars,
                       storeVars>>
    BY SMTT(60), <1>8, EndOrderType DEF WaitChild, OrchTypeOK
  <2>2. OrchTypeOK'
    BY SMTT(60), <2>1 DEF OrchTypeOK, EntryPoints, States, jobVars, loopVars,
       reportVars
  <2> QED
    BY <2>1, <2>2, StoresUnchanged DEF IpcTypeOK, ipcVars
<1> QED
  BY <1>1, <1>2, <1>3, <1>4, <1>5, <1>6, <1>7, <1>8 DEF UsbsasNext

---------------------------------------------------------------------------
(* A step of the processes in C leaves the others, and what they have to   *)
(* read, alone.                                                            *)
Leaves(C) == \A p \in Procs \ C : st'[p] = st[p] /\ req'[p] = req[p]

(* Answering, or writing unasked, is such a step.                          *)
LEMMA AnswerLeaves ==
    ASSUME IpcTypeOK, NEW c \in Procs, NEW rs, NEW s,
           Answer(c, rs, s) \/ Emit(c, rs, s)
    PROVE  Leaves({c})
  BY DEF IpcTypeOK, Answer, Emit, Leaves

(* So is every way to answer an error.                                     *)
LEMMA ErrorLeaves ==
    ASSUME IpcTypeOK, NEW c \in Procs,
           \/ RunError(c) \/ BadRequestTwice(c) \/ WaitEndOnce(c)
           \/ WaitEndLoop(c)
    PROVE  Leaves({c})
  BY AnswerLeaves DEF RunError, BadRequestTwice, WaitEndOnce, WaitEndLoop

(* Each child's steps leave the other children alone.                      *)
LEMMA Frame ==
    ASSUME IpcTypeOK
    PROVE  /\ Files2TarNext => Leaves({"files2tar"})
           /\ Tar2FilesNext => Leaves({"tar2files"})
           /\ Files2FsNext => Leaves({"files2fs"})
           /\ Fs2DevNext => Leaves({"fs2dev"})
           /\ Scsi2FilesNext => Leaves({"scsi2files", "dev2scsi"})
           /\ Dev2ScsiNext => Leaves({"scsi2files", "dev2scsi"})
           /\ ServicesNext => Leaves(ServiceNames)
<1>1. /\ "files2tar" \in Procs /\ "tar2files" \in Procs /\ "files2fs" \in Procs
      /\ "fs2dev" \in Procs /\ "scsi2files" \in Procs /\ "dev2scsi" \in Procs
      /\ ServiceNames \subseteq Procs
  BY DEF Procs, Children, ServiceNames
<1>2. Files2TarNext => Leaves({"files2tar"})
  BY <1>1, AnswerLeaves, ErrorLeaves DEF Files2TarNext, F2TUnlock, F2TNewFile,
     F2TWriteFile, F2TEndFile, F2TClose, F2TEnd, F2TUnexpected, F2TWaitEnd
<1>3. Tar2FilesNext => Leaves({"tar2files"})
  BY <1>1, AnswerLeaves, ErrorLeaves DEF Tar2FilesNext, T2FUnlock,
     T2FLoadMetadata, T2FGetAttr, T2FReadFile, T2FReadDir, T2FEnd,
     T2FUnexpected, T2FWaitEnd
<1>4. Files2FsNext => Leaves({"files2fs"})
  BY ZenonT(30), <1>1, AnswerLeaves, ErrorLeaves DEF Files2FsNext,
     F2FSetFsInfos, F2FNewFile, F2FWriteFile, F2FEndFile, F2FClose, F2FBitVec,
     F2FImgDisk, F2FWriteData, F2FEnd, F2FUnexpected, F2FWaitEnd
<1>5. Fs2DevNext => Leaves({"fs2dev"})
  BY <1>1, AnswerLeaves, ErrorLeaves DEF Fs2DevNext, F2DUnlock, F2DDevSize,
     F2DLoadBitVec, F2DStartCopy, F2DWipe, F2DWriteGroup, F2DWriteFails,
     F2DStatusDone, F2DEnd, F2DUnexpected, F2DWaitEnd
<1>6. Scsi2FilesNext => Leaves({"scsi2files", "dev2scsi"})
  <2>1. ASSUME NEW x, NEW s, Forward(x, s) \/ Relay(x, s)
        PROVE  Leaves({"scsi2files", "dev2scsi"})
    BY <1>1, <2>1 DEF IpcTypeOK, Forward, Relay, Leaves
  <2>2. Leaves({"scsi2files"}) => Leaves({"scsi2files", "dev2scsi"})
    BY DEF Leaves
  <2> QED
    BY <1>1, <2>1, <2>2, AnswerLeaves, ErrorLeaves DEF Scsi2FilesNext,
       S2FOpenDevice, S2FOpened, S2FPartitions, S2FListed, S2FReadSectors,
       S2FOpenPartition, S2FRead, S2FEnd, S2FEndFails, S2FEnded, S2FBrokenPipe,
       S2FUnexpected, S2FWaitEnd
<1>7. Dev2ScsiNext => Leaves({"scsi2files", "dev2scsi"})
  <2>1. CASE D2SReturnsIntoParent \/ D2SGhostWaitEnd
    BY <1>1, <2>1 DEF IpcTypeOK, D2SReturnsIntoParent, D2SGhostWaitEnd, Leaves
  <2>2. Leaves({"dev2scsi"}) => Leaves({"scsi2files", "dev2scsi"})
    BY DEF Leaves
  <2> QED
    BY <1>1, <2>1, <2>2, AnswerLeaves DEF Dev2ScsiNext, D2SUnlock,
       D2SPartitions, D2SEnd, D2SKilled
<1>8. ServicesNext => Leaves(ServiceNames)
  BY <1>1, AnswerLeaves, ErrorLeaves DEF ServicesNext, AnalyzerAnalyze,
     AnalyzerAgain, UploaderUpload, CmdExecRun, IdentificatorId, UsbDevDevices,
     ServiceEnd, ServiceWaitEnd, ServiceNames, Leaves
<1> QED
  BY <1>2, <1>3, <1>4, <1>5, <1>6, <1>7, <1>8

(* The children, and a child that dies.                                    *)
LEMMA ChildTypes ==
    ASSUME TypeInv, ChildNext
    PROVE  TypeInv'
<1> USE DEF TypeInv, StoreTypeOK
<1>1. UNCHANGED <<orchVars, crashes>>
  BY DEF ChildNext, Files2TarStep, Tar2FilesStep, Files2FsStep, Fs2DevStep,
     Scsi2FilesStep, Dev2ScsiStep, ServicesStep
<1>2. OrchTypeOK' /\ (crashes \in 0 .. MaxCrashes)'
  <2>1. UNCHANGED orchVars /\ UNCHANGED crashes
    BY SMTT(30), <1>1
  <2>2. OrchTypeOK'
    BY <2>1, OrchUnchanged
  <2>3. (crashes \in 0 .. MaxCrashes)'
    BY <2>1
  <2> QED
    BY <2>2, <2>3
<1>3. "files2fs" \in Procs /\ "files2fs" \notin ServiceNames
  BY DEF Procs, Children, ServiceNames
<1>4. st'["files2fs"] = st["files2fs"] /\ UNCHANGED imgVars => BitVecInv'
  BY DEF BitVecInv, imgVars
<1>5. CASE Files2TarStep
  <2>1. IpcTypeOK' /\ TarTypeOK' /\ st'["files2fs"] = st["files2fs"]
    BY <1>3, <1>5, Files2TarTypes, Frame DEF Files2TarStep, Leaves
  <2>2. UNCHANGED <<index, imgVars, devVars>>
    BY <1>5 DEF Files2TarStep
  <2> QED
    BY <1>2, <1>4, <2>1, <2>2 DEF IndexTypeOK, ImgTypeOK, DevTypeOK, imgVars,
       devVars
<1>6. CASE Tar2FilesStep
  <2>1. /\ IpcTypeOK' /\ TarTypeOK' /\ IndexTypeOK'
        /\ st'["files2fs"] = st["files2fs"]
    BY <1>3, <1>6, Tar2FilesTypes, Frame DEF Tar2FilesStep, Leaves
  <2>2. UNCHANGED <<imgVars, devVars>>
    BY <1>6 DEF Tar2FilesStep
  <2> QED
    BY <1>2, <1>4, <2>1, <2>2 DEF ImgTypeOK, DevTypeOK, imgVars, devVars
<1>7. CASE Files2FsStep
  <2>1. IpcTypeOK' /\ ImgTypeOK' /\ BitVecInv'
    BY <1>7, Files2FsTypes DEF Files2FsStep
  <2>2. UNCHANGED <<tarVars, index, devVars>>
    BY <1>7 DEF Files2FsStep
  <2> QED
    BY <1>2, <2>1, <2>2 DEF TarTypeOK, IndexTypeOK, DevTypeOK, tarVars, devVars
<1>8. CASE Fs2DevStep
  <2>1. IpcTypeOK' /\ DevTypeOK' /\ st'["files2fs"] = st["files2fs"]
    BY <1>3, <1>8, Fs2DevTypes, Frame DEF Fs2DevStep, Leaves
  <2>2. UNCHANGED <<tarVars, index, imgVars>>
    BY <1>8 DEF Fs2DevStep
  <2> QED
    BY <1>2, <1>4, <2>1, <2>2 DEF TarTypeOK, IndexTypeOK, ImgTypeOK, tarVars,
       imgVars
<1>9. CASE Scsi2FilesStep \/ Dev2ScsiStep
  <2>1. IpcTypeOK' /\ st'["files2fs"] = st["files2fs"]
    BY <1>3, <1>9, Scsi2FilesTypes, Dev2ScsiTypes, Frame DEF Scsi2FilesStep,
       Dev2ScsiStep, Leaves
  <2>2. UNCHANGED <<tarVars, index, imgVars, devVars>>
    BY <1>9 DEF Scsi2FilesStep, Dev2ScsiStep, storeVars
  <2> QED
    BY <1>2, <1>4, <2>1, <2>2 DEF TarTypeOK, IndexTypeOK, ImgTypeOK, DevTypeOK,
       tarVars, imgVars, devVars
<1>10. CASE ServicesStep
  <2>1. IpcTypeOK' /\ TarTypeOK' /\ st'["files2fs"] = st["files2fs"]
    BY <1>3, <1>10, ServicesTypes, Frame DEF ServicesStep, Leaves
  <2>2. UNCHANGED <<index, imgVars, devVars>>
    BY <1>10 DEF ServicesStep
  <2> QED
    BY <1>2, <1>4, <2>1, <2>2 DEF IndexTypeOK, ImgTypeOK, DevTypeOK, imgVars,
       devVars
<1> QED
  BY ZenonT(30), <1>5, <1>6, <1>7, <1>8, <1>9, <1>10 DEF ChildNext

(* A death changes the state of one process to "End".                      *)
LEMMA CrashTypes ==
    ASSUME TypeInv, Crash
    PROVE  TypeInv'
<1> USE DEF TypeInv
<1>1. PICK c \in Procs : Die(c)
  BY CrashableAreProcs DEF Crash
<1>2. IpcTypeOK'
  BY <1>1 DEF IpcTypeOK, Die, ProcStates, F2TStates
<1>3. OrchTypeOK' /\ StoreTypeOK'
  <2>1. UNCHANGED <<orchVars, storeVars>>
    BY DEF Crash
  <2>2. OrchTypeOK'
    BY <2>1, OrchUnchanged
  <2>3. TarTypeOK' /\ IndexTypeOK'
    BY <2>1 DEF StoreTypeOK, storeVars, TarTypeOK, IndexTypeOK, tarVars
  <2>4. ImgTypeOK' /\ DevTypeOK'
    BY <2>1 DEF StoreTypeOK, storeVars, ImgTypeOK, DevTypeOK, imgVars, devVars
  <2> QED
    BY <2>2, <2>3, <2>4 DEF StoreTypeOK
<1>4. BitVecInv'
  BY SMT, <1>1 DEF Crash, BitVecInv, IpcTypeOK, Die, storeVars, imgVars
<1>5. (crashes \in 0 .. MaxCrashes)'
  BY SMT, MaxCrashesInNat DEF Crash
<1> QED
  BY <1>2, <1>3, <1>4, <1>5

(* Usbsas::new() leaves well-typed variables.                              *)
LEMMA InitTypes == Init => TypeInv
<1> SUFFICES ASSUME Init PROVE TypeInv
  OBVIOUS
<1>1. StoreTypeOK
  <2>1. TarInit /\ IndexInit /\ ImgInit /\ DevInit
    BY DEF Init
  <2>2. tarClosed \in BOOLEAN /\ imgClosed \in BOOLEAN
    BY <2>1 DEF TarInit, ImgInit
  <2>3. tar \in [Entries -> Int] /\ img \in [Entries -> Int]
    BY SMT, <2>1 DEF TarInit, ImgInit
  <2>4. /\ tarCur \in Entries \cup {NoEntry} /\ imgCur \in Entries \cup {NoEntry}
        /\ bvLeft \in 0 .. BvChunks
    BY SMT, <2>1, BvChunksPositive DEF TarInit, ImgInit
  <2>5. IndexTypeOK /\ DevTypeOK
    BY SMT, <2>1, GroupsPositive DEF IndexInit, DevInit, IndexTypeOK, DevTypeOK,
       DevContents
  <2> QED
    BY <2>2, <2>3, <2>4, <2>5 DEF StoreTypeOK, TarTypeOK, ImgTypeOK
<1>2. OrchTypeOK /\ crashes \in 0 .. MaxCrashes
  <2>1. /\ state = "Init" /\ pc = "recv" /\ wait = "none"
        /\ locked = WaitOnStartup
        /\ nth = 1
        /\ hasId = FALSE /\ dest = "Usb" /\ fstype = "Fat" /\ last = FALSE
        /\ todo = {} /\ cur = NoEntry /\ off = 0
        /\ files = {} /\ dirs = {} /\ filtered = {} /\ errors = {} /\ dirty = {}
        /\ hidden = {}
        /\ crashes = 0
    BY DEF Init
  <2>2. hasId \in BOOLEAN /\ last \in BOOLEAN
    BY <2>1
  <2>3. state \in States /\ pc \notin EntryPoints
    BY <2>1 DEF States, EntryPoints
  <2>4. nth = 1 /\ Len(EndOrder) \in {10, 11}
    BY <2>1, EndOrderType
  <2>5. nth \in 1 .. Len(EndOrder)
    BY SMT, <2>4
  <2> QED
    BY SMT, <2>1, <2>2, <2>3, <2>5, MaxCrashesInNat DEF OrchTypeOK
<1>3. PICK start \in [ServiceNames -> UNION {ServiceStart(c) : c \in ServiceNames}] :
          /\ \A c \in ServiceNames : start[c] \in ServiceStart(c)
          /\ st = [c \in Procs |->
                     CASE c \in WaitOnStartup \cup {"dev2scsi"} -> "Locked"
                       [] c = "files2fs" -> "WaitFsInfos"
                       [] c = "scsi2files" -> "ChildStarted"
                       [] c = "analyzer" -> IF Analyze THEN start[c].st
                                                       ELSE "End"
                       [] OTHER -> start[c].st]
          /\ rsp = [c \in Procs |->
                      IF c \in ServiceNames THEN start[c].rsp ELSE <<>>]
  BY DEF Init
<1>4. \A c \in ServiceNames : /\ start[c].st \in {"Running", "WaitEnd"}
                              /\ start[c].rsp \in {<<>>, <<Error>>}
  BY SMT, <1>3 DEF ServiceStart
<1>5. st \in [Procs -> ProcStates]
  <2> SUFFICES ASSUME NEW c \in Procs
               PROVE  st[c] \in ProcStates
    BY <1>3
  <2>1. {"Locked", "WaitFsInfos", "ChildStarted", "Running", "WaitEnd", "End"}
            \subseteq ProcStates
    BY DEF ProcStates, D2SStates, F2FStates, S2FStates, ServiceStates
  <2>2. \/ c \in WaitOnStartup \cup {"dev2scsi", "files2fs", "scsi2files"}
        \/ c \in ServiceNames
    BY DEF Procs, Children, WaitOnStartup, ServiceNames
  <2>3. st[c] \in {"Locked", "WaitFsInfos", "ChildStarted", "Running",
                   "WaitEnd", "End"}
    <3>1. CASE c \in WaitOnStartup \cup {"dev2scsi"}
      <4>1. c \notin {"files2fs", "scsi2files", "analyzer"}
        BY <3>1 DEF WaitOnStartup
      <4> QED
        BY <1>3, <3>1, <4>1
    <3>2. CASE c = "files2fs"
      BY <1>3, <3>2 DEF WaitOnStartup
    <3>3. CASE c = "scsi2files"
      BY <1>3, <3>3 DEF WaitOnStartup
    <3>4. CASE c \in ServiceNames
      <4>1. c \notin WaitOnStartup \cup {"dev2scsi", "files2fs", "scsi2files"}
        BY <3>4 DEF ServiceNames, WaitOnStartup
      <4>2. st[c] \in {start[c].st, "End"}
        BY <1>3, <4>1
      <4> QED
        BY <1>4, <3>4, <4>2
    <3> QED
      BY <2>2, <3>1, <3>2, <3>3, <3>4
  <2> QED
    BY <2>1, <2>3
<1>6. rsp \in [Procs -> Seq(Rsps)]
  BY <1>3, <1>4, SmallAnswers
<1>7. req \in [Procs -> Seq(Reqs)]
  BY SMT DEF Init
<1>8. BitVecInv
  <2>1. st["files2fs"] = "WaitFsInfos"
    BY <1>3 DEF Procs, Children, WaitOnStartup
  <2> QED
    BY <2>1 DEF BitVecInv, Init, ImgInit
<1> QED
  BY <1>5, <1>6, <1>7, <1>1, <1>8, <1>2 DEF TypeInv, IpcTypeOK

(* No step of any process breaks the types.                                *)
LEMMA NextTypes == TypeInv /\ [Next]_vars => TypeInv'
<1> SUFFICES ASSUME TypeInv, [Next]_vars PROVE TypeInv'
  OBVIOUS
<1>1. CASE ClientStep \/ UsbsasStep
  <2>1. IpcTypeOK' /\ StoreTypeOK' /\ OrchTypeOK' /\ BitVecInv'
    BY <1>1, ClientTypes, UsbsasTypes DEF ClientStep, UsbsasStep
  <2>2. UNCHANGED crashes
    BY <1>1 DEF ClientStep, UsbsasStep
  <2> QED
    BY <2>1, <2>2 DEF TypeInv
<1>2. CASE ChildNext
  BY <1>2, ChildTypes
<1>3. CASE Crash
  BY <1>3, CrashTypes
<1>4. CASE UNCHANGED vars
  <2>1. UNCHANGED <<st, storeVars>>
    BY <1>4 DEF vars, ipcVars
  <2>2. IpcTypeOK' /\ OrchTypeOK' /\ (crashes \in 0 .. MaxCrashes)'
    <3>1. UNCHANGED <<ipcVars, orchVars, crashes>>
      BY <1>4 DEF vars
    <3>2. IpcTypeOK'
      BY <3>1 DEF TypeInv, IpcTypeOK, ipcVars
    <3>3. OrchTypeOK'
      BY <3>1, OrchUnchanged DEF TypeInv
    <3> QED
      BY <3>1, <3>2, <3>3 DEF TypeInv
  <2> QED
    BY <2>1, <2>2, StoresUnchanged DEF TypeInv
<1> QED
  BY <1>1, <1>2, <1>3, <1>4 DEF Next, Exited

(* Every variable of a session keeps its type, whatever the files, the     *)
(* requests of the client, the faults and the deaths.                      *)
THEOREM SessionTypes == Spec => []TypeOK
<1>1. Spec => []TypeInv
  BY InitTypes, NextTypes, PTL DEF Spec
<1> QED
  BY <1>1, TypeInvTypeOK, PTL

(* A working child takes a request and answers it.                         *)
LEMMA PlainAnswer ==
    ASSUME NEW Q, NEW R, NEW s, NEW q \in Seq(Q), NEW r \in Seq(R), NEW w \in BOOLEAN,
           NEW rs \in Seq(R), NEW s2, q # <<>>, s \notin Parked,
           PlainOK(s, q, r, w), s2 \notin Parked \cup Inside, Len(rs) = 1
    PROVE  PlainOK(s2, Tail(q), r \o rs, w)
<1>1. w /\ Len(q) = 1 /\ r = <<>>
  BY DEF PlainOK, Quiet
<1>2. Tail(q) = <<>> /\ r \o rs = rs
  BY SMT, <1>1, TailOfOne
<1> QED
  BY <1>1, <1>2 DEF PlainOK, Starting, Quiet, Parked

(* It takes the unlock bytes.                                              *)
LEMMA PlainUnlock ==
    ASSUME NEW Q, NEW q \in Seq(Q), NEW r, NEW w \in BOOLEAN, NEW s2, q # <<>>,
           PlainOK("Locked", q, r, w), s2 \notin Inside \cup {"Locked"}
    PROVE  PlainOK(s2, Tail(q), r, w)
<1>1. r = <<>> /\ Len(q) = IF w THEN 2 ELSE 1
  BY EmptyIsZero DEF PlainOK, Starting
<1>2. Len(Tail(q)) = (IF w THEN 1 ELSE 0) /\ (~w => Tail(q) = <<>>)
  BY SMT, <1>1, TailOfOne
<1> QED
  BY <1>1, <1>2 DEF PlainOK, Starting, Quiet, Parked

(* It waits for a child of its own in the middle of a request, and goes on *)
(* when that has answered.                                                 *)
LEMMA PlainForward ==
    ASSUME NEW Q, NEW s, NEW q \in Seq(Q), NEW r, NEW w \in BOOLEAN, NEW s2,
           q # <<>>, s \notin Parked, PlainOK(s, q, r, w),
           s2 \in {"Opening", "Listing", "Ending"}
    PROVE  PlainOK(s2, Tail(q), r, w)
<1>1. w /\ Len(q) = 1 /\ r = <<>>
  BY DEF PlainOK, Quiet
<1>2. Tail(q) = <<>>
  BY <1>1, TailOfOne
<1> QED
  BY <1>1, <1>2 DEF PlainOK, Starting, Quiet, Inside, Parked

(* An answer of dev2scsi that scsi2files passes on.                        *)
LEMMA PlainRelay ==
    ASSUME NEW R, NEW s, NEW q, NEW r \in Seq(R), NEW w \in BOOLEAN, NEW m \in R, NEW s2,
           s \in Inside, PlainOK(s, q, r, w), s2 \notin Parked \cup Inside
    PROVE  PlainOK(s2, q, Append(r, m), w)
<1>1. w /\ q = <<>> /\ r = <<>>
  BY DEF PlainOK
<1>2. Len(Append(r, m)) = 1
  BY SMT, <1>1, AppendToShort
<1> QED
  BY <1>1, <1>2 DEF PlainOK, Starting, Quiet, Parked

(* The flag of a child that no step touches.                               *)
LEMMA UntouchedFlag ==
    ASSUME NEW d, FlagOK(d), Untouched(d), pc' = pc, wait' = wait, locked' = locked,
           nth' = nth
    PROVE  FlagOK(d)'
<1>1. NotEnded(d)' = NotEnded(d)
  BY DEF NotEnded
<1> QED
  BY SMT, <1>1 DEF FlagOK, Untouched

(* A step of one child keeps the invariant if it does for that child.      *)
LEMMA OneChildOK ==
    ASSUME PipeInv, UNCHANGED orchVars, NEW c \in Procs,
           \A d \in Procs \ {c} : Untouched(d),
           c \in Children => ChildOK(c)',
           c \in WaitOnStartup => FlagOK(c)',
           GhostOK'
    PROVE  PipeInv'
<1>1. state' = state /\ pc' = pc /\ wait' = wait /\ locked' = locked /\ nth' = nth
      /\ dest' = dest
  BY DEF orchVars, ctlVars, jobVars
<1>2. Children \subseteq Procs /\ WaitOnStartup \subseteq Procs
  BY DEF Procs, Children, WaitOnStartup
<1>3. \A d \in Children : ChildOK(d)'
  BY <1>1, <1>2, UntouchedOK DEF PipeInv
<1>4. \A d \in WaitOnStartup : FlagOK(d)'
  <2> SUFFICES ASSUME NEW d \in WaitOnStartup, d # c
               PROVE  FlagOK(d)'
    OBVIOUS
  <2> QED
    BY <1>1, <1>2, UntouchedFlag DEF PipeInv
<1>5. LocksOK(state, pc, dest, locked)' /\ WaitOK'
  BY <1>1 DEF PipeInv, LocksOK, WaitOK
<1> QED
  BY <1>3, <1>4, <1>5 DEF PipeInv

(* The flag of a child that takes a request, or its unlock bytes.          *)
LEMMA FlagAnswer ==
    ASSUME TypeInv, PipeInv, UNCHANGED orchVars, NEW c \in WaitOnStartup, NEW rs,
           NEW s2, Answer(c, rs, s2), req[c] # <<>>, st[c] # "End", s2 # "Locked"
    PROVE  FlagOK(c)'
<1>1. pc' = pc /\ wait' = wait /\ locked' = locked /\ nth' = nth
  BY DEF orchVars, ctlVars
<1>2. c \in Procs /\ IpcTypeOK /\ FlagOK(c)
  BY DEF Procs, Children, WaitOnStartup, TypeInv, PipeInv
<1>3. st'[c] = s2 /\ req'[c] = Tail(req[c]) /\ req[c] \in Seq(Reqs)
  BY <1>2, Touches DEF IpcTypeOK
<1>4. ~(c \in locked /\ NotEnded(c))'
  BY <1>1, <1>2 DEF FlagOK, NotEnded
<1>5. \A i \in DOMAIN Tail(req[c]) : Tail(req[c])[i].type # "Unlock"
  <2> SUFFICES ASSUME NEW i \in DOMAIN Tail(req[c])
               PROVE  Tail(req[c])[i].type # "Unlock"
    OBVIOUS
  <2>1. /\ i \in Nat /\ i >= 1 /\ i + 1 \in DOMAIN req[c]
        /\ Tail(req[c])[i] = req[c][i + 1]
    BY SMT, <1>3, TailFacts
  <2>2. i + 1 # 1
    BY SMT, <2>1
  <2> QED
    BY <1>2, <2>1, <2>2 DEF FlagOK
<1> QED
  BY <1>3, <1>4, <1>5 DEF FlagOK

(* The flag of a child that writes without reading.                        *)
LEMMA FlagEmit ==
    ASSUME PipeInv, IpcTypeOK, UNCHANGED orchVars, NEW c \in WaitOnStartup, NEW rs,
           NEW s2, Emit(c, rs, s2), st[c] \notin {"Locked", "End"}, s2 # "Locked"
    PROVE  FlagOK(c)'
<1>1. pc' = pc /\ wait' = wait /\ locked' = locked /\ nth' = nth
  BY DEF orchVars, ctlVars
<1>2. c \in Procs /\ FlagOK(c)
  BY DEF Procs, Children, WaitOnStartup, PipeInv
<1>3. st'[c] = s2 /\ req'[c] = req[c]
  BY <1>2, Touches
<1> QED
  BY <1>1, <1>2, <1>3 DEF FlagOK, NotEnded

(* A child that gives up, or exits, may do so with anything in its pipes.  *)
LEMMA ParkStep ==
    ASSUME TypeInv, PipeInv, UNCHANGED orchVars, NEW c \in Children, NEW rs,
           NEW s2 \in {"WaitEnd", "End"},
           \/ Answer(c, rs, s2) /\ req[c] # <<>> /\ st[c] # "End"
           \/ (Emit(c, rs, s2) /\ st[c] \notin {"Locked", "End"})
    PROVE  PipeInv'
<1>1. IpcTypeOK /\ c \in Procs /\ c # "dev2scsi" /\ "scsi2files" \in Procs
      /\ "dev2scsi" \in Procs
  BY DEF TypeInv, Procs, Children
<1>2. st'[c] = s2 /\ \A d \in Procs \ {c} : Untouched(d)
  BY <1>1, Touches
<1>3. ChildOK(c)'
  BY <1>2, ParkedOK DEF ChildOK, PipesOK, Plain
<1>4. c \in WaitOnStartup => FlagOK(c)'
  BY <1>1, FlagAnswer, FlagEmit
<1>5. GhostOK'
  BY <1>1, <1>2 DEF PipeInv, GhostOK, MassStorageDropped, Untouched
<1> QED
  BY <1>1, <1>2, <1>3, <1>4, <1>5, OneChildOK

(* A child fails, refuses a request or ends.                               *)
LEMMA EndStep ==
    ASSUME TypeInv, PipeInv, UNCHANGED orchVars, NEW c \in Children,
           \/ RunError(c) /\ req[c] # <<>> /\ st[c] # "End"
           \/ BadRequestTwice(c) /\ req[c] # <<>> /\ st[c] # "End"
           \/ WaitEndOnce(c) \/ WaitEndLoop(c)
    PROVE  PipeInv'
  BY ParkStep DEF RunError, BadRequestTwice, WaitEndOnce, WaitEndLoop, Receives,
     ReceivesOther

(* A child that answers each request once takes one, or is unlocked.       *)
LEMMA PlainStep ==
    ASSUME TypeInv, PipeInv, UNCHANGED orchVars, NEW c \in Plain,
           NEW rs \in Seq(Rsps), NEW s2, Answer(c, rs, s2), req[c] # <<>>,
           \/ st[c] \notin Parked /\ s2 \notin Parked \cup Inside /\ Len(rs) = 1
           \/ (st[c] = "Locked" /\ s2 \notin Inside \cup {"Locked"} /\ rs = <<>>)
    PROVE  PipeInv'
<1>1. /\ IpcTypeOK /\ c \in Procs /\ c # "dev2scsi" /\ c \in Children
      /\ c \notin {"fs2dev", "analyzer", "uploader"}
      /\ "scsi2files" \in Procs /\ "dev2scsi" \in Procs
  BY DEF TypeInv, Procs, Plain, Children
<1>2. /\ req[c] \in Seq(Reqs) /\ rsp[c] \in Seq(Rsps) /\ (wait = c) \in BOOLEAN
      /\ wait' = wait /\ st[c] # "End" /\ s2 # "Locked"
  BY <1>1 DEF IpcTypeOK, orchVars, ctlVars, Parked
<1>3. /\ st'[c] = s2 /\ req'[c] = Tail(req[c]) /\ rsp'[c] = rsp[c] \o rs
      /\ \A d \in Procs \ {c} : Untouched(d)
  BY <1>1, Touches
<1>4. PlainOK(st[c], req[c], rsp[c], wait = c)
  BY <1>1 DEF PipeInv, ChildOK, PipesOK, Plain
<1>5. PlainOK(s2, Tail(req[c]), rsp[c] \o rs, wait = c)
  <2>1. rs = <<>> => rsp[c] \o rs = rsp[c]
    BY SMT, <1>2
  <2> QED
    BY <1>2, <1>4, <2>1, PlainAnswer, PlainUnlock
<1>6. ChildOK(c)'
  BY <1>1, <1>2, <1>3, <1>5 DEF ChildOK, PipesOK, Plain
<1>7. c \in WaitOnStartup => FlagOK(c)'
  BY <1>1, <1>2, FlagAnswer
<1>8. GhostOK'
  <2>1. CASE c = "scsi2files"
    <3>1. st["scsi2files"] # "Locked" => ~MassStorageDropped
      BY <1>2, <2>1 DEF MassStorageDropped, Parked
    <3>2. st["scsi2files"] = "Locked" => ~MassStorageDropped
      BY DEF MassStorageDropped
    <3>3. st'["dev2scsi"] # "Ghost"
      BY <1>1, <1>3, <3>1, <3>2 DEF PipeInv, GhostOK, Untouched
    <3> QED
      BY <3>3 DEF GhostOK
  <2>2. CASE c # "scsi2files"
    BY <1>1, <1>3, <2>2 DEF PipeInv, GhostOK, MassStorageDropped, Untouched
  <2> QED
    BY <2>1, <2>2
<1> QED
  BY <1>1, <1>3, <1>6, <1>7, <1>8, OneChildOK

(* A child answers a request once.                                         *)
LEMMA ReplyStep ==
    ASSUME TypeInv, PipeInv, UNCHANGED orchVars, NEW c \in Plain, NEW m \in Rsps,
           NEW s2 \in AtWork, Answer(c, <<m>>, s2), req[c] # <<>>, st[c] \in AtWork
    PROVE  PipeInv'
<1>1. st[c] \notin Parked /\ s2 \notin Parked \cup Inside
  BY DEF AtWork, Parked, Inside
<1>2. <<m>> \in Seq(Rsps) /\ Len(<<m>>) = 1
  BY SMT
<1> QED
  BY <1>1, <1>2, PlainStep

(* A child reads its unlock byte.                                          *)
LEMMA UnlockStep ==
    ASSUME TypeInv, PipeInv, UNCHANGED orchVars, NEW c \in Plain,
           NEW s2 \in AtWork \cup {"LoadMetadata"}, Answer(c, <<>>, s2),
           req[c] # <<>>, st[c] = "Locked"
    PROVE  PipeInv'
<1>1. s2 \notin Inside \cup {"Locked"}
  BY DEF AtWork, Inside
<1>2. <<>> \in Seq(Rsps)
  BY SMT
<1> QED
  BY <1>1, <1>2, PlainStep

(* The steps of files2tar.                                                 *)
LEMMA Files2TarPipes ==
    ASSUME TypeInv, PipeInv, UNCHANGED orchVars, Files2TarNext
    PROVE  PipeInv'
<1> DEFINE c == "files2tar"
<1>1. c \in Plain /\ c \in Children
  BY Names
<1>2. CASE F2TUnlock
  BY <1>1, <1>2, UnlockStep, ParkStep, EndStep DEF F2TUnlock, Receives, AtWork
<1>3. CASE F2TNewFile \/ F2TWriteFile \/ F2TEndFile
  <2>1. {"NewFile", "WriteFile", "EndFile"} \subseteq RspTypes
    BY DEF RspTypes, ReqTypes
  <2> QED
    BY ZenonT(30), <1>1, <1>3, <2>1, Names, ReplyStep, EndStep DEF F2TNewFile,
       F2TWriteFile, F2TEndFile, Receives, AtWork
<1>4. CASE F2TClose \/ F2TEnd \/ F2TUnexpected \/ F2TWaitEnd
  BY ZenonT(30), <1>1, <1>4, ParkStep, EndStep DEF F2TClose, F2TEnd,
     F2TUnexpected, F2TWaitEnd, Receives, ReceivesOther
<1> QED
  BY <1>2, <1>3, <1>4 DEF Files2TarNext

(* The steps of tar2files.                                                 *)
LEMMA Tar2FilesPipes ==
    ASSUME TypeInv, PipeInv, UNCHANGED orchVars, Tar2FilesNext
    PROVE  PipeInv'
<1> DEFINE c == "tar2files"
<1>1. c \in Plain /\ c \in Children /\ c \in Procs /\ c \in WaitOnStartup
  BY Names DEF WaitOnStartup
<1>2. CASE T2FUnlock
  BY <1>1, <1>2, UnlockStep, ParkStep, EndStep DEF T2FUnlock, Receives
<1>3. CASE T2FLoadMetadata
  <2>1. CASE Emit(c, <<Error>>, "WaitEnd")
    BY <1>1, <1>3, <2>1, ParkStep DEF T2FLoadMetadata
  <2>2. CASE Emit(c, <<>>, "MainLoop")
    <3>1. /\ st'[c] = "MainLoop" /\ req'[c] = req[c] /\ rsp'[c] = rsp[c] \o <<>>
          /\ \A d \in Procs \ {c} : Untouched(d)
      BY <1>1, <2>2, Touches DEF TypeInv
    <3>2. rsp'[c] = rsp[c] /\ wait' = wait /\ req[c] \in Seq(Reqs)
      BY SMT, <1>1, <3>1 DEF TypeInv, IpcTypeOK, orchVars, ctlVars
    <3>3. PlainOK("LoadMetadata", req[c], rsp[c], wait = c)
      BY <1>1, <1>3 DEF PipeInv, ChildOK, PipesOK, Plain, T2FLoadMetadata
    <3>4. PlainOK("MainLoop", req[c], rsp[c], wait = c)
      BY <3>2, <3>3, EmptyIsZero DEF PlainOK, Starting, Quiet, Parked, Inside
    <3>5. ChildOK(c)'
      BY <3>1, <3>2, <3>4 DEF ChildOK, PipesOK, Plain
    <3>6. FlagOK(c)'
      BY <1>1, <1>3, <2>2, FlagEmit DEF TypeInv, T2FLoadMetadata
    <3>7. GhostOK'
      BY <3>1 DEF PipeInv, GhostOK, MassStorageDropped, Untouched, Procs,
         Children
    <3> QED
      BY <1>1, <3>1, <3>5, <3>6, <3>7, OneChildOK
  <2> QED
    BY <1>3, <2>1, <2>2 DEF T2FLoadMetadata
<1>4. CASE T2FGetAttr \/ T2FReadFile \/ T2FReadDir \/ T2FUnexpected
  <2>1. {"GetAttr", "ReadFile", "ReadDir"} \subseteq RspTypes
    BY DEF RspTypes, ReqTypes
  <2> QED
    BY ZenonT(30), <1>1, <1>4, <2>1, Names, ReplyStep DEF T2FGetAttr,
       T2FReadFile, T2FReadDir, T2FUnexpected, Receives, ReceivesOther, AtWork
<1>5. CASE T2FEnd \/ T2FWaitEnd
  BY <1>1, <1>5, ParkStep, EndStep DEF T2FEnd, T2FWaitEnd, Receives
<1> QED
  BY <1>2, <1>3, <1>4, <1>5 DEF Tar2FilesNext

(* The steps of files2fs.                                                  *)
LEMMA Files2FsPipes ==
    ASSUME TypeInv, PipeInv, UNCHANGED orchVars, Files2FsNext
    PROVE  PipeInv'
<1> DEFINE c == "files2fs"
<1>1. c \in Plain /\ c \in Children
  BY Names
<1>2. {"SetFsInfos", "NewFile", "WriteFile", "EndFile", "Close", "ImgDisk",
       "WriteData"} \subseteq RspTypes
  BY DEF RspTypes, ReqTypes
<1>3. CASE F2FSetFsInfos \/ F2FNewFile
  BY ZenonT(30), <1>1, <1>2, <1>3, Names, ReplyStep, EndStep DEF F2FSetFsInfos,
     F2FNewFile, Receives, AtWork
<1>4. CASE F2FWriteFile \/ F2FEndFile
  BY ZenonT(30), <1>1, <1>2, <1>4, Names, ReplyStep DEF F2FWriteFile,
     F2FEndFile, Receives, AtWork
<1>5. CASE F2FClose \/ F2FImgDisk \/ F2FWriteData
  BY ZenonT(30), <1>1, <1>2, <1>5, Names, ReplyStep, EndStep DEF F2FClose,
     F2FImgDisk, F2FWriteData, Receives, AtWork
<1>6. CASE F2FBitVec
  <2> DEFINE m == [type |-> "BitVec", last |-> bvLeft' = 0]
  <2>1. m \in Rsps
    BY DEF Rsps
  <2> HIDE DEF m
  <2>2. /\ Answer(c, <<m>>, IF bvLeft' = 0 THEN "WaitEnd" ELSE "ForwardBitVec")
        /\ req[c] # <<>> /\ st[c] = "ForwardBitVec"
    BY <1>6 DEF F2FBitVec, Receives, m
  <2>3. CASE bvLeft' = 0
    BY <1>1, <2>2, <2>3, ParkStep
  <2>4. CASE bvLeft' # 0
    BY <1>1, <2>1, <2>2, <2>4, ReplyStep DEF AtWork
  <2> QED
    BY <2>3, <2>4
<1>7. CASE F2FEnd \/ F2FUnexpected \/ F2FWaitEnd
  BY ZenonT(30), <1>1, <1>7, ParkStep, EndStep DEF F2FEnd, F2FUnexpected,
     F2FWaitEnd, Receives, ReceivesOther
<1> QED
  BY <1>3, <1>4, <1>5, <1>6, <1>7 DEF Files2FsNext

(* A step of the two processes that read the source device.                *)
LEMMA SourceStep ==
    ASSUME PipeInv, UNCHANGED orchVars,
           \A d \in Procs \ {"scsi2files", "dev2scsi"} : Untouched(d),
           ChildOK("scsi2files")', GhostOK'
    PROVE  PipeInv'
<1>1. /\ state' = state /\ pc' = pc /\ wait' = wait /\ locked' = locked
      /\ nth' = nth /\ dest' = dest
  BY DEF orchVars, ctlVars, jobVars
<1>2. \A d \in Children : ChildOK(d)'
  BY <1>1, UntouchedOK DEF PipeInv, Children, Procs
<1>3. \A d \in WaitOnStartup : FlagOK(d)'
  <2>1. WaitOnStartup \subseteq Procs \ {"scsi2files", "dev2scsi"}
    BY DEF WaitOnStartup, Procs, Children
  <2> QED
    BY <1>1, <2>1, UntouchedFlag DEF PipeInv
<1>4. LocksOK(state, pc, dest, locked)' /\ WaitOK'
  BY <1>1 DEF PipeInv, LocksOK, WaitOK
<1> QED
  BY <1>2, <1>3, <1>4 DEF PipeInv

(* scsi2files also waits for dev2scsi in the middle of a request.          *)
LEMMA Scsi2FilesPipes ==
    ASSUME TypeInv, PipeInv, UNCHANGED orchVars, Scsi2FilesNext
    PROVE  PipeInv'
<1> DEFINE c == "scsi2files"
<1>1. /\ c \in Plain /\ c \in Children /\ c \in Procs /\ "dev2scsi" \in Procs
      /\ c \notin WaitOnStartup
  BY Names DEF Procs, WaitOnStartup
<1>2. {"OpenDevice", "Partitions", "ReadSectors", "OpenPartition", "GetAttr", "ReadDir",
       "ReadFile"} \subseteq RspTypes
  BY DEF RspTypes, ReqTypes
<1>3. /\ IpcTypeOK /\ wait' = wait /\ pc' = pc /\ (wait = c) \in BOOLEAN
      /\ req[c] \in Seq(Reqs) /\ rsp[c] \in Seq(Rsps)
      /\ PlainOK(st[c], req[c], rsp[c], wait = c)
  BY <1>1 DEF TypeInv, IpcTypeOK, orchVars, ctlVars, PipeInv, ChildOK, PipesOK,
     Plain

(* Only scsi2files and the pipes of dev2scsi change.                       *)
<1>4. ASSUME \A d \in Procs \ {c, "dev2scsi"} : Untouched(d),
             st'["dev2scsi"] = st["dev2scsi"], ChildOK(c)',
             MassStorageDropped => MassStorageDropped'
      PROVE  PipeInv'
  BY <1>4, SourceStep DEF PipeInv, GhostOK
<1>5. ASSUME NEW ms, NEW s2 \in {"Opening", "Listing", "Ending"}, Forward(ms, s2),
             st[c] \in AtWork, req[c] # <<>>
      PROVE  PipeInv'
  <2>1. /\ st'[c] = s2 /\ req'[c] = Tail(req[c]) /\ rsp'[c] = rsp[c]
        /\ st'["dev2scsi"] = st["dev2scsi"]
        /\ \A d \in Procs \ {c, "dev2scsi"} : Untouched(d)
    BY <1>1, <1>3, <1>5 DEF Forward, IpcTypeOK, Untouched
  <2>2. PlainOK(s2, Tail(req[c]), rsp[c], wait = c)
    <3>1. st[c] \notin Parked
      BY <1>5 DEF AtWork, Parked
    <3> QED
      BY <1>3, <1>5, <3>1, PlainForward
  <2>3. ChildOK(c)'
    BY <1>3, <2>1, <2>2 DEF ChildOK, PipesOK, Plain
  <2>4. ~MassStorageDropped
    BY <1>5 DEF AtWork, MassStorageDropped
  <2> QED
    BY <1>4, <2>1, <2>3, <2>4
<1>6. ASSUME NEW r \in Rsps, NEW s2 \in AtWork \cup {"WaitEnd", "End"}, Relay(r, s2),
             st[c] \in {"Opening", "Listing", "Ending"}
      PROVE  PipeInv'
  <2>1. /\ st'[c] = s2 /\ req'[c] = req[c] /\ rsp'[c] = Append(rsp[c], r)
        /\ st'["dev2scsi"] = st["dev2scsi"]
        /\ \A d \in Procs \ {c, "dev2scsi"} : Untouched(d)
    BY <1>1, <1>3, <1>6 DEF Relay, IpcTypeOK, Untouched
  <2>2. PlainOK(s2, req[c], Append(rsp[c], r), wait = c)
    <3>1. st[c] \in Inside
      BY <1>6 DEF Inside
    <3>2. s2 \in AtWork => s2 \notin Parked \cup Inside
      BY DEF AtWork, Parked, Inside
    <3> QED
      BY <1>3, <3>1, <3>2, PlainRelay, ParkedOK
  <2>3. ChildOK(c)'
    BY <1>3, <2>1, <2>2 DEF ChildOK, PipesOK, Plain
  <2>4. ~MassStorageDropped
    BY <1>6 DEF MassStorageDropped
  <2> QED
    BY <1>4, <2>1, <2>3, <2>4
<1>7. CASE S2FOpenDevice \/ S2FPartitions \/ S2FEnd
  BY ZenonT(30), <1>5, <1>7 DEF S2FOpenDevice, S2FPartitions, S2FEnd, Receives,
     AtWork
<1>8. CASE S2FOpened \/ S2FListed \/ S2FEnded
  BY ZenonT(30), <1>2, <1>6, <1>8, Names DEF S2FOpened, S2FListed, S2FEnded,
     Answered, Refused, AtWork
<1>9. CASE S2FReadSectors \/ S2FOpenPartition \/ S2FRead
  <2>1. Zeros \in Rsps /\ Error \in Rsps
    BY PlainMessage DEF Rsps, Error, RspTypes
  <2> QED
    BY ZenonT(30), <1>1, <1>2, <1>9, <2>1, Names, ReplyStep, EndStep
       DEF S2FReadSectors, S2FOpenPartition, S2FRead, Receives, AtWork
<1>10. CASE S2FEndFails \/ S2FBrokenPipe \/ S2FWaitEnd
  BY ZenonT(30), <1>1, <1>10, ParkStep, EndStep DEF S2FEndFails, S2FBrokenPipe,
     S2FWaitEnd, Receives
<1>11. CASE S2FUnexpected
  BY ZenonT(30), <1>1, <1>11, Names, ReplyStep, EndStep DEF S2FUnexpected,
     ReceivesOther, AtWork
<1> QED
  BY <1>7, <1>8, <1>9, <1>10, <1>11 DEF Scsi2FilesNext

(* The steps of dev2scsi.                                                  *)
LEMMA Dev2ScsiPipes ==
    ASSUME TypeInv, PipeInv, UNCHANGED orchVars, Dev2ScsiNext
    PROVE  PipeInv'
<1> DEFINE c == "dev2scsi"
<1>1. /\ IpcTypeOK /\ c \in Procs /\ c \notin Children /\ c \notin WaitOnStartup
      /\ "scsi2files" \in Procs /\ "scsi2files" \in Children
  BY DEF TypeInv, Procs, Children, WaitOnStartup
<1>2. ASSUME NEW rs, NEW s2, Answer(c, rs, s2) \/ Emit(c, rs, s2), s2 # "Ghost"
      PROVE  PipeInv'
  <2>1. st'[c] = s2 /\ \A d \in Procs \ {c} : Untouched(d)
    BY <1>1, <1>2, Touches
  <2>2. GhostOK'
    BY <1>2, <2>1 DEF GhostOK
  <2> QED
    BY <1>1, <2>1, <2>2, OneChildOK
<1>3. CASE D2SUnlock \/ D2SPartitions \/ D2SEnd \/ D2SKilled
  BY <1>2, <1>3 DEF D2SUnlock, D2SPartitions, D2SEnd, D2SKilled

(* The copy of scsi2files writes in its pipes only when it is parked.      *)
<1>4. CASE D2SReturnsIntoParent \/ D2SGhostWaitEnd
  <2>1. MassStorageDropped
    BY <1>4 DEF D2SReturnsIntoParent, D2SGhostWaitEnd, PipeInv, GhostOK
  <2>2. /\ st'["scsi2files"] = st["scsi2files"]
        /\ \A d \in Procs \ {"scsi2files", "dev2scsi"} : Untouched(d)
    BY <1>1, <1>4 DEF D2SReturnsIntoParent, D2SGhostWaitEnd, IpcTypeOK,
       Untouched
  <2>3. ChildOK("scsi2files")'
    BY <2>1, <2>2, ParkedOK DEF ChildOK, PipesOK, Plain, MassStorageDropped
  <2>4. GhostOK'
    BY <2>1, <2>2 DEF GhostOK, MassStorageDropped
  <2> QED
    BY <2>2, <2>3, <2>4, SourceStep
<1> QED
  BY <1>3, <1>4 DEF Dev2ScsiNext
=============================================================================
