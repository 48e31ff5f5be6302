--------------------------- MODULE ArchiveProofs ----------------------------
(***************************************************************************)
(* usbsas and the children that write: whatever fails or dies, files2tar   *)
(* and files2fs handle the very request usbsas waits for an answer to,     *)
(* what they left unread in their pipes cannot be taken for a success      *)
(* (WriterInv), and usbsas and the writer agree on how much of the current *)
(* entry is written (TarSync, ImgSync).  The pairing of requests and       *)
(* responses alone says less: a child that failed may leave an error in    *)
(* excess.  Then what the archive holds and who may know of it (TarInv),   *)
(* as far as usbsas and files2tar go.                                      *)
(***************************************************************************)
EXTENDS UsbsasProofs

(* A leaf that names no prover is for Zenon.                               *)
USE Zenon

---------------------------------------------------------------------------
(* What usbsas reads, step by step.                                        *)

(* A call that is over: usbsas read the answer of d, or found d gone.      *)
CallOver(d) == (Reads(d) \/ ReadEof(d)) /\ wait' = "none"

(* usbsas talks to nobody.                                                 *)
Silent == wait = "none" /\ UNCHANGED <<rsp, wait>>

(* d tells usbsas how far it is.                                           *)
Progressing == \E d \in {"fs2dev", "analyzer", "uploader"} : Reads(d) /\ UNCHANGED wait

(* A call that returns, with or without success, has read its answer.      *)
LEMMA CallIsOver ==
    ASSUME NEW p \in DOMAIN CallOf, CallOk(p) \/ CallFails(p)
    PROVE  CallOver(CallOf[p][1]) /\ CallOf[p][1] \in Children /\ pc = p
<1>1. CallOf[p][1] \in Children
  BY CallTable
<1> HIDE DEF CallOf
<1> QED
  BY <1>1 DEF CallOk, CallFails, ReadFails, ReadOther, ReadEof, Read, CallOver,
     Reads

(* Every step of usbsas sends, reads an answer, or leaves the pipes alone. *)
LEMMA UsbsasReads ==
    ASSUME SessionInv, ClientNext \/ UsbsasNext
    PROVE  \/ SendRequest \/ EndSend \/ Silent \/ Progressing
           \/ \E d \in Children : CallOver(d)
<1> DEFINE Over == \E d \in Children : CallOver(d)
<1>1. TypeInv /\ PipeInv
  BY DEF SessionInv
<1>2. ASSUME pc \in {"recv", "select", "tar_next", "analyzed", "dir_next", "w_next", "wait"}
      PROVE  wait = "none"
  BY <1>1, <1>2, CallFacts, NotWaiting
<1>3. ASSUME ClientNext PROVE Silent
  BY <1>2, <1>3 DEF ClientNext, ClientCall, BadRequest, MalformedRequest,
     CopyStart, Wipe, End, Asked, ipcVars, Silent
<1>4. ASSUME Select \/ TarNext \/ Analyzed \/ DirNext \/ WriteNext \/ WaitChild
      PROVE  Silent
  BY <1>2, <1>4 DEF Select, TarNext, Analyzed, DirNext, WriteNext, WaitChild,
     ipcVars, Silent
<1>5. ASSUME \/ AnalyzeProgress \/ StartCopy \/ CopyProgress \/ UploadProgress
             \/ WipeStarted
      PROVE  Progressing
  BY <1>5 DEF AnalyzeProgress, StartCopy, CopyProgress, UploadProgress,
     WipeStarted, Progressing, Read, Reads, orchVars, ctlVars
<1>6. {"fs2dev", "analyzer", "uploader"} \subseteq Children
  BY Names
<1>7. ASSUME \/ WipeZeroed \/ CopyDone \/ CopyRefused \/ CopyBroken \/ AnalyzeFails
             \/ UploadFails
      PROVE  Over
  BY <1>6, <1>7 DEF WipeZeroed, CopyDone, CopyRefused, CopyBroken, AnalyzeFails,
     UploadFails, ReadFails, ReadOther, ReadEof, Read, CallOver, Reads
<1>8. ASSUME EndReturn PROVE Over
  <2>1. EndOrder[nth] \in Children
    BY <1>1, EndOrderType DEF TypeInv, OrchTypeOK
  <2>2. CallOver(EndOrder[nth])
    BY <1>8 DEF EndReturn, ReadFails, ReadOther, ReadEof, Read, CallOver, Reads
  <2> QED
    BY <2>1, <2>2
<1>9. ASSUME NEW p \in DOMAIN CallOf, CallOk(p) \/ CallFails(p) PROVE Over
  BY <1>9, CallIsOver
<1>10. ASSUME ClientCallOk \/ ClientCallFails PROVE Over
  <2>1. PICK v \in Serves : CallOk(v[3]) \/ CallFails(v[3])
    BY <1>10 DEF ClientCallOk, ClientCallFails
  <2>2. v[3] \in DOMAIN CallOf
    BY ServesRows, CallPoints
  <2> QED
    BY <1>9, <2>1, <2>2
<1>11. ASSUME \/ GotDevSize \/ TarFile \/ TarFileFails \/ TarClosed \/ AnalyzeDone
              \/ InitFs \/ WriteDir \/ WriteFile \/ WriteFileFails
       PROVE  Over
  <2>1. \E p \in DOMAIN CallOf : CallOk(p) \/ CallFails(p)
    BY <1>11, CallPoints DEF GotDevSize, TarFile, TarFileFails, TarClosed,
       AnalyzeDone, InitFs, WriteDir, WriteFile, WriteFileFails
  <2> QED
    BY <1>9, <2>1
<1>12. ASSUME ForwardBitVec \/ Delivered \/ TransferAborts \/ WipeFails \/ ImgDisk \/ ImgDiskFails
       PROVE  Over
  <2>1. ASSUME pc = "wiping", ReadFails("fs2dev", {"CopyStatus", "CopyStatusDone"}),
               wait' = "none"
        PROVE  Over
    BY <1>6, <2>1 DEF ReadFails, ReadOther, ReadEof, CallOver, Reads
  <2>2. \/ \E p \in DOMAIN CallOf : CallOk(p) \/ CallFails(p)
        \/ /\ pc = "wiping" /\ ReadFails("fs2dev", {"CopyStatus", "CopyStatusDone"})
           /\ wait' = "none"
    BY SMT, <1>12, CallPoints DEF ForwardBitVec, Delivered, TransferAborts,
       WipeFails, ImgDisk, ImgDiskFails
  <2> QED
    BY <1>9, <2>1, <2>2
<1> QED
  BY <1>3, <1>4, <1>5, <1>7, <1>8, <1>10, <1>11, <1>12 DEF UsbsasNext,
     CopyFilesNext

---------------------------------------------------------------------------
(* The pipes of the writers, seen from both ends.                          *)
LEMMA WriterSend ==
    ASSUME NEW Q, NEW q \in Seq(Q), NEW r, NEW m \in Q, NEW a, WriterOK(q, r, FALSE, a)
    PROVE  WriterOK(Append(q, m), r, TRUE, m)
<1>1. Len(Append(q, m)) = Len(q) + 1 /\ Append(q, m)[Len(q) + 1] = m
  BY AppendFacts
<1> QED
  BY <1>1 DEF WriterOK

(* usbsas reads the answer of a writer.                                    *)
LEMMA WriterRead ==
    ASSUME NEW R, NEW q, NEW q2, NEW r \in Seq(R), NEW a, NEW a2, r # <<>>,
           WriterOK(q, r, TRUE, a)
    PROVE  WriterOK(q2, Tail(r), FALSE, a2)
<1>1. \A i \in DOMAIN Tail(r) : /\ i + 1 \in DOMAIN r /\ Tail(r)[i] = r[i + 1]
                                /\ i \in Nat /\ i >= 1
  BY SMT, TailFacts
<1>2. \A i \in DOMAIN Tail(r) : i + 1 > 1
  BY SMT, <1>1
<1> QED
  BY <1>1, <1>2 DEF WriterOK

(* A writer that is not waited for.                                        *)
LEMMA WriterIdle ==
    ASSUME NEW q, NEW q2, NEW r, NEW w, NEW a, NEW a2, WriterOK(q, r, w, a),
           ~w \/ r = <<>>
    PROVE  WriterOK(q2, r, FALSE, a2)
<1>1. DOMAIN <<>> = {}
  BY SMT
<1> QED
  BY <1>1 DEF WriterOK

(* A writer answers the request that usbsas waits for.                     *)
LEMMA WriterAnswer ==
    ASSUME NEW m, NEW a, NEW w, w
    PROVE  WriterOK(<<>>, <<m>>, w, a)
<1>1. DOMAIN <<m>> = {1}
  BY SMT
<1> QED
  BY SMT, <1>1 DEF WriterOK

(* Refusals after refusals.                                                *)
LEMMA SpoiltConcat ==
    ASSUME NEW R, NEW r \in Seq(R), NEW rs \in Seq(R),
           \A i \in DOMAIN r : r[i].type \in Spoilt,
           \A i \in DOMAIN rs : rs[i].type \in Spoilt
    PROVE  \A i \in DOMAIN (r \o rs) : (r \o rs)[i].type \in Spoilt
<1>1. /\ Len(r) \in Nat /\ Len(rs) \in Nat
      /\ DOMAIN (r \o rs) = 1 .. (Len(r) + Len(rs))
      /\ DOMAIN r = 1 .. Len(r) /\ DOMAIN rs = 1 .. Len(rs)
  BY SMT, ConcatFacts, EmptyIsZero
<1>2. \A i \in 1 .. (Len(r) + Len(rs)) :
        (r \o rs)[i] = IF i <= Len(r) THEN r[i] ELSE rs[i - Len(r)]
  BY SMT, ConcatFacts
<1>3. \A i \in 1 .. (Len(r) + Len(rs)) :
        (i <= Len(r) => i \in DOMAIN r) /\ (~(i <= Len(r)) => i - Len(r) \in DOMAIN rs)
  BY SMT, <1>1
<1> QED
  BY <1>1, <1>2, <1>3

(* It refuses one, or takes its unlock byte.                               *)
LEMMA WriterRefuse ==
    ASSUME NEW Q, NEW R, NEW q \in Seq(Q), NEW r \in Seq(R), NEW w, NEW a,
           NEW rs \in Seq(R), q # <<>>, WriterOK(q, r, w, a),
           \A i \in DOMAIN rs : rs[i].type \in Spoilt
    PROVE  /\ WriterOK(Tail(q), r \o rs, w, a)
           /\ \A i \in DOMAIN (r \o rs) : (r \o rs)[i].type \in Spoilt
<1>1. \A i \in DOMAIN r : r[i].type \in Spoilt
  BY DEF WriterOK
<1>2. \A i \in DOMAIN (r \o rs) : (r \o rs)[i].type \in Spoilt
  BY <1>1, SpoiltConcat
<1>3. Tail(q) # <<>> => Tail(q)[Len(Tail(q))] = q[Len(q)]
  <2> SUFFICES ASSUME Tail(q) # <<>>
               PROVE  Tail(q)[Len(Tail(q))] = q[Len(q)]
    OBVIOUS
  <2>1. /\ Tail(q) \in Seq(Q) /\ Len(Tail(q)) = Len(q) - 1 /\ Len(q) \in Nat
        /\ \A i \in 1 .. Len(Tail(q)) : Tail(q)[i] = q[i + 1]
    BY TailFacts, EmptyIsZero
  <2>2. Len(Tail(q)) # 0
    BY <2>1, EmptyIsZero
  <2>3. Len(Tail(q)) \in 1 .. Len(Tail(q)) /\ Len(Tail(q)) + 1 = Len(q)
    BY SMT, <2>1, <2>2
  <2> QED
    BY <2>1, <2>3
<1> QED
  BY <1>2, <1>3 DEF WriterOK

---------------------------------------------------------------------------
(* A step of the processes in C leaves the pipes of the others alone.      *)
Alone(C) == \A p \in Procs \ C : Untouched(p)

(* An answer touches its child only.                                       *)
LEMMA AnswerAlone ==
    ASSUME IpcTypeOK, NEW c \in Procs, NEW rs, NEW s,
           Answer(c, rs, s) \/ Emit(c, rs, s)
    PROVE  Alone({c})
  BY Touches DEF Alone

(* So does every way a child ends.                                         *)
LEMMA ErrorAlone ==
    ASSUME IpcTypeOK, NEW c \in Procs,
           \/ RunError(c) \/ BadRequestTwice(c) \/ WaitEndOnce(c)
           \/ WaitEndLoop(c)
    PROVE  Alone({c})
  BY AnswerAlone DEF RunError, BadRequestTwice, WaitEndOnce, WaitEndLoop

(* So does every step of a child; scsi2files and dev2scsi share theirs.    *)
LEMMA ChildrenAlone ==
    ASSUME IpcTypeOK
    PROVE  /\ Files2TarNext => Alone({"files2tar"})
           /\ Tar2FilesNext => Alone({"tar2files"})
           /\ Files2FsNext => Alone({"files2fs"})
           /\ Fs2DevNext => Alone({"fs2dev"})
           /\ Scsi2FilesNext => Alone({"scsi2files", "dev2scsi"})
           /\ Dev2ScsiNext => Alone({"scsi2files", "dev2scsi"})
           /\ ServicesNext => \E c \in ServiceNames : Alone({c})
<1>1. /\ "files2tar" \in Procs /\ "tar2files" \in Procs /\ "files2fs" \in Procs
      /\ "fs2dev" \in Procs /\ "scsi2files" \in Procs /\ "dev2scsi" \in Procs
      /\ ServiceNames \subseteq Procs
  BY DEF Procs, Children, ServiceNames
<1>2. Files2TarNext => Alone({"files2tar"})
  BY ZenonT(30), <1>1, AnswerAlone, ErrorAlone DEF Files2TarNext, F2TUnlock,
     F2TNewFile, F2TWriteFile, F2TEndFile, F2TClose, F2TEnd, F2TUnexpected,
     F2TWaitEnd
<1>3. Tar2FilesNext => Alone({"tar2files"})
  BY ZenonT(30), <1>1, AnswerAlone, ErrorAlone DEF Tar2FilesNext, T2FUnlock,
     T2FLoadMetadata, T2FGetAttr, T2FReadFile, T2FReadDir, T2FEnd,
     T2FUnexpected, T2FWaitEnd
<1>4. Files2FsNext => Alone({"files2fs"})
  BY ZenonT(30), <1>1, AnswerAlone, ErrorAlone DEF Files2FsNext, F2FSetFsInfos,
     F2FNewFile, F2FWriteFile, F2FEndFile, F2FClose, F2FBitVec, F2FImgDisk,
     F2FWriteData, F2FEnd, F2FUnexpected, F2FWaitEnd
<1>5. Fs2DevNext => Alone({"fs2dev"})
  BY ZenonT(30), <1>1, AnswerAlone, ErrorAlone DEF Fs2DevNext, F2DUnlock,
     F2DDevSize, F2DLoadBitVec, F2DStartCopy, F2DWipe, F2DWriteGroup,
     F2DWriteFails, F2DStatusDone, F2DEnd, F2DUnexpected, F2DWaitEnd
<1>6. Scsi2FilesNext => Alone({"scsi2files", "dev2scsi"})
  <2>1. ASSUME NEW x, NEW s, Forward(x, s) \/ Relay(x, s)
        PROVE  Alone({"scsi2files", "dev2scsi"})
    BY <1>1, <2>1 DEF IpcTypeOK, Forward, Relay, Alone, Untouched
  <2>2. Alone({"scsi2files"}) => Alone({"scsi2files", "dev2scsi"})
    BY DEF Alone
  <2> QED
    BY ZenonT(30), <1>1, <2>1, <2>2, AnswerAlone, ErrorAlone DEF Scsi2FilesNext,
       S2FOpenDevice, S2FOpened, S2FPartitions, S2FListed, S2FReadSectors,
       S2FOpenPartition, S2FRead, S2FEnd, S2FEndFails, S2FEnded, S2FBrokenPipe,
       S2FUnexpected, S2FWaitEnd
<1>7. Dev2ScsiNext => Alone({"scsi2files", "dev2scsi"})
  <2>1. CASE D2SReturnsIntoParent \/ D2SGhostWaitEnd
    BY <1>1, <2>1 DEF IpcTypeOK, D2SReturnsIntoParent, D2SGhostWaitEnd, Alone,
       Untouched
  <2>2. Alone({"dev2scsi"}) => Alone({"scsi2files", "dev2scsi"})
    BY DEF Alone
  <2> QED
    BY <1>1, <2>1, <2>2, AnswerAlone DEF Dev2ScsiNext, D2SUnlock, D2SPartitions,
       D2SEnd, D2SKilled
<1>8. ServicesNext => \E c \in ServiceNames : Alone({c})
  BY ZenonT(30), <1>1, AnswerAlone, ErrorAlone DEF ServicesNext,
     AnalyzerAnalyze, AnalyzerAgain, UploaderUpload, CmdExecRun,
     IdentificatorId, UsbDevDevices, ServiceEnd, ServiceWaitEnd, ServiceNames
<1> QED
  BY <1>2, <1>3, <1>4, <1>5, <1>6, <1>7, <1>8

---------------------------------------------------------------------------
(* A step of a writer: it takes a request and refuses it, or, at work,     *)
(* answers it once.                                                        *)
Refuses(c) ==
    /\ req[c] # <<>>
    /\ \E rs \in Seq(Rsps) : /\ \E s : Answer(c, rs, s)
                              /\ \A i \in DOMAIN rs : rs[i].type \in Spoilt

Replies1(c) ==
    /\ req[c] # <<>> /\ st[c] \in AtWork
    /\ \E m \in Rsps : \E s : Answer(c, <<m>>, s)

(* The answers that are not a success.                                     *)
LEMMA Refusals ==
    ASSUME NEW c, NEW s, req[c] # <<>>,
           \/ Answer(c, <<>>, s) \/ Answer(c, <<Error>>, s) \/ Answer(c, <<EndRsp>>, s)
           \/ Answer(c, <<Error, Error>>, s) \/ RunError(c) \/ BadRequestTwice(c)
    PROVE  Refuses(c)
<1>1. /\ \A i \in DOMAIN <<>> : <<>>[i].type \in Spoilt
      /\ \A i \in DOMAIN <<Error>> : <<Error>>[i].type \in Spoilt
      /\ \A i \in DOMAIN <<EndRsp>> : <<EndRsp>>[i].type \in Spoilt
      /\ \A i \in DOMAIN <<Error, Error>> : <<Error, Error>>[i].type \in Spoilt
  BY SMT DEF Error, EndRsp, Msg, Spoilt
<1> QED
  BY <1>1, SmallAnswers DEF Refuses, RunError, BadRequestTwice

(* A writer refuses the request it reads or answers it once.               *)
LEMMA WriterSteps ==
    /\ Files2TarNext => Refuses("files2tar") \/ Replies1("files2tar")
    /\ Files2FsNext => Refuses("files2fs") \/ Replies1("files2fs")
<1>1. {"NewFile", "WriteFile", "EndFile", "Close", "SetFsInfos", "ImgDisk", "WriteData"}
        \subseteq RspTypes
  BY DEF RspTypes, ReqTypes
<1>2. {"WaitNewFile", "WritingFile", "WaitFsInfos", "ForwardBitVec", "ImgDisk"} \subseteq AtWork
  BY DEF AtWork
<1>3. ASSUME NEW c, NEW s, NEW t, NEW t2 \in RspTypes, NEW s2, s \in AtWork,
             Receives(c, s, t), Answer(c, <<Msg(t2)>>, s2)
      PROVE  Replies1(c)
  BY <1>3, PlainMessage DEF Replies1, Receives
<1>4. ASSUME NEW c, NEW s, NEW t, Receives(c, s, t),
             \/ RunError(c)
             \/ \E s2 : Answer(c, <<Error>>, s2)
             \/ \E s2 : Answer(c, <<EndRsp>>, s2)
             \/ \E s2 : Answer(c, <<>>, s2)
      PROVE  Refuses(c)
  BY <1>4, Refusals DEF Receives
<1>5. ASSUME NEW c, NEW s, NEW T, ReceivesOther(c, s, T),
             RunError(c) \/ BadRequestTwice(c) \/ \E s2 : Answer(c, <<Error>>, s2)
      PROVE  Refuses(c)
  BY <1>5, Refusals DEF ReceivesOther
<1>6. ASSUME NEW c, WaitEndOnce(c) PROVE Refuses(c)
  BY <1>4, <1>5, <1>6 DEF WaitEndOnce
<1>7. ASSUME Files2TarNext PROVE Refuses("files2tar") \/ Replies1("files2tar")
  BY ZenonT(60), <1>1, <1>2, <1>3, <1>4, <1>5, <1>6, <1>7 DEF Files2TarNext,
     F2TUnlock, F2TNewFile, F2TWriteFile, F2TEndFile, F2TClose, F2TEnd,
     F2TUnexpected, F2TWaitEnd
<1>8. ASSUME F2FBitVec PROVE Replies1("files2fs")
  <2>1. [type |-> "BitVec", last |-> bvLeft' = 0] \in Rsps
    BY DEF Rsps
  <2> QED
    BY <1>2, <1>8, <2>1 DEF F2FBitVec, Receives, Replies1
<1>9. ASSUME Files2FsNext PROVE Refuses("files2fs") \/ Replies1("files2fs")
  BY ZenonT(60), <1>1, <1>2, <1>3, <1>4, <1>5, <1>6, <1>8, <1>9 DEF
     Files2FsNext, F2FSetFsInfos, F2FNewFile, F2FWriteFile, F2FEndFile,
     F2FClose, F2FImgDisk, F2FWriteData, F2FEnd, F2FUnexpected, F2FWaitEnd
<1> QED
  BY <1>7, <1>9

(* A writer at work with a request is asked by usbsas right now.           *)
LEMMA AtWorkAsked ==
    ASSUME SessionInv, NEW c \in Writers, st[c] \in AtWork, req[c] # <<>>
    PROVE  /\ wait = c /\ Len(req[c]) = 1 /\ rsp[c] = <<>> /\ Tail(req[c]) = <<>>
           /\ Head(req[c]) = req[c][Len(req[c])]
<1>1. c \in Children /\ c \in Procs /\ c \notin {"fs2dev", "analyzer", "uploader"}
  BY DEF Writers, Children, Procs
<1>2. PlainOK(st[c], req[c], rsp[c], wait = c) /\ req[c] \in Seq(Reqs)
  BY <1>1 DEF SessionInv, PipeInv, TypeInv, IpcTypeOK, ChildOK, PipesOK, Plain
<1>3. st[c] \notin Parked \cup Inside
  BY DEF AtWork, Parked, Inside
<1>4. wait = c /\ Len(req[c]) = 1 /\ rsp[c] = <<>>
  BY <1>2, <1>3 DEF PlainOK, Quiet
<1> QED
  BY <1>2, <1>4, TailOfOne

(* WriterInv is kept by every step of a child.                             *)
LEMMA ChildrenWriters ==
    ASSUME SessionInv, WriterInv, ChildNext \/ Crash
    PROVE  WriterInv'
<1>1. /\ IpcTypeOK /\ Writers \subseteq Procs
      /\ Writers \cap {"tar2files", "fs2dev", "scsi2files", "dev2scsi"} = {}
      /\ Writers \cap ServiceNames = {}
  BY DEF SessionInv, TypeInv, Writers, Procs, Children, ServiceNames
<1>2. wait' = wait /\ Asking' = Asking
  BY DEF ChildNext, Files2TarStep, Tar2FilesStep, Files2FsStep, Fs2DevStep,
     Scsi2FilesStep, Dev2ScsiStep, ServicesStep, Crash, orchVars, ctlVars,
     jobVars, loopVars, Asking, Request
<1>3. ASSUME NEW c \in Writers, req'[c] = req[c], rsp'[c] = rsp[c]
      PROVE  WriterOK(req[c], rsp[c], wait = c, Asking)'
  BY <1>2, <1>3 DEF WriterInv
<1>4. ASSUME NEW c \in Writers, Refuses(c) \/ Replies1(c)
      PROVE  WriterOK(req[c], rsp[c], wait = c, Asking)'
  <2>1. req[c] \in Seq(Reqs) /\ rsp[c] \in Seq(Rsps) /\ c \in Procs
    BY <1>1 DEF IpcTypeOK
  <2>2. CASE Refuses(c)
    <3>1. PICK rs \in Seq(Rsps) : /\ \E s : Answer(c, rs, s)
                                  /\ \A i \in DOMAIN rs : rs[i].type \in Spoilt
      BY <2>2 DEF Refuses
    <3>2. req'[c] = Tail(req[c]) /\ rsp'[c] = rsp[c] \o rs /\ req[c] # <<>>
      BY <1>1, <2>1, <2>2, <3>1, Touches DEF Refuses
    <3>3. WriterOK(Tail(req[c]), rsp[c] \o rs, wait = c, Asking)
      BY <2>1, <3>1, <3>2, WriterRefuse DEF WriterInv
    <3> QED
      BY <1>2, <3>2, <3>3
  <2>3. CASE Replies1(c)
    <3>1. PICK m \in Rsps : \E s : Answer(c, <<m>>, s)
      BY <2>3 DEF Replies1
    <3>2. req'[c] = Tail(req[c]) /\ rsp'[c] = rsp[c] \o <<m>>
      BY <1>1, <2>1, <3>1, Touches
    <3>4. wait = c /\ rsp[c] = <<>> /\ Tail(req[c]) = <<>>
      BY <2>3, AtWorkAsked DEF Replies1
    <3>5. <<>> \o <<m>> = <<m>>
      BY SMT
    <3>3. wait = c /\ req'[c] = <<>> /\ rsp'[c] = <<m>>
      BY <3>2, <3>4, <3>5
    <3> QED
      BY <1>2, <3>3, WriterAnswer
  <2> QED
    BY <1>4, <2>2, <2>3
<1>5. CASE Files2TarStep \/ Files2FsStep
  <2>1. PICK c \in Writers : Alone({c}) /\ (Refuses(c) \/ Replies1(c))
    BY <1>1, <1>5, ChildrenAlone, WriterSteps DEF Files2TarStep, Files2FsStep,
       Writers
  <2> QED
    BY <1>1, <1>3, <1>4, <2>1 DEF WriterInv, Alone, Untouched
<1>6. CASE Tar2FilesStep \/ Fs2DevStep \/ Scsi2FilesStep \/ Dev2ScsiStep \/ ServicesStep
  <2>1. \A c \in Writers : Untouched(c)
    BY <1>1, <1>6, ChildrenAlone DEF Tar2FilesStep, Fs2DevStep, Scsi2FilesStep,
       Dev2ScsiStep, ServicesStep, Alone
  <2> QED
    BY <1>3, <2>1 DEF WriterInv, Untouched
<1>7. CASE Crash
  BY <1>3, <1>7 DEF WriterInv, Crash, Die
<1> QED
  BY <1>5, <1>6, <1>7 DEF ChildNext

(* What end_all writes: End, after the unlock byte if there is one.        *)
LEMMA EndMessages ==
    \A q \in Seq(Reqs), m \in Reqs, n \in Reqs :
        /\ q \o <<>> \o <<n>> = Append(q, n)
        /\ q \o <<m>> \o <<n>> = Append(Append(q, m), n)
        /\ Append(q, m) \in Seq(Reqs)
  BY SMT

(* usbsas writes a request to a writer, or to another child.               *)
LEMMA SendWriters ==
    ASSUME SessionInv, WriterInv, SendRequest \/ EndSend
    PROVE  WriterInv'
<1>1. TypeInv /\ PipeInv /\ IpcTypeOK /\ Writers \subseteq Procs
  BY DEF SessionInv, TypeInv, Writers, Procs, Children
<1>2. wait = "none" /\ rsp' = rsp /\ Asking' = Asking
  BY DEF SendRequest, EndSend, jobVars, loopVars, Asking, Request
<1>3. pc = "end" => Msg("End") \in Reqs
  BY PlainMessage DEF ReqTypes
<1>4. SUFFICES ASSUME NEW c \in Writers
               PROVE  WriterOK(req[c], rsp[c], wait = c, Asking)'
  BY DEF WriterInv
<1>5. /\ WriterOK(req[c], rsp[c], FALSE, Asking) /\ req[c] \in Seq(Reqs) /\ c \in Procs
      /\ c \in Children /\ c # "none" /\ c # "epipe"
  <2>1. (wait = c) = FALSE /\ c \in Children /\ c # "epipe" /\ c # "none"
    BY <1>2 DEF Writers, Children
  <2> QED
    BY <1>1, <2>1 DEF WriterInv, IpcTypeOK
<1>6. CASE wait' # c
  <2>1. (wait' = c) = FALSE
    BY <1>6
  <2> QED
    BY <1>2, <1>5, <2>1, WriterIdle
<1>7. CASE wait' = c /\ SendRequest
  <2>1. c = Callee /\ req' = [req EXCEPT ![Callee] = Append(@, Request)] /\ pc # "end"
    BY <1>5, <1>7, CallFacts DEF SendRequest
  <2>2. req'[c] = Append(req[c], Asking) /\ (wait' = c) = TRUE
    BY <1>1, <1>5, <1>7, <2>1 DEF IpcTypeOK, Asking
  <2>3. Asking \in Reqs
    BY <1>1, <1>7, <2>1, RequestType, TypeInvTypeOK DEF Asking, TypeInv,
       OrchTypeOK, SendRequest
  <2>4. WriterOK(Append(req[c], Asking), rsp[c], TRUE, Asking)
    BY <1>5, <2>3, WriterSend
  <2> QED
    BY <1>2, <2>2, <2>4
<1>8. CASE wait' = c /\ EndSend
  <2> DEFINE bytes == IF c \in locked THEN <<Unlock(EndByte(c))>> ELSE <<>>
  <2>1. c = EndOrder[nth] /\ pc = "end" /\ Asking = Msg("End")
        /\ req' = [req EXCEPT ![c] = @ \o bytes \o <<Msg("End")>>]
    BY <1>5, <1>8 DEF EndSend, Asking
  <2>2. req'[c] = req[c] \o bytes \o <<Asking>> /\ (wait' = c) = TRUE
    BY <1>1, <1>5, <1>8, <2>1 DEF IpcTypeOK
  <2>3. Unlock(EndByte(c)) \in Reqs /\ Asking \in Reqs
    BY <1>3, <2>1 DEF Unlock, EndByte, Reqs
  <2>4. PICK q \in Seq(Reqs) : req'[c] = Append(q, Asking)
    <3>1. CASE c \in locked
      <4>1. bytes = <<Unlock(EndByte(c))>>
        BY <3>1
      <4>2. req'[c] = Append(Append(req[c], Unlock(EndByte(c))), Asking)
        BY <1>5, <2>2, <2>3, <4>1, EndMessages
      <4> QED
        BY <1>5, <2>3, <4>2, EndMessages
    <3>2. CASE c \notin locked
      <4>1. bytes = <<>>
        BY <3>2
      <4> QED
        BY <1>5, <2>2, <2>3, <4>1, EndMessages
    <3> QED
      BY <3>1, <3>2
  <2>5. WriterOK(q, rsp[c], FALSE, Asking)
    BY <1>5, WriterIdle
  <2>6. WriterOK(Append(q, Asking), rsp[c], TRUE, Asking)
    BY <2>3, <2>5, WriterSend
  <2> QED
    BY <1>2, <2>2, <2>4, <2>6
<1> QED
  BY <1>6, <1>7, <1>8

(* WriterInv is kept by every step of usbsas.                              *)
LEMMA UsbsasWriters ==
    ASSUME SessionInv, WriterInv, ClientNext \/ UsbsasNext
    PROVE  WriterInv'
<1>1. IpcTypeOK /\ Writers \subseteq Procs /\ Writers \subseteq Children
      /\ Writers \cap {"none", "epipe", "fs2dev", "analyzer", "uploader"} = {}
      /\ Children \subseteq Procs
  BY DEF SessionInv, TypeInv, Writers, Procs, Children
<1>2. CASE SendRequest \/ EndSend
  BY <1>2, SendWriters
<1>3. ASSUME NEW c \in Writers, wait # c \/ rsp[c] = <<>>, wait' # c, rsp'[c] = rsp[c]
      PROVE  WriterOK(req[c], rsp[c], wait = c, Asking)'
  <2>1. (wait' = c) = FALSE
    BY <1>3
  <2>2. WriterOK(req'[c], rsp[c], FALSE, Asking')
    BY <1>3, WriterIdle DEF WriterInv
  <2> QED
    BY <1>3, <2>1, <2>2
<1>4. CASE Silent
  BY <1>1, <1>3, <1>4 DEF Silent, WriterInv
<1>5. CASE Progressing
  BY SMT, <1>1, <1>3, <1>5 DEF Progressing, Reads, WriterInv, IpcTypeOK
<1>6. ASSUME NEW d \in Children, CallOver(d), NEW c \in Writers
      PROVE  WriterOK(req[c], rsp[c], wait = c, Asking)'
  <2>1. CASE ReadEof(d)
    BY <1>1, <1>3, <1>6, <2>1 DEF ReadEof, CallOver
  <2>2. CASE Reads(d) /\ d # c
    BY <1>1, <1>3, <1>6, <2>2 DEF Reads, CallOver, IpcTypeOK
  <2>3. CASE Reads(d) /\ d = c
    <3>1. /\ rsp'[c] = Tail(rsp[c]) /\ rsp[c] # <<>> /\ rsp[c] \in Seq(Rsps)
          /\ (wait = c) = TRUE /\ (wait' = c) = FALSE
      BY <1>1, <1>6, <2>3 DEF Reads, CallOver, IpcTypeOK
    <3>2. WriterOK(req'[c], Tail(rsp[c]), FALSE, Asking')
      BY <3>1, WriterRead DEF WriterInv
    <3> QED
      BY <3>1, <3>2
  <2> QED
    BY <1>6, <2>1, <2>2, <2>3 DEF CallOver
<1> QED
  BY <1>2, <1>4, <1>5, <1>6, UsbsasReads DEF WriterInv

---------------------------------------------------------------------------
(* The request a writer handles, and where usbsas is meanwhile.            *)
LEMMA RequestFields ==
    ASSUME pc \in DOMAIN CallOf
    PROVE  /\ Request.type = CallOf[pc][2]
           /\ pc \in {"tar_new", "dir_new", "w_new"} => Request.path = cur
           /\ pc \in {"tar_write", "w_write"} => Request.offset = off
<1> DEFINE t == CallOf[pc][2]
<1>1. CASE pc \in {"tar_new", "dir_attr", "dir_new", "w_attr", "w_new", "w_read"}
  <2>1. Request = [type |-> t, path |-> cur]
    BY <1>1 DEF Request
  <2> HIDE DEF t
  <2> QED
    BY <1>1, <2>1 DEF t
<1>2. CASE pc \in {"tar_write", "w_write"}
  <2>1. Request = [type |-> t, offset |-> off]
    BY <1>2 DEF Request
  <2> HIDE DEF t
  <2> QED
    BY <1>2, <2>1 DEF t
<1>3. CASE pc = "fs_init"
  <2>1. Request = [type |-> t, fstype |-> fstype]
    BY <1>3 DEF Request
  <2> HIDE DEF t
  <2> QED
    BY <1>3, <2>1 DEF t
<1>4. CASE pc = "bv_load"
  <2>1. Request = [type |-> t, last |-> last]
    BY <1>4 DEF Request
  <2> HIDE DEF t
  <2> QED
    BY <1>4, <2>1 DEF t
<1>5. CASE pc \notin {"tar_new", "dir_attr", "dir_new", "w_attr", "w_new",
                      "w_read", "tar_write", "w_write", "fs_init", "bv_load"}
  <2>1. Request = Msg(t)
    BY <1>5 DEF Request
  <2> HIDE DEF t
  <2> QED
    BY <1>5, <2>1 DEF Msg, t
<1> QED
  BY <1>1, <1>2, <1>3, <1>4, <1>5

(* Where usbsas calls a writer,                                            *)
LEMMA WriterPoints ==
    ASSUME NEW p \in DOMAIN CallOf
    PROVE  /\ CallOf[p][1] = "files2tar" =>
                p \in {"tar_new", "tar_write", "tar_end", "tar_close"}
           /\ CallOf[p][1] = "files2fs" =>
                p \in {"fs_init", "dir_new", "w_new", "w_write", "w_end", "fs_close",
                       "bv_get", "img_start", "img_write"}
  BY SMTT(60), CallPoints, CallValues

(* with which request,                                                     *)
LEMMA WriterRequests ==
    /\ CallOf["tar_new"][2] = "NewFile" /\ CallOf["tar_write"][2] = "WriteFile"
    /\ CallOf["tar_end"][2] = "EndFile" /\ CallOf["tar_close"][2] = "Close"
    /\ CallOf["fs_init"][2] = "SetFsInfos" /\ CallOf["dir_new"][2] = "NewFile"
    /\ CallOf["w_new"][2] = "NewFile" /\ CallOf["w_write"][2] = "WriteFile"
    /\ CallOf["w_end"][2] = "EndFile" /\ CallOf["fs_close"][2] = "Close"
    /\ CallOf["bv_get"][2] = "BitVec" /\ CallOf["img_start"][2] = "ImgDisk"
    /\ CallOf["img_write"][2] = "WriteData"
  BY SMTT(60), CallValues

(* and which writer.                                                       *)
LEMMA WriterCalls ==
    /\ CallOf["tar_new"][1] = "files2tar" /\ CallOf["tar_write"][1] = "files2tar"
    /\ CallOf["tar_end"][1] = "files2tar" /\ CallOf["tar_close"][1] = "files2tar"
    /\ CallOf["w_new"][1] = "files2fs" /\ CallOf["w_write"][1] = "files2fs"
    /\ CallOf["w_end"][1] = "files2fs" /\ CallOf["fs_close"][1] = "files2fs"
  BY SMTT(60), CallValues

(* The request a writer at work reads is the one usbsas waits for, and     *)
(* tells where usbsas is and at which entry.                               *)
LEMMA Handles ==
    ASSUME SessionInv, WriterInv, NEW c \in Writers, st[c] \in AtWork, req[c] # <<>>,
           NEW m, m = Head(req[c])
    PROVE  /\ wait = c /\ rsp[c] = <<>> /\ Tail(req[c]) = <<>>
           /\ c = "files2tar" =>
                /\ m.type = "NewFile" => pc = "tar_new" /\ m.path = cur
                /\ m.type = "WriteFile" => pc = "tar_write"
                /\ m.type = "EndFile" => pc = "tar_end"
                /\ m.type = "Close" => pc = "tar_close"
           /\ c = "files2fs" =>
                /\ m.type = "NewFile" => pc \in {"dir_new", "w_new"} /\ m.path = cur
                /\ m.type = "WriteFile" => pc = "w_write" /\ m.offset = off
                /\ m.type = "EndFile" => pc = "w_end"
                /\ m.type = "Close" => pc = "fs_close"
<1>1. wait = c /\ rsp[c] = <<>> /\ Tail(req[c]) = <<>> /\ m = Asking
  BY AtWorkAsked DEF WriterInv, WriterOK
<1>2. \/ pc = "end"
      \/ pc \in DOMAIN CallOf /\ c = CallOf[pc][1]
  BY <1>1 DEF SessionInv, PipeInv, WaitOK, Writers, Children
<1>3. CASE pc = "end"
  BY SMT, <1>1, <1>3 DEF Asking, Msg
<1>4. CASE pc \in DOMAIN CallOf /\ c = CallOf[pc][1]
  <2>1. pc # "end"
    BY <1>4, CallFacts
  <2>2. m = Request /\ m.type = CallOf[pc][2]
    BY <1>1, <1>4, <2>1, RequestFields DEF Asking
  <2>3. /\ pc \in {"tar_new", "dir_new", "w_new"} => m.path = cur
        /\ pc = "w_write" => m.offset = off
    BY <1>4, <2>2, RequestFields
  <2>4. c = "files2tar" => pc \in {"tar_new", "tar_write", "tar_end", "tar_close"}
    BY <1>4, WriterPoints
  <2>5. c = "files2fs" => pc \in {"fs_init", "dir_new", "w_new", "w_write", "w_end",
                                  "fs_close", "bv_get", "img_start", "img_write"}
    BY <1>4, WriterPoints
  <2> HIDE DEF CallOf
  <2> QED
    BY SMTT(30), <1>1, <2>2, <2>3, <2>4, <2>5, WriterRequests
<1> QED
  BY <1>2, <1>3, <1>4

---------------------------------------------------------------------------
(* usbsas and a writer agree on the entry they are at.                     *)
SyncPoints == {"tar_new", "tar_read", "tar_write", "tar_end", "w_new", "w_read",
               "w_write", "w_end"}

(* usbsas gets to those points in the loops over the entries only.         *)
LEMMA SyncEntered ==
    ASSUME SessionInv, ClientNext \/ UsbsasNext, ~SendRequest, ~TarFile, ~WriteFile
    PROVE  pc' \notin SyncPoints
<1>1. CASE ClientNext
  <2>1. CASE ClientCall
    <3>1. PICK v \in Serves : pc' = v[3]
      BY <2>1 DEF ClientCall
    <3> QED
      BY <3>1, ServedAt DEF SyncPoints, TarPoints, FilePoints
  <2> QED
    BY <1>1, <2>1 DEF ClientNext, BadRequest, MalformedRequest, CopyStart, Wipe,
       End, Asked, SyncPoints
<1>2. CASE ClientCallOk \/ ClientCallFails
  BY <1>2 DEF ClientCallOk, ClientCallFails, SyncPoints
<1>3. CASE \/ WipeStarted \/ WipeZeroed \/ WipeFails \/ ImgDisk \/ ImgDiskFails
           \/ EndSend \/ EndReturn \/ WaitChild
  BY <1>3 DEF WipeStarted, WipeZeroed, WipeFails, ImgDisk, ImgDiskFails,
     EndSend, EndReturn, WaitChild, RunFails, RunEnds, SyncPoints
<1>4. CASE CopyFilesNext
  <2>1. CASE \/ Select \/ GotDevSize \/ TarNext \/ TarFileFails \/ TarClosed
             \/ AnalyzeProgress \/ AnalyzeDone \/ AnalyzeFails \/ Analyzed
    <3>1. CASE Select
      BY <3>1 DEF Select, StartTar, GiveUp, RunFails, RunEnds, SyncPoints
    <3> QED
      BY <2>1, <3>1 DEF GotDevSize, TarNext, TarFileFails, TarClosed, StartTar,
         GiveUp, AnalyzeProgress, AnalyzeDone, AnalyzeFails, Analyzed, RunFails,
         RunEnds, orchVars, ctlVars, SyncPoints, SessionInv, ControlInv
  <2>2. CASE \/ InitFs \/ DirNext \/ WriteDir \/ WriteNext \/ WriteFileFails
             \/ ForwardBitVec
    BY <2>2 DEF InitFs, DirNext, WriteDir, WriteNext, WriteFileFails,
       ForwardBitVec, SyncPoints
  <2>3. CASE \/ StartCopy \/ CopyProgress \/ CopyDone \/ CopyRefused \/ CopyBroken
             \/ UploadProgress \/ Delivered \/ UploadFails \/ TransferAborts
    BY <2>3 DEF StartCopy, CopyProgress, CopyDone, CopyRefused, CopyBroken,
       UploadProgress, Delivered, UploadFails, TransferAborts, RunFails,
       RunEnds, orchVars, ctlVars, SyncPoints
  <2> QED
    BY <1>4, <2>1, <2>2, <2>3 DEF CopyFilesNext
<1> QED
  BY <1>1, <1>2, <1>3, <1>4 DEF UsbsasNext

(* An entry has a number of chunks.                                        *)
LEMMA ChunksInNat == \A e : Chunks(e) \in Nat
  BY SizeInNat DEF Chunks

(* A success that usbsas reads from a writer answers the call it has made. *)
LEMMA FreshAnswer ==
    ASSUME SessionInv, WriterInv, NEW c \in Writers, NEW t, t \notin Spoilt, Read(c, t)
    PROVE  Answered1(c, t)
<1>1. rsp[c] \in Seq(Rsps) /\ rsp[c] # <<>> /\ wait = c
  BY DEF SessionInv, TypeInv, IpcTypeOK, Writers, Procs, Children, Read
<1>2. 1 \in DOMAIN rsp[c] /\ Head(rsp[c]) = rsp[c][1]
  BY SMT, <1>1
<1> QED
  BY <1>1, <1>2 DEF Read, WriterInv, WriterOK, Answered1, Handled

(* Sending a request moves neither side.                                   *)
LEMMA SendSync ==
    ASSUME SessionInv, SendRequest
    PROVE  /\ TarSync => TarSync'
           /\ ImgSync => ImgSync'
<1>1. /\ UNCHANGED <<rsp, pc, off, cur, tar, tarCur, img, imgCur>> /\ wait = "none"
      /\ pc \in DOMAIN CallOf
  BY DEF SendRequest, loopVars, storeVars, tarVars, imgVars
<1>2. ASSUME NEW c \in Writers PROVE ~Handled(c) /\ ~Handled(c)'
  <2>1. /\ c \in Children /\ c \in Procs /\ c # "none" /\ c # "epipe"
        /\ req[c] \in Seq(Reqs) /\ req \in [Procs -> Seq(Reqs)]
    BY DEF Writers, Procs, Children, SessionInv, TypeInv, IpcTypeOK
  <2>2. \A m : Append(req[c], m) # <<>>
    <3>1. \A m : Len(Append(req[c], m)) = Len(req[c]) + 1 /\ Len(req[c]) \in Nat
      BY SMT, <2>1
    <3>2. \A m : Len(Append(req[c], m)) # 0
      BY SMT, <3>1
    <3>3. Len(<<>>) = 0
      OBVIOUS
    <3> QED
      BY <3>2, <3>3
  <2>3. wait' = c => req'[c] = Append(req[c], Request)
    BY <2>1 DEF SendRequest
  <2> QED
    BY <1>1, <2>1, <2>2, <2>3 DEF Handled
<1>3. "files2tar" \in Writers /\ "files2fs" \in Writers
  BY DEF Writers
<1>4. TarSync => TarSync'
  BY <1>1, <1>2, <1>3 DEF TarSync, Answered1
<1>5. ImgSync => ImgSync'
  BY <1>1, <1>2, <1>3 DEF ImgSync, Answered1
<1> QED
  BY <1>4, <1>5

(* TarSync is kept by every step of usbsas.                                *)
LEMMA UsbsasTarSync ==
    ASSUME SessionInv, WriterInv, TarSync, ClientNext \/ UsbsasNext
    PROVE  TarSync'
<1>1. CASE SendRequest
  BY <1>1, SendSync
<1>2. CASE TarFile
  <2>1. /\ UNCHANGED <<cur, tar, tarCur>> /\ "files2tar" \in Writers /\ off \in Nat
        /\ Chunks(cur) \in Nat
    BY <1>2, ChunksInNat DEF TarFile, storeVars, tarVars, Writers, SessionInv,
       TypeInv, OrchTypeOK
  <2>2. wait' = "none" /\ ~Handled("files2tar")'
    BY <1>2 DEF TarFile, CallOk, Handled
  <2>3. Chunks(cur)' = Chunks(cur)
    BY <2>1 DEF Chunks
  <2>4. CASE CallOk("tar_attr") /\ pc' = "tar_new" /\ off' = 0
    BY <2>2, <2>4 DEF TarSync, Answered1
  <2>5. CASE /\ CallOk("tar_new") /\ UNCHANGED off
             /\ pc' = IF Chunks(cur) > 0 THEN "tar_read" ELSE "tar_end"
    <3>1. Answered1("files2tar", "NewFile") /\ pc = "tar_new"
      BY <2>1, <2>5, FreshAnswer, WriterCalls, WriterRequests DEF CallOk, Spoilt
    <3>2. tarCur = cur /\ tar[cur] = 0 /\ off = 0
      BY <3>1 DEF TarSync
    <3> QED
      BY SMT, <2>1, <2>2, <2>3, <2>5, <3>2 DEF TarSync
  <2>6. CASE CallOk("tar_read") /\ pc' = "tar_write" /\ UNCHANGED off
    BY <2>1, <2>2, <2>3, <2>6 DEF TarSync, CallOk, Answered1
  <2>7. CASE /\ CallOk("tar_write") /\ off' = off + 1
             /\ pc' = IF off' < Chunks(cur) THEN "tar_read" ELSE "tar_end"
    <3>1. Answered1("files2tar", "WriteFile") /\ pc = "tar_write"
      BY <2>1, <2>7, FreshAnswer, WriterCalls, WriterRequests DEF CallOk, Spoilt
    <3>2. tarCur = cur /\ tar[cur] = off + 1 /\ off < Chunks(cur)
      BY <3>1 DEF TarSync
    <3> QED
      BY SMT, <2>1, <2>2, <2>3, <2>7, <3>2 DEF TarSync
  <2>8. CASE pc' = "tar_next"
    BY <2>8 DEF TarSync
  <2> QED
    BY <1>2, <2>4, <2>5, <2>6, <2>7, <2>8 DEF TarFile
<1>3. CASE WriteFile
  BY <1>3 DEF WriteFile, TarSync
<1>4. CASE ~SendRequest /\ ~TarFile /\ ~WriteFile
  <2>1. pc' \notin SyncPoints
    BY <1>4, SyncEntered
  <2> QED
    BY <2>1 DEF TarSync, SyncPoints
<1> QED
  BY <1>1, <1>2, <1>3, <1>4

(* ImgSync is kept by every step of usbsas.                                *)
LEMMA UsbsasImgSync ==
    ASSUME SessionInv, WriterInv, ImgSync, ClientNext \/ UsbsasNext
    PROVE  ImgSync'
<1>1. CASE SendRequest
  BY <1>1, SendSync
<1>2. CASE WriteFile
  <2>1. /\ UNCHANGED <<cur, img, imgCur>> /\ "files2fs" \in Writers /\ off \in Nat
        /\ Chunks(cur) \in Nat
    BY <1>2, ChunksInNat DEF WriteFile, storeVars, imgVars, Writers, SessionInv,
       TypeInv, OrchTypeOK
  <2>2. wait' = "none" /\ ~Handled("files2fs")'
    BY <1>2 DEF WriteFile, CallOk, Handled
  <2>3. Chunks(cur)' = Chunks(cur)
    BY <2>1 DEF Chunks
  <2>4. CASE CallOk("w_attr") /\ pc' = "w_new" /\ off' = 0
    BY <2>2, <2>4 DEF ImgSync, Answered1
  <2>5. CASE /\ CallOk("w_new") /\ UNCHANGED off
             /\ pc' = IF Chunks(cur) > 0 THEN "w_read" ELSE "w_end"
    <3>1. Answered1("files2fs", "NewFile") /\ pc = "w_new"
      BY <2>1, <2>5, FreshAnswer, WriterCalls, WriterRequests DEF CallOk, Spoilt
    <3>2. imgCur = cur /\ img[cur] = 0 /\ off = 0
      BY <3>1 DEF ImgSync
    <3> QED
      BY SMT, <2>1, <2>2, <2>3, <2>5, <3>2 DEF ImgSync
  <2>6. CASE CallOk("w_read") /\ pc' = "w_write" /\ UNCHANGED off
    BY <2>1, <2>2, <2>3, <2>6 DEF ImgSync, CallOk, Answered1
  <2>7. CASE /\ CallOk("w_write") /\ off' = off + 1
             /\ pc' = IF off' < Chunks(cur) THEN "w_read" ELSE "w_end"
    <3>1. Answered1("files2fs", "WriteFile") /\ pc = "w_write"
      BY <2>1, <2>7, FreshAnswer, WriterCalls, WriterRequests DEF CallOk, Spoilt
    <3>2. imgCur = cur /\ img[cur] = off + 1 /\ off < Chunks(cur)
      BY <3>1 DEF ImgSync
    <3> QED
      BY SMT, <2>1, <2>2, <2>3, <2>7, <3>2 DEF ImgSync
  <2>8. CASE pc' = "w_next"
    BY <2>8 DEF ImgSync
  <2> QED
    BY <1>2, <2>4, <2>5, <2>6, <2>7, <2>8 DEF WriteFile
<1>3. CASE TarFile
  BY <1>3 DEF TarFile, ImgSync
<1>4. CASE ~SendRequest /\ ~TarFile /\ ~WriteFile
  <2>1. pc' \notin SyncPoints
    BY <1>4, SyncEntered
  <2> QED
    BY <2>1 DEF ImgSync, SyncPoints
<1> QED
  BY <1>1, <1>2, <1>3, <1>4

---------------------------------------------------------------------------
(* The steps of the writers keep them in agreement with usbsas.            *)
LEMMA PlainRefusals ==
    /\ F2TUnlock \/ F2TEnd \/ F2TUnexpected \/ F2TWaitEnd => Refuses("files2tar")
    /\ F2FEnd \/ F2FUnexpected \/ F2FWaitEnd => Refuses("files2fs")
    /\ \A c : req[c] # <<>> /\ RunError(c) => Refuses(c)
    /\ \A c, s : req[c] # <<>> /\ Answer(c, <<Error>>, s) => Refuses(c)
<1>1. ASSUME NEW c, WaitEndOnce(c) PROVE Refuses(c)
  BY <1>1, Refusals DEF WaitEndOnce, Receives, ReceivesOther
<1>2. F2TUnlock \/ F2TEnd \/ F2TUnexpected \/ F2TWaitEnd => Refuses("files2tar")
  BY ZenonT(30), <1>1, Refusals DEF F2TUnlock, F2TEnd, F2TUnexpected,
     F2TWaitEnd, Receives, ReceivesOther
<1>3. F2FEnd \/ F2FUnexpected \/ F2FWaitEnd => Refuses("files2fs")
  BY ZenonT(30), <1>1, Refusals DEF F2FEnd, F2FUnexpected, F2FWaitEnd, Receives,
     ReceivesOther
<1>4. \A c : req[c] # <<>> /\ RunError(c) => Refuses(c)
  BY Refusals
<1>5. \A c, s : req[c] # <<>> /\ Answer(c, <<Error>>, s) => Refuses(c)
  BY Refusals
<1> QED
  BY <1>2, <1>3, <1>4, <1>5

(* A refused call is not taken for a success.                              *)
LEMMA RefusedCall ==
    ASSUME SessionInv, WriterInv, NEW c \in Writers, Refuses(c)
    PROVE  ~Handled(c) /\ \A t : t \notin Spoilt => ~Answered1(c, t)'
<1>1. /\ IpcTypeOK /\ c \in Procs /\ req[c] \in Seq(Reqs) /\ rsp[c] \in Seq(Rsps)
      /\ req[c] # <<>>
  BY DEF SessionInv, TypeInv, IpcTypeOK, Writers, Procs, Children, Refuses
<1>2. PICK rs \in Seq(Rsps) : /\ \E s : Answer(c, rs, s)
                              /\ \A i \in DOMAIN rs : rs[i].type \in Spoilt
  BY DEF Refuses
<1>3. rsp'[c] = rsp[c] \o rs
  BY <1>1, <1>2, Touches
<1>4. \A i \in DOMAIN (rsp[c] \o rs) : (rsp[c] \o rs)[i].type \in Spoilt
  <2>1. WriterOK(req[c], rsp[c], wait = c, Asking)
    BY DEF WriterInv
  <2>2. \A i \in DOMAIN rsp[c] : rsp[c][i].type \in Spoilt
    BY <1>1, <2>1 DEF WriterOK
  <2> QED
    BY <1>1, <1>2, <2>2, SpoiltConcat
<1>5. rsp[c] \o rs # <<>> => 1 \in DOMAIN (rsp[c] \o rs)
  <2>1. rsp[c] \o rs \in Seq(Rsps)
    BY SMT, <1>1
  <2> QED
    BY SMT, <2>1
<1> QED
  BY <1>1, <1>3, <1>4, <1>5 DEF Handled, Answered1

(* An answered call is answered by that very message.                      *)
LEMMA AnsweredCall ==
    ASSUME SessionInv, WriterInv, UNCHANGED wait, NEW c \in Writers, st[c] \in AtWork,
           req[c] # <<>>, NEW m, NEW s, Answer(c, <<m>>, s)
    PROVE  /\ ~Handled(c) /\ Handled(c)'
           /\ \A t : Answered1(c, t)' => m.type = t
<1>1. IpcTypeOK /\ c \in Procs
  BY DEF SessionInv, TypeInv, Writers, Procs, Children
<1>2. wait = c /\ rsp[c] = <<>> /\ Tail(req[c]) = <<>>
  BY AtWorkAsked
<1>3. req'[c] = Tail(req[c]) /\ rsp'[c] = rsp[c] \o <<m>>
  BY <1>1, Touches
<1>4. <<>> \o <<m>> = <<m>> /\ <<m>>[1] = m
  BY SMT
<1> QED
  BY <1>2, <1>3, <1>4 DEF Handled, Answered1

(* TarSync is kept by every step of files2tar.                             *)
LEMMA Files2TarSync ==
    ASSUME SessionInv, WriterInv, TarSync, Files2TarStep
    PROVE  TarSync'
<1> DEFINE c == "files2tar"
<1>1. Files2TarNext /\ UNCHANGED <<pc, wait, cur, off>> /\ c \in Writers
  BY DEF Files2TarStep, orchVars, ctlVars, loopVars, Writers
<1>2. /\ Chunks(cur)' = Chunks(cur) /\ IpcTypeOK /\ TarTypeOK /\ off \in Nat
      /\ {"NewFile", "WriteFile", "EndFile", "Close"} \cap Spoilt = {}
      /\ {"WaitNewFile", "WritingFile"} \subseteq AtWork
      /\ pc \in EntryPoints => cur \in Entries
  BY <1>1 DEF Chunks, SessionInv, TypeInv, StoreTypeOK, OrchTypeOK, Spoilt,
     AtWork
<1>3. ASSUME Refuses(c), UNCHANGED tarVars PROVE TarSync'
  <2>1. ~Handled(c) /\ ~Answered1(c, "NewFile")' /\ ~Answered1(c, "WriteFile")'
    BY <1>1, <1>2, <1>3, RefusedCall
  <2> QED
    BY <1>1, <1>2, <1>3, <2>1 DEF TarSync, tarVars
<1>4. ASSUME NEW t \in {"EndFile", "Close"}, NEW s, st[c] \in AtWork, req[c] # <<>>,
             Answer(c, <<Msg(t)>>, s), UNCHANGED <<tar, tarCur>>
      PROVE  TarSync'
  <2>1. ~Handled(c) /\ ~Answered1(c, "NewFile")' /\ ~Answered1(c, "WriteFile")'
    BY SMT, <1>1, <1>4, AnsweredCall DEF Msg
  <2> QED
    BY <1>1, <1>2, <1>4, <2>1 DEF TarSync
<1>5. CASE F2TUnlock \/ F2TEnd \/ F2TUnexpected \/ F2TWaitEnd
  BY <1>3, <1>5, PlainRefusals DEF F2TUnlock, F2TEnd, F2TUnexpected, F2TWaitEnd
<1>6. CASE F2TNewFile
  <2>1. st[c] \in AtWork /\ req[c] # <<>> /\ Head(req[c]).type = "NewFile"
    BY <1>2, <1>6 DEF F2TNewFile, Receives
  <2>2. CASE /\ Answer(c, <<Msg("NewFile")>>, "WritingFile")
             /\ tar' = [tar EXCEPT ![Head(req[c]).path] = 0]
             /\ tarCur' = Head(req[c]).path
    <3>1. pc = "tar_new" /\ Head(req[c]).path = cur
      BY <1>1, <2>1, Handles
    <3>2. tar'[cur] = 0 /\ tarCur' = cur
      BY <1>2, <2>2, <3>1 DEF TarTypeOK, EntryPoints
    <3> QED
      BY <1>1, <3>1, <3>2 DEF TarSync
  <2>3. CASE Answer(c, <<Error>>, "WaitNewFile") /\ UNCHANGED tarVars
    BY <1>3, <2>1, <2>3, PlainRefusals
  <2> QED
    BY <1>6, <2>2, <2>3 DEF F2TNewFile
<1>7. CASE F2TWriteFile
  <2>1. st[c] \in AtWork /\ req[c] # <<>> /\ Head(req[c]).type = "WriteFile"
    BY <1>2, <1>7 DEF F2TWriteFile, Receives
  <2>2. CASE /\ Answer(c, <<Msg("WriteFile")>>, "WritingFile")
             /\ tar' = [tar EXCEPT ![tarCur] = @ + 1] /\ UNCHANGED tarCur
    <3>1. pc = "tar_write"
      BY <1>1, <2>1, Handles
    <3>2. ~Handled(c) /\ Handled(c)'
      BY <1>1, <2>1, <2>2, AnsweredCall
    <3>3. tarCur = cur /\ tar[cur] = off /\ off < Chunks(cur)
      BY <3>1, <3>2 DEF TarSync
    <3>4. tar'[cur] = off + 1 /\ tarCur' = cur
      BY <1>2, <2>2, <3>1, <3>3 DEF TarTypeOK, EntryPoints
    <3> QED
      BY <1>1, <1>2, <3>1, <3>2, <3>3, <3>4 DEF TarSync
  <2>3. CASE RunError(c) /\ UNCHANGED tarVars
    BY <1>3, <2>1, <2>3, PlainRefusals
  <2> QED
    BY <1>7, <2>2, <2>3 DEF F2TWriteFile
<1>8. CASE F2TEndFile
  <2>1. st[c] \in AtWork /\ req[c] # <<>>
    BY <1>2, <1>8 DEF F2TEndFile, Receives
  <2> QED
    BY <1>3, <1>4, <1>8, <2>1, PlainRefusals DEF F2TEndFile, tarVars
<1>9. CASE F2TClose
  <2>1. st[c] \in AtWork /\ req[c] # <<>>
    BY <1>2, <1>9 DEF F2TClose, Receives
  <2> QED
    BY <1>3, <1>4, <1>9, <2>1, PlainRefusals DEF F2TClose, tarVars
<1> QED
  BY <1>1, <1>5, <1>6, <1>7, <1>8, <1>9 DEF Files2TarNext

(* A step that leaves a writer, its pipes and usbsas alone.                *)
LEMMA TarSyncKept ==
    ASSUME TarSync, Untouched("files2tar"),
           UNCHANGED <<tarVars, pc, wait, cur, off>>
    PROVE  TarSync'
  BY DEF TarSync, Untouched, tarVars, Handled, Answered1, Chunks

(* ImgSync depends on the image, files2fs and the entry usbsas is at only. *)
LEMMA ImgSyncKept ==
    ASSUME ImgSync, Untouched("files2fs"),
           UNCHANGED <<imgVars, pc, wait, cur, off>>
    PROVE  ImgSync'
  BY DEF ImgSync, Untouched, imgVars, Handled, Answered1, Chunks

---------------------------------------------------------------------------
(* Pipes all of whose messages are in a set.                               *)
LEMMA AmongTail ==
    ASSUME NEW R, NEW q \in Seq(R), q # <<>>, NEW S, Among(q, S)
    PROVE  Among(Tail(q), S) /\ Head(q) \in S
<1>1. \A i \in DOMAIN Tail(q) : i + 1 \in DOMAIN q /\ Tail(q)[i] = q[i + 1]
  BY SMT, TailFacts
<1>2. 1 \in DOMAIN q /\ Head(q) = q[1]
  BY SMT
<1> QED
  BY <1>1, <1>2 DEF Among

(* Among is kept when several messages are added,                          *)
LEMMA AmongConcat ==
    ASSUME NEW R, NEW q \in Seq(R), NEW q2 \in Seq(R), NEW S, Among(q, S), Among(q2, S)
    PROVE  Among(q \o q2, S)
<1>1. /\ Len(q) \in Nat /\ Len(q2) \in Nat
      /\ DOMAIN (q \o q2) = 1 .. (Len(q) + Len(q2))
      /\ DOMAIN q = 1 .. Len(q) /\ DOMAIN q2 = 1 .. Len(q2)
  BY SMT, ConcatFacts, EmptyIsZero
<1>2. \A i \in 1 .. (Len(q) + Len(q2)) :
        (q \o q2)[i] = IF i <= Len(q) THEN q[i] ELSE q2[i - Len(q)]
  BY SMT, ConcatFacts
<1>3. \A i \in 1 .. (Len(q) + Len(q2)) :
        (i <= Len(q) => i \in DOMAIN q) /\ (~(i <= Len(q)) => i - Len(q) \in DOMAIN q2)
  BY SMT, <1>1
<1> QED
  BY <1>1, <1>2, <1>3 DEF Among

(* holds of a few messages,                                                *)
LEMMA AmongFew ==
    /\ \A S : Among(<<>>, S)
    /\ \A S, m : m \in S => Among(<<m>>, S)
    /\ \A S, m, n : m \in S /\ n \in S => Among(<<m, n>>, S)
<1>1. /\ DOMAIN <<>> = {}
      /\ \A m : DOMAIN <<m>> = {1}
      /\ \A m, n : DOMAIN <<m, n>> = {1, 2}
  BY SMT
<1> QED
  BY SMT, <1>1 DEF Among

(* and is kept when one is added.                                          *)
LEMMA AmongAppend ==
    ASSUME NEW R, NEW q \in Seq(R), NEW m \in R, NEW S, Among(q, S), m \in S
    PROVE  Among(Append(q, m), S)
<1>1. Append(q, m) = q \o <<m>>
  BY SMT, AppendFacts
<1>2. <<m>> \in Seq(R)
  BY SMT
<1>3. Among(<<m>>, S)
  BY AmongFew
<1> QED
  BY <1>1, <1>2, <1>3, AmongConcat

---------------------------------------------------------------------------
(* The steps of usbsas.                                                    *)

(* It writes neither the states nor the stores of its children.            *)
LEMMA UsbsasFrame ==
    ASSUME ClientNext \/ UsbsasNext
    PROVE  UNCHANGED st /\ UNCHANGED storeVars
<1>1. CASE ClientNext
  BY <1>1 DEF ClientNext, ClientCall, BadRequest, MalformedRequest, CopyStart,
     Wipe, End, ipcVars
<1>2. CASE SendRequest \/ ClientCallOk \/ ClientCallFails
  BY <1>2 DEF SendRequest, ClientCallOk, ClientCallFails
<1>3. CASE \/ WipeStarted \/ WipeZeroed \/ WipeFails \/ ImgDisk \/ ImgDiskFails
           \/ EndSend \/ EndReturn \/ WaitChild
  BY <1>3 DEF WipeStarted, WipeZeroed, WipeFails, ImgDisk, ImgDiskFails,
     EndSend, EndReturn, WaitChild, ipcVars
<1>4. CASE CopyFilesNext
  <2>1. CASE \/ Select \/ GotDevSize \/ TarNext \/ TarFile \/ TarFileFails \/ TarClosed
             \/ AnalyzeProgress \/ AnalyzeDone \/ AnalyzeFails \/ Analyzed
    BY <2>1 DEF Select, GotDevSize, TarNext, TarFile, TarFileFails, TarClosed,
       AnalyzeProgress, AnalyzeDone, AnalyzeFails, Analyzed, ipcVars
  <2>2. CASE \/ InitFs \/ DirNext \/ WriteDir \/ WriteNext \/ WriteFile \/ WriteFileFails
             \/ ForwardBitVec
    BY <2>2 DEF InitFs, DirNext, WriteDir, WriteNext, WriteFile, WriteFileFails,
       ForwardBitVec, ipcVars
  <2>3. CASE \/ StartCopy \/ CopyProgress \/ CopyDone \/ CopyRefused \/ CopyBroken
             \/ UploadProgress \/ Delivered \/ UploadFails \/ TransferAborts
    BY <2>3 DEF StartCopy, CopyProgress, CopyDone, CopyRefused, CopyBroken,
       UploadProgress, Delivered, UploadFails, TransferAborts
  <2> QED
    BY <1>4, <2>1, <2>2, <2>3 DEF CopyFilesNext
<1> QED
  BY <1>1, <1>2, <1>3, <1>4 DEF UsbsasNext

(* The steps that move a transfer forward.                                 *)
Transfers ==
    \/ Select \/ GotDevSize \/ TarNext \/ TarFile \/ TarFileFails \/ TarClosed
    \/ AnalyzeDone \/ Analyzed \/ InitFs \/ DirNext \/ WriteDir \/ WriteNext
    \/ WriteFile \/ WriteFileFails \/ ForwardBitVec \/ StartCopy \/ CopyDone
    \/ CopyRefused \/ Delivered

(* The states before anything is written, and the answers of a transfer.   *)
Sources == {"Init", "DevOpened", "PartitionOpened", "CopyFiles"}

Outcomes == {"CopyDone", "NothingToCopy", "NotEnoughSpace"}

(* The others: they stay where they are, or leave the transfer.            *)
Leaving ==
    /\ pc \notin MidPoints
    /\ pc' \notin TarPoints \cup FilePoints \cup FinalPoints
    /\ pc' \notin {"cf_size", "analyze", "fs_init", "fs_close"}
    /\ pc' = "fs_size" => state' = "Wipe"
    /\ state' \notin {"WriteFiles", "UploadOrCmd"}
    /\ state' = "CopyFiles" => pc' = "select"
    /\ state' \in Sources => state \in Sources
    /\ state' = "ImgDisk" => state \in {"Init", "ImgDisk"}
    /\ answers' = <<>> \/ \E a : a \notin Outcomes /\ answers' = <<a>>

Aside == /\ UNCHANGED <<files, dirs, filtered, errors, dirty, hidden, todo, cur>>
         /\ UNCHANGED <<state, pc, dest, answers>> \/ Leaving

(* A run that fails outside the loops leaves for the end of the transfer.  *)
LEMMA FailsAside ==
    ASSUME ControlInv, pc \notin MidPoints \cup {"recv", "exit"}, RunFails
    PROVE  Leaving
<1>1. answers' = <<"Error">>
  BY FirstAnswer DEF ControlInv, RunFails
<1> QED
  BY <1>1 DEF RunFails, Leaving, TarPoints, FilePoints, FinalPoints, Sources,
     Outcomes

(* A step of usbsas that is not one of the transfer leaves all of it       *)
(* alone.                                                                  *)
LEMMA AsideSteps ==
    ASSUME SessionInv, ClientNext \/ UsbsasNext, ~Transfers
    PROVE  Aside
<1> DEFINE Data == <<files, dirs, filtered, errors, dirty, hidden, todo, cur>>
<1>1. ControlInv /\ At(state, pc, dest)
  BY DEF SessionInv, ControlInv
<1>2. CASE \/ SendRequest \/ EndSend \/ AnalyzeProgress \/ CopyProgress \/ UploadProgress
  BY <1>2 DEF SendRequest, EndSend, AnalyzeProgress, CopyProgress,
     UploadProgress, orchVars, ctlVars, jobVars, loopVars, reportVars, Aside
<1>3. CASE \/ WipeFails \/ ImgDiskFails \/ AnalyzeFails \/ CopyBroken \/ UploadFails
           \/ TransferAborts
  <2>1. RunFails /\ UNCHANGED Data
    BY <1>3 DEF WipeFails, ImgDiskFails, AnalyzeFails, CopyBroken, UploadFails,
       TransferAborts, jobVars, loopVars, reportVars
  <2>2. pc \notin MidPoints \cup {"recv", "exit"}
    BY <1>3 DEF WipeFails, ImgDiskFails, AnalyzeFails, CopyBroken, UploadFails,
       TransferAborts, CallFails, MidPoints
  <2> QED
    BY <1>1, <2>1, <2>2, FailsAside DEF Aside
<1>4. CASE EndReturn \/ WaitChild
  <2>1. /\ UNCHANGED Data /\ pc \in {"end", "wait"} /\ pc' \in {"end", "wait", "exit"}
        /\ answers' = answers \/ answers' = Append(answers, "End")
        /\ state' \in {state, "End"}
    BY <1>4 DEF EndReturn, WaitChild, jobVars, loopVars, reportVars
  <2>2. answers' \in {<<>>, <<"End">>} /\ state \in IdleStates
    BY <1>1, <2>1, FirstAnswer, PointStates DEF ControlInv
  <2> QED
    BY <2>1, <2>2 DEF Aside, Leaving, IdleStates, MidPoints, TarPoints,
       FilePoints, FinalPoints, Sources, Outcomes
<1>5. CASE ClientNext
  <2>1. UNCHANGED Data /\ pc = "recv" /\ state \in IdleStates
    BY <1>1, <1>5, PointStates DEF ClientNext, ClientCall, BadRequest,
       MalformedRequest, CopyStart, Wipe, End, Asked, jobVars, loopVars,
       reportVars
  <2>2. CASE ClientCall
    <3>1. PICK v \in Serves : pc' = v[3]
      BY <2>2 DEF ClientCall
    <3>2. v[3] \notin TarPoints \cup FilePoints \cup FsPoints \cup FinalPoints
          /\ v[3] \notin {"cf_size", "analyze"}
      BY ServedAt
    <3> QED
      BY <2>1, <2>2, <3>1, <3>2 DEF ClientCall, Aside, Leaving, IdleStates,
         MidPoints, FsPoints, Sources
  <2>3. CASE BadRequest \/ MalformedRequest \/ CopyStart \/ Wipe \/ End
    BY <2>1, <2>3 DEF BadRequest, MalformedRequest, CopyStart, Wipe, End, Aside,
       Leaving, IdleStates, MidPoints, TarPoints, FilePoints, FinalPoints,
       Sources, Outcomes
  <2> QED
    BY <1>5, <2>2, <2>3 DEF ClientNext
<1>6. CASE ClientCallOk \/ ClientCallFails
  <2>1. PICK v \in Serves :
          /\ state = v[1] /\ pc = v[3] /\ pc' \in {"recv", "img_start"}
          /\ \/ state' = v[4] /\ answers' \in {<<>>, <<v[2]>>}
             \/ state' \in {state, "WaitEnd"} /\ answers' = <<"Error">>
    BY <1>6 DEF ClientCallOk, ClientCallFails, CallOk, CallFails
  <2>2. UNCHANGED Data
    BY <1>6 DEF ClientCallOk, ClientCallFails, jobVars, loopVars, reportVars
  <2>3. /\ v[1] \in {"Init", "DevOpened", "PartitionOpened", "TransferDone"}
        /\ v[4] \in Sources => v[1] \in Sources
        /\ v[4] \notin {"CopyFiles", "WriteFiles", "UploadOrCmd"}
        /\ v[4] = "ImgDisk" => v[1] = "Init"
        /\ v[2] \notin Outcomes
    BY ServesRows DEF Sources, Outcomes
  <2>4. v[3] \notin MidPoints
    BY ServedAt DEF FilePoints, MidPoints
  <2> QED
    BY <2>1, <2>2, <2>3, <2>4 DEF Aside, Leaving, TarPoints, FilePoints,
       FinalPoints, Sources, Outcomes
<1>7. CASE WipeStarted \/ WipeZeroed
  <2>1. /\ UNCHANGED Data /\ UNCHANGED <<state, answers>> /\ pc \in {"wipe", "wiping"}
        /\ pc' \in {"wiping", "fs_size"}
    BY <1>7 DEF WipeStarted, WipeZeroed, jobVars, loopVars, reportVars
  <2>2. state = "Wipe" /\ answers = <<>>
    BY <1>1, <2>1, PointStates DEF ControlInv
  <2> QED
    BY <2>1, <2>2 DEF Aside, Leaving, MidPoints, TarPoints, FilePoints,
       FinalPoints, Sources
<1>8. CASE ImgDisk
  <2>1. /\ UNCHANGED Data /\ pc \in ImgPoints
        /\ \/ UNCHANGED <<state, answers>> /\ pc' \in ImgPoints
           \/ RunEnds("ImgDisk", "WaitEnd")
    BY <1>8 DEF ImgDisk, CallOk, jobVars, reportVars, ImgPoints
  <2>2. state = "ImgDisk" /\ answers = <<>>
    BY <1>1, <2>1, PointStates DEF ControlInv, ImgPoints
  <2> QED
    BY <2>1, <2>2, FirstAnswer DEF Aside, Leaving, MidPoints, TarPoints,
       FilePoints, FinalPoints, Sources, ImgPoints, RunEnds, Outcomes
<1> QED
  BY <1>2, <1>3, <1>4, <1>5, <1>6, <1>7, <1>8 DEF UsbsasNext, CopyFilesNext,
     Transfers

---------------------------------------------------------------------------
(* The pipes, as usbsas reads and writes them.                             *)
LEMMA UsbsasRsps ==
    ASSUME SessionInv, ClientNext \/ UsbsasNext, NEW c \in Children, NEW S, Among(rsp[c], S)
    PROVE  Among(rsp'[c], S)
<1>1. /\ c \in Procs /\ rsp \in [Procs -> Seq(Rsps)] /\ rsp[c] \in Seq(Rsps)
      /\ Children \subseteq Procs
      /\ {"fs2dev", "analyzer", "uploader"} \subseteq Children
  BY Names DEF SessionInv, TypeInv, IpcTypeOK
<1>2. ASSUME NEW d \in Children, Reads(d)
      PROVE  rsp'[c] = rsp[c] \/ (rsp[c] # <<>> /\ rsp'[c] = Tail(rsp[c]))
  BY <1>1, <1>2 DEF Reads
<1>3. CASE Reads(c) \/ \E d \in Children : Reads(d)
  BY <1>1, <1>2, <1>3, AmongTail
<1>4. CASE UNCHANGED rsp
  BY <1>4
<1>5. \/ UNCHANGED rsp
      \/ \E d \in Children : Reads(d)
  BY <1>1, UsbsasReads DEF SendRequest, EndSend, Silent, Progressing, CallOver,
     ReadEof
<1> QED
  BY <1>3, <1>4, <1>5

(* A request is never an unlock byte.                                      *)
LEMMA RequestNotByte ==
    ASSUME SessionInv, pc \in DOMAIN CallOf
    PROVE  Request \in NotRead
<1>1. Request \in Reqs /\ Request.type # "Unlock"
  BY RequestType, TypeInvTypeOK DEF SessionInv, TypeInv, OrchTypeOK
<1> QED
  BY <1>1 DEF NotRead

(* Only the end of the archive makes tar2files read it.                    *)
LEMMA UsbsasBytes ==
    ASSUME SessionInv, ClientNext \/ UsbsasNext, ~TarClosed,
           Among(req["tar2files"], NotRead)
    PROVE  Among(req'["tar2files"], NotRead)
<1> DEFINE c == "tar2files"
<1>1. /\ c \in Procs /\ req \in [Procs -> Seq(Reqs)] /\ req[c] \in Seq(Reqs)
      /\ "fs2dev" \in Procs /\ "files2tar" \in Procs
  BY Names DEF SessionInv, TypeInv, IpcTypeOK, Procs, Children
<1>2. CASE SendRequest
  <2>1. Request \in NotRead /\ Request \in Reqs
    BY <1>2, RequestNotByte DEF SendRequest, NotRead
  <2>2. req'[c] = req[c] \/ req'[c] = Append(req[c], Request)
    BY <1>1, <1>2 DEF SendRequest
  <2>3. Among(Append(req[c], Request), NotRead)
    BY <1>1, <2>1, AmongAppend
  <2> QED
    BY <2>2, <2>3
<1>3. CASE EndSend
  <2> DEFINE u == Unlock(EndByte(c))
             m == Msg("End")
  <2>1. u \in Reqs /\ m \in Reqs /\ u.value = 0 /\ m.type = "End"
    <3>1. u \in Reqs /\ u.value = 0
      BY DEF Unlock, EndByte, Reqs
    <3>2. m \in Reqs /\ m.type = "End"
      BY PlainMessage DEF ReqTypes, Msg
    <3> QED
      BY <3>1, <3>2
  <2>2. u \in NotRead /\ m \in NotRead
    BY SMT, <2>1 DEF NotRead
  <2>3. \/ req'[c] = req[c]
        \/ req'[c] = req[c] \o <<u>> \o <<m>>
        \/ req'[c] = req[c] \o <<>> \o <<m>>
    BY <1>1, <1>3 DEF EndSend
  <2> HIDE DEF u, m
  <2>4. \/ req'[c] = req[c]
        \/ req'[c] = Append(Append(req[c], u), m)
        \/ req'[c] = Append(req[c], m)
    BY <1>1, <2>1, <2>3, EndMessages
  <2>5. Append(req[c], u) \in Seq(Reqs) /\ Among(Append(req[c], u), NotRead)
    BY <1>1, <2>1, <2>2, AmongAppend, EndMessages
  <2>6. /\ Among(Append(req[c], m), NotRead)
        /\ Among(Append(Append(req[c], u), m), NotRead)
    BY <1>1, <2>1, <2>2, <2>5, AmongAppend
  <2> QED
    BY <2>4, <2>6
<1>4. CASE Select \/ GotDevSize \/ Wipe \/ Delivered
  <2>1. req'[c] = req[c]
    BY <1>1, <1>4 DEF Select, GotDevSize, Wipe, Delivered, WriteUnlock
  <2> QED
    BY <2>1
<1>5. CASE UNCHANGED req
  BY <1>5
<1>6. CASE ClientNext
  BY <1>4, <1>5, <1>6 DEF ClientNext, ClientCall, BadRequest, MalformedRequest,
     CopyStart, End, ipcVars
<1>7. CASE ClientCallOk \/ ClientCallFails \/ WipeStarted \/ WipeZeroed \/ WipeFails \/ ImgDisk
           \/ ImgDiskFails \/ EndReturn \/ WaitChild
  BY <1>5, <1>7 DEF ClientCallOk, ClientCallFails, WipeStarted, WipeZeroed,
     WipeFails, ImgDisk, ImgDiskFails, EndReturn, WaitChild, ipcVars
<1>8. CASE CopyFilesNext
  <2>1. CASE \/ TarNext \/ TarFile \/ TarFileFails \/ AnalyzeProgress \/ AnalyzeDone
             \/ AnalyzeFails \/ Analyzed \/ InitFs \/ DirNext \/ WriteDir \/ WriteNext
    BY <1>5, <2>1 DEF TarNext, TarFile, TarFileFails, AnalyzeProgress,
       AnalyzeDone, AnalyzeFails, Analyzed, InitFs, DirNext, WriteDir,
       WriteNext, ipcVars
  <2>2. CASE \/ WriteFile \/ WriteFileFails \/ ForwardBitVec \/ StartCopy \/ CopyProgress
             \/ CopyDone \/ CopyRefused \/ CopyBroken \/ UploadProgress \/ UploadFails
             \/ TransferAborts
    BY <1>5, <2>2 DEF WriteFile, WriteFileFails, ForwardBitVec, StartCopy,
       CopyProgress, CopyDone, CopyRefused, CopyBroken, UploadProgress,
       UploadFails, TransferAborts
  <2> QED
    BY <1>4, <1>8, <2>1, <2>2 DEF CopyFilesNext
<1> QED
  BY <1>2, <1>3, <1>6, <1>7, <1>8 DEF UsbsasNext

(* TarInv is kept by every step of usbsas.                                 *)
LEMMA UsbsasTar ==
    ASSUME SessionInv, TarInv, ClientNext \/ UsbsasNext
    PROVE  TarInv'
<1>1. UNCHANGED <<st, tar, tarCur, tarClosed>>
  BY UsbsasFrame DEF storeVars, tarVars
<1>2. \A e : InTar(e)' = InTar(e)
  BY <1>1 DEF InTar
<1>3. Archived' = Archived
  BY <1>2 DEF Archived
<1>4. {"files2tar", "analyzer"} \subseteq Children /\ "files2tar" \in Procs
  BY Names DEF Children, Procs
<1>5. WholeInv'
  BY <1>1, <1>2 DEF TarInv, WholeInv
<1>6. VerdictInv'
  BY <1>3, <1>4, UsbsasRsps DEF TarInv, VerdictInv
<1>7. ASSUME ~tarClosed PROVE ~TarClosed
  <2>1. Among(rsp["files2tar"], Other("Close")) /\ rsp["files2tar"] \in Seq(Rsps)
    BY <1>4, <1>7 DEF TarInv, ClosedInv, SessionInv, TypeInv, IpcTypeOK
  <2>2. rsp["files2tar"] # <<>> => Head(rsp["files2tar"]).type # "Close"
    BY <2>1, AmongTail DEF Other
  <2> QED
    BY <2>2, WriterCalls, WriterRequests DEF TarClosed, CallOk, Read
<1>8. ASSUME ~TarClosed, state \notin {"WriteFiles", "UploadOrCmd"}
      PROVE  state' \notin {"WriteFiles", "UploadOrCmd"}
  <2>1. CASE Aside
    BY <1>8, <2>1 DEF Aside, Leaving
  <2>2. CASE \/ Select \/ GotDevSize \/ TarNext \/ TarFile \/ TarFileFails \/ AnalyzeDone
             \/ Analyzed \/ InitFs \/ DirNext \/ WriteDir
    BY <1>8, <2>2 DEF Select, GotDevSize, TarNext, TarFile, TarFileFails,
       AnalyzeDone, Analyzed, InitFs, DirNext, WriteDir, GiveUp, RunEnds,
       RunFails, StartTar
  <2>3. CASE \/ WriteNext \/ WriteFile \/ WriteFileFails \/ ForwardBitVec \/ StartCopy
             \/ CopyDone \/ CopyRefused \/ Delivered
    BY <1>8, <2>3 DEF WriteNext, WriteFile, WriteFileFails, ForwardBitVec,
       StartCopy, CopyDone, CopyRefused, Delivered, RunEnds, RunFails
  <2> QED
    BY <1>8, <2>1, <2>2, <2>3, AsideSteps DEF Transfers
<1>9. ClosedInv'
  BY <1>1, <1>4, <1>7, <1>8, UsbsasRsps, UsbsasBytes DEF TarInv, ClosedInv
<1> QED
  BY <1>5, <1>6, <1>9 DEF TarInv

---------------------------------------------------------------------------
(* The archive, as files2tar writes it.                                    *)
LEMMA AnswerAmong ==
    ASSUME IpcTypeOK, NEW c \in Procs, NEW rs \in Seq(Rsps), NEW s, NEW S,
           Answer(c, rs, s) \/ Emit(c, rs, s), Among(rsp[c], S), Among(rs, S)
    PROVE  Among(rsp'[c], S)
<1>1. rsp'[c] = rsp[c] \o rs /\ rsp[c] \in Seq(Rsps)
  BY Touches DEF IpcTypeOK
<1> QED
  BY <1>1, AmongConcat

(* A refusal is not an answer that tells of success,                       *)
LEMMA RefusesAmong ==
    ASSUME IpcTypeOK, NEW c \in Procs, NEW t, t \notin Spoilt, Refuses(c),
           Among(rsp[c], Other(t))
    PROVE  Among(rsp'[c], Other(t))
<1>1. PICK rs \in Seq(Rsps) : /\ \E s : Answer(c, rs, s)
                              /\ \A i \in DOMAIN rs : rs[i].type \in Spoilt
  BY DEF Refuses
<1>2. \A i \in DOMAIN rs : rs[i] \in Rsps
  BY SMT
<1>3. Among(rs, Other(t))
  BY <1>1, <1>2 DEF Among, Other
<1> QED
  BY <1>1, <1>3, AnswerAmong

(* and neither is an answer of another type.                               *)
LEMMA RepliesAmong ==
    ASSUME IpcTypeOK, NEW c \in Procs, NEW t, NEW u \in RspTypes \ {t}, NEW s,
           Answer(c, <<Msg(u)>>, s) \/ Emit(c, <<Msg(u)>>, s), Among(rsp[c], Other(t))
    PROVE  Among(rsp'[c], Other(t))
<1>1. Msg(u) \in Rsps /\ Msg(u).type = u
  BY PlainMessage DEF Msg
<1>2. <<Msg(u)>> \in Seq(Rsps) /\ Among(<<Msg(u)>>, Other(t))
  BY <1>1, SmallAnswers, AmongFew DEF Other
<1> QED
  BY <1>2, AnswerAmong

(* A step of files2tar leaves the other entries whole, and does not touch  *)
(* an archive that is closed.                                              *)
TarKept ==
    /\ WholeInv'
    /\ tarClosed => UNCHANGED <<tar, tarClosed>>
    /\ Among(rsp["files2tar"], Other("Close")) =>
         tarClosed' \/ Among(rsp'["files2tar"], Other("Close"))

(* What each step of files2tar does to the archive.                        *)
LEMMA Files2TarKeeps ==
    ASSUME SessionInv, WriterInv, TarSync, WholeInv, Files2TarNext
    PROVE  TarKept
<1> DEFINE c == "files2tar"
<1>1. /\ c \in Procs /\ c \in Writers /\ IpcTypeOK /\ TarTypeOK
      /\ {"WaitNewFile", "WritingFile"} \subseteq AtWork
      /\ pc \in EntryPoints => cur \in Entries
      /\ {"NewFile", "WriteFile", "EndFile"} \subseteq RspTypes \ {"Close"}
      /\ "Close" \notin Spoilt
  BY DEF SessionInv, TypeInv, StoreTypeOK, OrchTypeOK, AtWork, Writers, Procs,
     Children, RspTypes, ReqTypes, Spoilt
<1>2. \A rs, s : Answer(c, rs, s) => st'[c] = s
  BY <1>1, Touches
<1>3. \A e : tar'[e] = tar[e] => InTar(e)' = InTar(e)
  BY DEF InTar
<1>4. ASSUME Refuses(c), UNCHANGED tarVars,
             \/ st'[c] \in {"WaitEnd", "End"}
             \/ st'[c] = "WaitNewFile" /\ st[c] \in {"Locked", "WaitNewFile"}
      PROVE  TarKept
  <2>1. Among(rsp[c], Other("Close")) => Among(rsp'[c], Other("Close"))
    BY <1>1, <1>4, RefusesAmong
  <2>2. WholeInv'
    BY <1>3, <1>4 DEF WholeInv, tarVars
  <2> QED
    BY <1>4, <2>1, <2>2 DEF TarKept, tarVars
<1>5. CASE F2TUnlock \/ F2TEnd \/ F2TUnexpected \/ F2TWaitEnd
  <2>1. Refuses(c) /\ UNCHANGED tarVars
    BY <1>5, PlainRefusals DEF F2TUnlock, F2TEnd, F2TUnexpected, F2TWaitEnd
  <2>2. \/ st'[c] \in {"WaitEnd", "End"}
        \/ st'[c] = "WaitNewFile" /\ st[c] = "Locked"
    BY <1>2, <1>5 DEF F2TUnlock, F2TEnd, F2TUnexpected, F2TWaitEnd, RunError,
       WaitEndOnce, Receives
  <2> QED
    BY <1>4, <2>1, <2>2
<1>6. CASE F2TNewFile
  <2>1. st[c] = "WaitNewFile" /\ req[c] # <<>> /\ Head(req[c]).type = "NewFile"
    BY <1>6 DEF F2TNewFile, Receives
  <2>2. CASE /\ Answer(c, <<Msg("NewFile")>>, "WritingFile")
             /\ tar' = [tar EXCEPT ![Head(req[c]).path] = 0]
             /\ tarCur' = Head(req[c]).path
             /\ UNCHANGED tarClosed
    <3>1. st'[c] = "WritingFile" /\ ~tarClosed
      BY <1>2, <2>1, <2>2 DEF WholeInv
    <3>2. \A e \in Entries : e # tarCur' => tar'[e] = tar[e]
      BY <1>1, <2>2 DEF TarTypeOK
    <3>3. WholeInv'
      BY <1>3, <2>1, <2>2, <3>1, <3>2 DEF WholeInv
    <3> QED
      BY <1>1, <2>2, <3>1, <3>3, RepliesAmong DEF TarKept
  <2>3. CASE Answer(c, <<Error>>, "WaitNewFile") /\ UNCHANGED tarVars
    BY <1>2, <1>4, <2>1, <2>3, PlainRefusals
  <2> QED
    BY <1>6, <2>2, <2>3 DEF F2TNewFile
<1>7. CASE F2TWriteFile
  <2>1. st[c] = "WritingFile" /\ req[c] # <<>>
    BY <1>7 DEF F2TWriteFile, Receives
  <2>2. CASE /\ Answer(c, <<Msg("WriteFile")>>, "WritingFile")
             /\ tar' = [tar EXCEPT ![tarCur] = @ + 1]
             /\ UNCHANGED <<tarCur, tarClosed>>
    <3>1. st'[c] = "WritingFile" /\ ~tarClosed
      BY <1>2, <2>1, <2>2 DEF WholeInv
    <3>2. \A e \in Entries : e # tarCur' => tar'[e] = tar[e]
      BY <1>1, <2>2 DEF TarTypeOK
    <3>3. WholeInv'
      BY <1>3, <2>1, <2>2, <3>1, <3>2 DEF WholeInv
    <3> QED
      BY <1>1, <2>2, <3>1, <3>3, RepliesAmong DEF TarKept
  <2>3. CASE RunError(c) /\ UNCHANGED tarVars
    BY <1>2, <1>4, <2>1, <2>3, PlainRefusals DEF RunError
  <2> QED
    BY <1>7, <2>2, <2>3 DEF F2TWriteFile
<1>8. CASE F2TEndFile
  <2>1. /\ st[c] = "WritingFile" /\ req[c] # <<>> /\ Head(req[c]).type = "EndFile"
        /\ UNCHANGED tarVars
    BY <1>8 DEF F2TEndFile, Receives
  <2>2. CASE Answer(c, <<Msg("EndFile")>>, "WaitNewFile")
    <3>1. pc = "tar_end"
      BY <1>1, <2>1, Handles
    <3>2. InTar(tarCur) /\ \A e \in Entries \ {tarCur} : tar[e] = -1 \/ InTar(e)
      BY <2>1, <3>1 DEF TarSync, WholeInv, InTar
    <3>3. WholeInv'
      BY <1>2, <1>3, <2>1, <2>2, <3>2 DEF WholeInv, tarVars
    <3> QED
      BY <1>1, <2>1, <2>2, <3>3, RepliesAmong DEF TarKept, tarVars
  <2>3. CASE RunError(c)
    BY <1>2, <1>4, <2>1, <2>3, PlainRefusals DEF RunError
  <2> QED
    BY <1>8, <2>2, <2>3 DEF F2TEndFile
<1>9. CASE F2TClose
  <2>1. st[c] = "WaitNewFile" /\ req[c] # <<>> /\ UNCHANGED <<tar, tarCur>>
    BY <1>9 DEF F2TClose, Receives
  <2>2. CASE Answer(c, <<Msg("Close")>>, "WaitEnd") /\ tarClosed' = TRUE
    BY <1>2, <1>3, <2>1, <2>2 DEF WholeInv, TarKept
  <2>3. CASE RunError(c) /\ UNCHANGED tarClosed
    BY <1>2, <1>4, <2>1, <2>3, PlainRefusals DEF RunError, tarVars
  <2> QED
    BY <1>9, <2>2, <2>3 DEF F2TClose
<1> QED
  BY <1>5, <1>6, <1>7, <1>8, <1>9 DEF Files2TarNext

(* An answer other than Analyze is no verdict.                             *)
LEMMA OtherVerdicts == \A T : Other("Analyze") \subseteq Verdicts(T)
  BY DEF Other, Verdicts

(* TarInv is kept by every step of files2tar.                              *)
LEMMA Files2TarTar ==
    ASSUME SessionInv, WriterInv, TarSync, TarInv, Files2TarStep
    PROVE  TarInv'
<1>1. /\ Files2TarNext /\ UNCHANGED state /\ IpcTypeOK
      /\ {"tar2files", "analyzer"} \subseteq Procs \ {"files2tar"}
  BY DEF Files2TarStep, orchVars, ctlVars, SessionInv, TypeInv, Procs, Children
<1>2. Untouched("tar2files") /\ Untouched("analyzer")
  BY <1>1, ChildrenAlone DEF Alone
<1>3. TarKept
  BY <1>1, Files2TarKeeps DEF TarInv
<1>4. ClosedInv'
  <2> SUFFICES ASSUME ~tarClosed' PROVE ClosedInv'
    BY DEF ClosedInv
  <2>1. ~tarClosed
    BY <1>3 DEF TarKept
  <2>2. Among(rsp'["files2tar"], Other("Close"))
    BY <1>3, <2>1 DEF TarInv, ClosedInv, TarKept
  <2>3. Among(req'["tar2files"], NotRead) /\ Among(rsp'["analyzer"], Other("Analyze"))
    BY <1>2, <2>1 DEF TarInv, ClosedInv, Untouched
  <2>4. /\ st'["tar2files"] \notin {"LoadMetadata", "MainLoop"}
        /\ state' \notin {"WriteFiles", "UploadOrCmd"}
    BY <1>1, <1>2, <2>1 DEF TarInv, ClosedInv, Untouched
  <2> QED
    BY <2>2, <2>3, <2>4 DEF ClosedInv
<1>5. VerdictInv'
  <2>1. CASE tarClosed
    <3>1. Archived' = Archived
      BY <1>3, <2>1 DEF TarKept, Archived, InTar
    <3> QED
      BY <1>2, <3>1 DEF TarInv, VerdictInv, Untouched
  <2>2. CASE ~tarClosed
    BY <1>2, <2>2, OtherVerdicts DEF TarInv, VerdictInv, ClosedInv, Untouched,
       Among
  <2> QED
    BY <2>1, <2>2
<1> QED
  BY <1>3, <1>4, <1>5 DEF TarInv, TarKept
=============================================================================
