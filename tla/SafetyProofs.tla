---------------------------- MODULE SafetyProofs ----------------------------
(***************************************************************************)
(* The theorems about a session of usbsas: what holds in every session,    *)
(* for every selection of files, every fault of a child and every crash.   *)
(*                                                                         *)
(* The inductive invariants of SessionInvariants are put together here     *)
(* from the lemmas of the modules it extends, after the one that is about  *)
(* how a copy ends (FinalInv).                                             *)
(***************************************************************************)
EXTENDS LockstepProofs, TransferProofs

(* A leaf that names no prover is for Zenon.                               *)
USE Zenon

---------------------------------------------------------------------------
(* The end of a copy that no write error interrupts.                       *)
LEMMA AmongTailGrows ==
    ASSUME NEW R, NEW q \in Seq(R), q # <<>>, NEW m \in R, NEW S, Among(Tail(q), S),
           m \in S
    PROVE  q \o <<m>> # <<>> /\ Among(Tail(q \o <<m>>), S)
<1> DEFINE q2 == q \o <<m>>
<1>1. /\ q2 \in Seq(R) /\ Len(q2) = Len(q) + 1 /\ Len(q) \in Nat /\ Len(q) > 0
      /\ \A i \in 1 .. Len(q2) : q2[i] = IF i <= Len(q) THEN q[i] ELSE m
  BY SMT
<1>2. q2 # <<>>
  BY SMT, <1>1
<1> HIDE DEF q2
<1>3. /\ DOMAIN Tail(q2) = 1 .. Len(q)
      /\ \A i \in 1 .. Len(q) : Tail(q2)[i] = q2[i + 1]
  BY SMT, <1>1, <1>2
<1>4. \A i \in 1 .. Len(q) : i + 1 <= Len(q) => q[i + 1] \in S
  <2>1. /\ DOMAIN Tail(q) = 1 .. Len(q) - 1
        /\ \A i \in 1 .. Len(q) - 1 : Tail(q)[i] = q[i + 1]
    BY SMT
  <2>2. \A i \in 1 .. Len(q) : i + 1 <= Len(q) => i \in 1 .. Len(q) - 1
    BY SMT, <1>1
  <2> QED
    BY <2>1, <2>2 DEF Among
<1>5. \A i \in 1 .. Len(q) : i + 1 \in 1 .. Len(q2)
  BY SMT, <1>1
<1>6. \A i \in 1 .. Len(q) : q2[i + 1] \in S
  BY <1>1, <1>4, <1>5
<1> QED
  BY <1>2, <1>3, <1>6 DEF Among, q2

(* FinalInv is kept by fs2dev, if no write to the device fails.            *)
LEMMA Fs2DevFinal ==
    ASSUME "dev_write" \notin Faults, SessionInv, FinalInv, Fs2DevStep
    PROVE  FinalInv'
<1> DEFINE c == "fs2dev"
           Unbegun == Among(rsp[c], Other("StartCopy"))
<1>1. UNCHANGED <<pc, wait, answers>> /\ Fs2DevNext
  BY DEF Fs2DevStep, orchVars, ctlVars
<1>2. /\ c \in Procs /\ IpcTypeOK /\ req[c] \in Seq(Reqs) /\ rsp[c] \in Seq(Rsps)
      /\ Fs2DevOK(st[c], req[c], rsp[c], wait = c, pc)
      /\ "StartCopy" \notin Spoilt
      /\ {"DevSize", "LoadBitVec", "Wipe"} \subseteq RspTypes \ {"StartCopy"}
  BY DEF SessionInv, PipeInv, TypeInv, IpcTypeOK, ChildOK, PipesOK, Children,
     Procs, RspTypes, ReqTypes, Spoilt
<1>3. ASSUME req[c] # <<>> PROVE pc # "copying" /\ Unbegun
  BY <1>3 DEF FinalInv, Begun, Handled
<1>4. ASSUME req[c] # <<>>, Unbegun' PROVE FinalInv'
  BY <1>1, <1>3, <1>4 DEF FinalInv
<1>5. CASE F2DUnlock \/ F2DEnd \/ F2DUnexpected \/ F2DWaitEnd
  <2>1. WaitEndOnce(c) => Refuses(c)
    BY Refusals DEF WaitEndOnce, Receives, ReceivesOther
  <2>2. Refuses(c)
    BY ZenonT(30), <1>5, <2>1, Refusals DEF F2DUnlock, F2DEnd, F2DUnexpected,
       F2DWaitEnd, Receives, ReceivesOther
  <2>3. req[c] # <<>>
    BY <2>2 DEF Refuses
  <2> QED
    BY <1>2, <1>3, <1>4, <2>2, <2>3, RefusesAmong
<1>6. CASE F2DDevSize \/ F2DLoadBitVec \/ F2DWipe
  <2>1. /\ req[c] # <<>>
        /\ \E t \in RspTypes \ {"StartCopy"} : \E s : Answer(c, <<Msg(t)>>, s)
    BY <1>2, <1>6 DEF F2DDevSize, F2DLoadBitVec, F2DWipe, Receives
  <2> QED
    BY <1>2, <1>3, <1>4, <2>1, RepliesAmong
<1>7. CASE F2DStartCopy
  <2>1. /\ st[c] = "BitVecLoaded" /\ req[c] # <<>> /\ Head(req[c]).type = "StartCopy"
        /\ Answer(c, <<Msg("StartCopy")>>, "Copying")
    BY <1>7 DEF F2DStartCopy, Receives
  <2>2. wait = c /\ Len(req[c]) = 1 /\ rsp[c] = <<>> /\ pc \in DOMAIN DevAsks /\ req[c][1].type = DevAsks[pc]
    BY <1>2, <2>1 DEF Fs2DevOK, Quiet, Parked
  <2>3. Head(req[c]) = req[c][1] /\ Tail(req[c]) = <<>>
    BY <1>2, <2>1, <2>2, TailOfOne
  <2>4. pc = "startcopy"
    <3>1. \A p \in DOMAIN DevAsks : DevAsks[p] = "StartCopy" => p = "startcopy"
      BY SMT DEF DevAsks
    <3> QED
      BY <2>1, <2>2, <2>3, <3>1
  <2>5. req'[c] = Tail(req[c]) /\ rsp'[c] = rsp[c] \o <<Msg("StartCopy")>>
    BY <1>2, <2>1, Touches
  <2>6. \A m : <<>> \o <<m>> = <<m>> /\ <<m>> # <<>> /\ Tail(<<m>>) = <<>>
    BY SMT
  <2>7. /\ rsp'[c] # <<>> /\ Among(Tail(rsp'[c]), Progress) /\ req'[c] = <<>>
        /\ wait' = c /\ pc' = "startcopy"
    BY <1>1, <2>2, <2>3, <2>4, <2>5, <2>6, AmongFew
  <2>8. Begun'
    BY <2>7 DEF Begun, Handled
  <2> QED
    BY <1>1, <2>4, <2>8 DEF FinalInv
<1>8. CASE F2DWriteGroup \/ F2DStatusDone
  <2>1. PICK t \in {"CopyStatus", "CopyStatusDone"} : \E s : Emit(c, <<Msg(t)>>, s)
    BY <1>8 DEF F2DWriteGroup, F2DStatusDone
  <2>2. /\ Msg(t) \in Rsps /\ Msg(t) \in Progress /\ t \in RspTypes \ {"StartCopy"}
        /\ <<Msg(t)>> \in Seq(Rsps) /\ Among(<<Msg(t)>>, Progress)
    BY SMT, AmongFew, Names DEF Progress, Msg, RspTypes
  <2>3. req'[c] = req[c] /\ rsp'[c] = rsp[c] \o <<Msg(t)>>
    BY <1>2, <2>1, Touches
  <2>4. Among(rsp[c], Progress) => Among(rsp'[c], Progress)
    BY <1>2, <2>2, <2>3, AmongConcat
  <2>5. Unbegun => Unbegun'
    BY <1>2, <2>1, <2>2, RepliesAmong
  <2>6. ASSUME Begun PROVE Begun'
    <3>1. rsp[c] # <<>> /\ Among(Tail(rsp[c]), Progress)
      BY <2>6 DEF Begun
    <3>2. rsp'[c] # <<>> /\ Among(Tail(rsp'[c]), Progress)
      BY <1>2, <2>2, <2>3, <3>1, AmongTailGrows
    <3> QED
      BY <1>1, <2>3, <2>6, <3>2 DEF Begun, Handled
  <2> QED
    BY <1>1, <2>3, <2>4, <2>5, <2>6 DEF FinalInv
<1>9. CASE F2DWriteFails
  BY <1>9 DEF F2DWriteFails
<1> QED
  BY <1>1, <1>5, <1>6, <1>7, <1>8, <1>9 DEF Fs2DevNext

(* FinalInv is kept by every step of a child then.                         *)
LEMMA ChildrenFinal ==
    ASSUME "dev_write" \notin Faults, SessionInv, FinalInv, ChildNext \/ Crash
    PROVE  FinalInv'
<1>1. UNCHANGED <<pc, wait, answers>>
  BY ChildrenFrame DEF orchVars, ctlVars
<1>2. CASE req'["fs2dev"] = req["fs2dev"] /\ rsp'["fs2dev"] = rsp["fs2dev"]
  BY <1>1, <1>2 DEF FinalInv, Begun, Handled
<1> QED
  BY <1>2, Fs2DevApart, Fs2DevFinal

(* What usbsas does during a copy.                                         *)
LEMMA AtCopying ==
    ASSUME SessionInv, ClientNext \/ UsbsasNext, pc = "copying"
    PROVE  CopyProgress \/ CopyDone \/ CopyRefused \/ CopyBroken
<1>1. "copying" \notin DOMAIN CallOf
  BY CallFacts
<1>2. ~ClientNext /\ ~SendRequest /\ ~EndSend /\ ~EndReturn /\ ~WaitChild
  BY <1>1 DEF ClientNext, ClientCall, BadRequest, MalformedRequest, CopyStart,
     Wipe, End, Asked, SendRequest, EndSend, EndReturn, WaitChild
<1>3. ~ClientCallOk /\ ~ClientCallFails
  BY ServedAt DEF ClientCallOk, ClientCallFails, CallOk, CallFails, FinalPoints
<1>4. ~WipeStarted /\ ~WipeZeroed /\ ~WipeFails /\ ~ImgDisk /\ ~ImgDiskFails
  BY DEF WipeStarted, WipeZeroed, WipeFails, ImgDisk, ImgDiskFails, CallOk,
     CallFails
<1>5. /\ ~Select /\ ~GotDevSize /\ ~TarNext /\ ~TarFile /\ ~TarFileFails /\ ~TarClosed
      /\ ~AnalyzeProgress /\ ~AnalyzeDone /\ ~AnalyzeFails /\ ~Analyzed
  BY DEF Select, GotDevSize, TarNext, TarFile, TarFileFails, TarClosed,
     AnalyzeProgress, AnalyzeDone, AnalyzeFails, Analyzed, CallOk, CallFails
<1>6. /\ ~InitFs /\ ~DirNext /\ ~WriteDir /\ ~WriteNext /\ ~WriteFile /\ ~WriteFileFails
      /\ ~ForwardBitVec /\ ~StartCopy /\ ~UploadProgress /\ ~Delivered /\ ~UploadFails
      /\ ~TransferAborts
  BY DEF InitFs, DirNext, WriteDir, WriteNext, WriteFile, WriteFileFails,
     ForwardBitVec, StartCopy, UploadProgress, Delivered, UploadFails,
     TransferAborts, CallOk, CallFails
<1> QED
  BY <1>2, <1>3, <1>4, <1>5, <1>6 DEF UsbsasNext, CopyFilesNext

(* FinalInv is kept by every step of usbsas.                               *)
LEMMA UsbsasFinal ==
    ASSUME SessionInv, FinalInv, ClientNext \/ UsbsasNext
    PROVE  FinalInv'
<1> DEFINE c == "fs2dev"
           Unbegun == Among(rsp[c], Other("StartCopy"))
           Ending == pc = "copying" => req[c] = <<>> /\ Among(rsp[c], Progress)
<1>1. /\ c \in Children /\ c \in Procs /\ rsp \in [Procs -> Seq(Rsps)] /\ rsp[c] \in Seq(Rsps)
      /\ pc \notin {"recv", "exit"} => answers = <<>>
      /\ \A S : Among(rsp[c], S) => Among(rsp'[c], S)
  BY Names, UsbsasRsps DEF SessionInv, TypeInv, IpcTypeOK, ControlInv
<1>2. Progress \subseteq Other("StartCopy")
  BY DEF Progress, Other
<1>3. Unbegun'
  <2>1. CASE Unbegun
    BY <1>1, <2>1
  <2>2. CASE Begun
    <3>1. wait = c /\ rsp[c] # <<>> /\ Among(Tail(rsp[c]), Progress)
      BY <2>2 DEF Begun, Handled
    <3>2. \E d \in Children : Reads(d)
      BY <1>1, <3>1, UsbsasReads DEF SendRequest, EndSend, Silent, Progressing,
         CallOver, ReadEof, Children
    <3>3. rsp'[c] = Tail(rsp[c])
      BY <1>1, <3>1, <3>2 DEF Reads
    <3> QED
      BY <1>2, <3>1, <3>3 DEF Among
  <2> QED
    BY <2>1, <2>2 DEF FinalInv
<1>4. CASE Aside
  <2>1. CASE UNCHANGED <<pc, answers>>
    <3>1. pc = "copying" => UNCHANGED req
      BY <2>1, AtCopying DEF CopyProgress, CopyDone, CopyRefused, CopyBroken,
         RunEnds, RunFails
    <3>2. Ending'
      BY <1>1, <2>1, <3>1 DEF FinalInv
    <3> QED
      BY <1>3, <2>1, <3>2 DEF FinalInv
  <2>2. CASE Leaving
    <3>1. pc' # "copying"
      BY <2>2 DEF Leaving, FinalPoints
    <3>2. answers' = <<>> \/ \E a : answers' = <<a>>
      BY <2>2 DEF Leaving
    <3> QED
      BY <1>3, <3>1, <3>2 DEF FinalInv
  <2> QED
    BY <1>4, <2>1, <2>2 DEF Aside
<1>5. CASE \/ Select \/ GotDevSize \/ TarNext \/ TarFile \/ TarFileFails \/ TarClosed
           \/ AnalyzeDone \/ Analyzed \/ InitFs \/ DirNext \/ WriteDir \/ WriteNext
           \/ WriteFile \/ WriteFileFails \/ ForwardBitVec \/ CopyDone \/ Delivered
  <2>1. /\ pc \notin {"recv", "exit"}
        /\ \/ UNCHANGED answers
           \/ \E a : answers' = Append(answers, a)
    BY <1>5 DEF Select, GotDevSize, TarNext, TarFile, TarFileFails, TarClosed,
       AnalyzeDone, Analyzed, InitFs, DirNext, WriteDir, WriteNext, WriteFile,
       WriteFileFails, ForwardBitVec, CopyDone, Delivered, CallOk, CallFails,
       GiveUp, RunEnds, RunFails, StartTar
  <2>2. answers' = <<>> \/ \E a : answers' = <<a>>
    BY <1>1, <2>1, FirstAnswer
  <2>3. pc' # "copying"
    BY <1>5 DEF Select, GotDevSize, TarNext, TarFile, TarFileFails, TarClosed,
       AnalyzeDone, Analyzed, InitFs, DirNext, WriteDir, WriteNext, WriteFile,
       WriteFileFails, ForwardBitVec, CopyDone, Delivered, GiveUp, RunEnds,
       RunFails, StartTar, SessionInv, ControlInv
  <2> QED
    BY <1>3, <2>2, <2>3 DEF FinalInv
<1>6. CASE StartCopy
  <2>1. /\ rsp[c] # <<>> /\ Head(rsp[c]).type = "StartCopy" /\ rsp'[c] = Tail(rsp[c])
        /\ UNCHANGED <<req, answers>> /\ pc' = "copying"
    BY <1>1, <1>6 DEF StartCopy, Read
  <2>2. ~Unbegun
    BY <1>1, <2>1, AmongTail DEF Other
  <2>3. req[c] = <<>> /\ Among(Tail(rsp[c]), Progress)
    BY <2>2 DEF FinalInv, Begun, Handled
  <2> QED
    BY <1>3, <2>1, <2>3 DEF FinalInv
<1>7. CASE CopyRefused
  <2>1. /\ pc = "copying" /\ rsp[c] # <<>>
        /\ Head(rsp[c]).type \notin {"CopyStatus", "CopyStatusDone"}
    BY <1>7 DEF CopyRefused, ReadOther
  <2>2. Head(rsp[c]) \in Progress
    BY <1>1, <2>1, AmongTail DEF FinalInv
  <2> QED
    BY <2>1, <2>2 DEF Progress
<1> QED
  BY <1>4, <1>5, <1>6, <1>7, AsideSteps DEF Transfers

---------------------------------------------------------------------------
(* A reader of the source that reports its errors.                         *)

(* What scsi2files answers then is what it read.                           *)
LEMMA PlainReads ==
    /\ Error \in TrueReads /\ EndRsp \in TrueReads
    /\ \A t \in RspTypes : Msg(t) \in TrueReads
<1>1. "data" \in DOMAIN Zeros /\ \A t : "data" \notin DOMAIN Msg(t)
  BY SMT DEF Zeros, Msg
<1>2. \A t : Msg(t) # Zeros
  BY <1>1
<1>3. Error \in Rsps /\ EndRsp \in Rsps /\ \A t \in RspTypes : Msg(t) \in Rsps
  BY PlainMessage DEF Error, EndRsp, RspTypes, ReqTypes
<1> QED
  BY <1>2, <1>3 DEF TrueReads, Error, EndRsp

LEMMA Scsi2FilesReads ==
    ASSUME "src_zeros" \notin Faults, IpcTypeOK, Among(rsp["scsi2files"], TrueReads),
           Scsi2FilesNext \/ Dev2ScsiNext
    PROVE  Among(rsp'["scsi2files"], TrueReads)
<1> DEFINE c == "scsi2files"
<1>1. /\ c \in Procs /\ "dev2scsi" \in Procs /\ c # "dev2scsi"
      /\ rsp \in [Procs -> Seq(Rsps)] /\ rsp[c] \in Seq(Rsps)
  BY DEF IpcTypeOK, Procs, Children
<1>2. ASSUME NEW m \in TrueReads
      PROVE  /\ <<m>> \in Seq(Rsps) /\ Among(<<m>>, TrueReads)
             /\ Among(rsp[c] \o <<m>>, TrueReads)
             /\ Append(rsp[c], m) = rsp[c] \o <<m>>
  <2>1. m \in Rsps
    BY DEF TrueReads
  <2>2. <<m>> \in Seq(Rsps) /\ Append(rsp[c], m) = rsp[c] \o <<m>>
    BY SMT, <1>1, <2>1
  <2>3. Among(<<m>>, TrueReads)
    BY AmongFew
  <2> QED
    BY <1>1, <2>2, <2>3, AmongConcat
<1>3. ASSUME NEW m \in TrueReads, NEW s, Answer(c, <<m>>, s) \/ Emit(c, <<m>>, s)
      PROVE  Among(rsp'[c], TrueReads)
  BY <1>1, <1>2, <1>3, AnswerAmong
<1>4. ASSUME NEW m \in TrueReads, NEW s, Relay(m, s) PROVE Among(rsp'[c], TrueReads)
  <2>1. rsp'[c] = Append(rsp[c], m)
    BY <1>1, <1>4 DEF Relay
  <2> QED
    BY <1>2, <2>1
<1>5. {"OpenDevice", "Partitions", "ReadSectors", "OpenPartition", "GetAttr", "ReadDir",
       "ReadFile"} \subseteq RspTypes
  BY DEF RspTypes, ReqTypes
<1>6. CASE S2FOpenDevice \/ S2FPartitions \/ S2FEnd
  BY <1>6 DEF S2FOpenDevice, S2FPartitions, S2FEnd, Forward
<1>7. CASE S2FOpened \/ S2FListed \/ S2FEnded
  BY <1>4, <1>5, <1>7, PlainReads DEF S2FOpened, S2FListed, S2FEnded
<1>8. CASE S2FReadSectors \/ S2FOpenPartition \/ S2FRead
  BY <1>3, <1>5, <1>8, PlainReads DEF S2FReadSectors, S2FOpenPartition, S2FRead,
     RunError
<1>9. CASE S2FEndFails \/ S2FBrokenPipe \/ S2FUnexpected \/ S2FWaitEnd
  BY <1>3, <1>9, PlainReads DEF S2FEndFails, S2FBrokenPipe, S2FUnexpected,
     S2FWaitEnd, WaitEndLoop, RunError
<1>10. CASE D2SReturnsIntoParent \/ D2SGhostWaitEnd
  <2>1. \E m \in {Error, EndRsp} : rsp'[c] = Append(rsp[c], m)
    BY <1>1, <1>10 DEF D2SReturnsIntoParent, D2SGhostWaitEnd
  <2> QED
    BY <1>2, <2>1, PlainReads
<1>11. CASE D2SUnlock \/ D2SPartitions \/ D2SEnd \/ D2SKilled
  <2>1. Untouched(c)
    BY <1>1, <1>11, AnswerAlone DEF D2SUnlock, D2SPartitions, D2SEnd, D2SKilled,
       Alone
  <2> QED
    BY <2>1 DEF Untouched
<1> QED
  BY <1>6, <1>7, <1>8, <1>9, <1>10, <1>11 DEF Scsi2FilesNext, Dev2ScsiNext

(* file_to_tar has an answer of scsi2files at hand when it has read.       *)
LEMMA TarReads ==
    ASSUME SessionInv, ReadsInv, TarFile, pc = "tar_read"
    PROVE  rsp["scsi2files"] # <<>> /\ Head(rsp["scsi2files"]) \in TrueReads
<1>1. rsp["scsi2files"] \in Seq(Rsps)
  BY DEF SessionInv, TypeInv, IpcTypeOK, Procs, Children
<1>2. CallOk("tar_read")
  BY DEF TarFile, CallOk
<1>3. CallOf["tar_read"] = <<"scsi2files", "ReadFile">>
  BY CallValues
<1>4. rsp["scsi2files"] # <<>>
  BY SMT, <1>2, <1>3 DEF CallOk, Read
<1> QED
  BY <1>1, <1>4, AmongTail DEF ReadsInv

(* Every step keeps ReadsInv.                                              *)
LEMMA NextReads ==
    ASSUME "src_zeros" \notin Faults, SessionInv, ReadsInv, [Next]_vars
    PROVE  ReadsInv'
<1> DEFINE c == "scsi2files"
<1>1. /\ c \in Children /\ c \in Procs /\ c \notin ServiceNames
      /\ IpcTypeOK /\ rsp[c] \in Seq(Rsps)
  BY DEF SessionInv, TypeInv, IpcTypeOK, Procs, Children, ServiceNames
<1>2. CASE ClientStep \/ UsbsasStep
  <2>1. ClientNext \/ UsbsasNext
    BY <1>2 DEF ClientStep, UsbsasStep
  <2>2. Among(rsp'[c], TrueReads)
    BY <1>1, <2>1, UsbsasRsps DEF ReadsInv
  <2>3. CASE Select
    BY <2>2, <2>3 DEF Select, Unlisted, ReadsInv, reportVars
  <2>4. CASE TarFile
    <3>1. pc = "tar_read" => rsp[c] # <<>> /\ Head(rsp[c]) \in TrueReads
      BY <1>1, <2>4, TarReads
    <3> QED
      BY <2>2, <2>4, <3>1 DEF TarFile, ReadsInv, TrueReads
  <2>5. CASE Transfers /\ ~Select /\ ~TarFile
    <3>1. UNCHANGED hidden
      BY <2>5 DEF Transfers, GotDevSize, TarNext, TarFileFails, TarClosed,
         AnalyzeDone, Analyzed, InitFs, DirNext, WriteDir, WriteNext, WriteFile,
         WriteFileFails, ForwardBitVec, StartCopy, CopyDone, CopyRefused,
         Delivered, reportVars
    <3> QED
      BY <2>2, <3>1 DEF ReadsInv
  <2> QED
    BY <2>1, <2>2, <2>3, <2>4, <2>5, AsideSteps DEF Aside, ReadsInv
<1>3. CASE ChildNext \/ Crash
  <2>1. UNCHANGED hidden
    BY <1>3, ChildrenFrame DEF orchVars, reportVars
  <2>2. CASE Scsi2FilesStep \/ Dev2ScsiStep
    BY <1>1, <2>1, <2>2, Scsi2FilesReads DEF Scsi2FilesStep, Dev2ScsiStep,
       ReadsInv
  <2>3. CASE Files2TarStep \/ Tar2FilesStep \/ Files2FsStep \/ Fs2DevStep \/ ServicesStep
    <3>1. Untouched(c)
      BY <1>1, <2>3, ChildrenAlone DEF Files2TarStep, Tar2FilesStep,
         Files2FsStep, Fs2DevStep, ServicesStep, Alone
    <3> QED
      BY <2>1, <3>1 DEF Untouched, ReadsInv
  <2>4. CASE Crash
    BY <2>1, <2>4 DEF Crash, Die, ReadsInv
  <2> QED
    BY <1>3, <2>2, <2>3, <2>4 DEF ChildNext
<1>4. CASE UNCHANGED vars
  BY <1>4 DEF vars, ipcVars, orchVars, reportVars, ReadsInv
<1> QED
  BY <1>2, <1>3, <1>4 DEF Next, Exited

---------------------------------------------------------------------------
(* How the children come up.                                               *)
LEMMA InitStates ==
    ASSUME Init
    PROVE  /\ \A c \in WaitOnStartup \cup {"dev2scsi"} : st[c] = "Locked"
           /\ st["files2fs"] = "WaitFsInfos" /\ st["scsi2files"] = "ChildStarted"
           /\ \A c \in ServiceNames : /\ st[c] \in {"Running", "WaitEnd", "End"}
                                      /\ st[c] = "Running" => rsp[c] = <<>>
           /\ \A c \in (Procs \ ServiceNames) \cup {"analyzer"} : rsp[c] = <<>>
           /\ \A c \in Procs : req[c] = <<>>
<1>1. PICK start \in [ServiceNames -> UNION {ServiceStart(c) : c \in ServiceNames}] :
          /\ \A c \in ServiceNames : start[c] \in ServiceStart(c)
          /\ st = [c \in Procs |->
                     CASE c \in WaitOnStartup \cup {"dev2scsi"} -> "Locked"
                       [] c = "files2fs" -> "WaitFsInfos"
                       [] c = "scsi2files" -> "ChildStarted"
                       [] c = "analyzer" -> IF Analyze THEN start[c].st
                                                       ELSE "End"
                       [] OTHER -> start[c].st]
          /\ rsp = [c \in Procs |->
                      IF c \in ServiceNames THEN start[c].rsp ELSE <<>>]
  BY DEF Init
<1>2. \A c \in ServiceNames : /\ start[c].st \in {"Running", "WaitEnd"}
                              /\ start[c].st = "Running" => start[c].rsp = <<>>
  BY SMT, <1>1 DEF ServiceStart
<1>3. /\ WaitOnStartup \cup {"dev2scsi", "files2fs", "scsi2files"} \subseteq Procs
      /\ ServiceNames \subseteq Procs
  BY DEF WaitOnStartup, Procs, Children, ServiceNames
<1>4. ASSUME NEW c \in WaitOnStartup \cup {"dev2scsi"} PROVE st[c] = "Locked"
  <2>1. c \notin {"files2fs", "scsi2files", "analyzer"}
    BY <1>4 DEF WaitOnStartup
  <2> QED
    BY <1>1, <1>3, <1>4, <2>1
<1>5. st["files2fs"] = "WaitFsInfos" /\ st["scsi2files"] = "ChildStarted"
  BY <1>1, <1>3 DEF WaitOnStartup
<1>6. ASSUME NEW c \in ServiceNames
      PROVE  /\ st[c] \in {"Running", "WaitEnd", "End"}
             /\ st[c] = "Running" => rsp[c] = <<>>
  <2>1. c \notin WaitOnStartup \cup {"dev2scsi", "files2fs", "scsi2files"} /\ c \in Procs
    BY <1>3, <1>6 DEF ServiceNames, WaitOnStartup
  <2>2. st[c] \in {start[c].st, "End"}
    BY <1>1, <2>1
  <2>3. rsp[c] = start[c].rsp
    BY <1>1, <1>6, <2>1
  <2> QED
    BY <1>2, <1>6, <2>2, <2>3
<1>7. \A c \in (Procs \ ServiceNames) \cup {"analyzer"} : rsp[c] = <<>>
  <2>1. start["analyzer"].rsp = <<>> /\ "analyzer" \in Procs
    BY SMT, <1>1, <1>3 DEF ServiceStart, ServiceNames
  <2> QED
    BY <1>1, <2>1
<1>8. \A c \in Procs : req[c] = <<>>
  BY DEF Init
<1> QED
  BY <1>4, <1>5, <1>6, <1>7, <1>8

(* The pipes when the session starts.                                      *)
LEMMA InitPipes ==
    ASSUME Init
    PROVE  PipeInv /\ NeverLocked
<1>1. /\ Children = WaitOnStartup \cup {"files2fs", "scsi2files"} \cup ServiceNames
      /\ WaitOnStartup \cap ServiceNames = {} /\ "files2fs" \notin ServiceNames
      /\ "scsi2files" \notin ServiceNames /\ Children \subseteq Procs
      /\ WaitOnStartup = {"files2tar", "fs2dev", "tar2files"}
  BY DEF Children, WaitOnStartup, ServiceNames, Procs
<1>2. /\ state = "Init" /\ pc = "recv" /\ wait = "none" /\ locked = WaitOnStartup
  BY DEF Init
<1>3. ASSUME NEW c \in Children PROVE ChildOK(c)
  <2>1. /\ st[c] \in {"Locked", "WaitFsInfos", "ChildStarted", "Running", "WaitEnd", "End"}
        /\ req[c] = <<>> /\ (st[c] \notin {"WaitEnd", "End"} => rsp[c] = <<>>)
        /\ (wait = c) = FALSE
    BY <1>1, <1>2, <1>3, InitStates DEF Children
  <2>2. CASE st[c] \in {"WaitEnd", "End"}
    BY <2>2, ParkedOK DEF ChildOK, PipesOK, Plain
  <2>3. ASSUME NEW s \in {"Locked", "WaitFsInfos", "ChildStarted", "Running"}, NEW p
        PROVE  /\ PlainOK(s, <<>>, <<>>, FALSE) /\ UploaderOK(s, <<>>, <<>>, FALSE)
               /\ AnalyzerOK(s, <<>>, <<>>, FALSE, p) /\ Fs2DevOK(s, <<>>, <<>>, FALSE, p)
    BY DEF PlainOK, UploaderOK, AnalyzerOK, Fs2DevOK, Starting, Quiet, Parked,
       Inside
  <2>4. CASE st[c] \notin {"WaitEnd", "End"}
    BY <2>1, <2>3, <2>4 DEF ChildOK, PipesOK, Plain
  <2> QED
    BY <2>2, <2>4
<1>4. \A c \in WaitOnStartup : FlagOK(c)
  <2>1. \A c \in WaitOnStartup : st[c] = "Locked" /\ req[c] = <<>> /\ c \in locked
    BY <1>1, <1>2, InitStates
  <2>2. DOMAIN <<>> = {}
    BY SMT
  <2> QED
    BY <2>1, <2>2 DEF FlagOK
<1>5. LocksOK(state, pc, dest, locked)
  BY <1>2 DEF LocksOK, TarPoints
<1>6. WaitOK /\ GhostOK
  BY <1>2, InitStates DEF WaitOK, GhostOK, Children
<1>7. NeverLocked
  BY <1>1, InitStates DEF NeverLocked
<1> QED
  BY <1>3, <1>4, <1>5, <1>6, <1>7 DEF PipeInv

---------------------------------------------------------------------------
(* The invariant of a session in which the client asks for a file system   *)
(* that exists.                                                            *)
LEMMA NextPipes ==
    ASSUME "Bad" \notin FsTypes, SessionInv, NeverLocked, [Next]_vars
    PROVE  SessionInv' /\ NeverLocked'
<1>1. TypeInv' /\ ControlInv'
  BY NextTypes, StepConforms DEF SessionInv, Conforms
<1>2. fstype # "Bad"
  BY DEF SessionInv, TypeInv, OrchTypeOK
<1>3. CASE ClientStep \/ UsbsasStep
  <2>1. NeverLocked'
    <3>1. UNCHANGED st
      BY <1>3, UsbsasFrame DEF ClientStep, UsbsasStep
    <3> QED
      BY <3>1 DEF NeverLocked
  <2>2. ASSUME ClientStep PROVE PipeInv'
    BY <2>2, ClientPipes, WipePipes DEF ClientStep, ClientNext
  <2>3. ASSUME UsbsasStep PROVE PipeInv'
    <3>1. CASE \/ SendRequest \/ EndSend \/ EndReturn \/ WaitChild \/ ClientCallOk
               \/ ClientCallFails
      BY <3>1, SendRequestPipes, EndPipes, LoopPipes, ServePipes
    <3>2. CASE WipeStarted \/ WipeZeroed \/ WipeFails \/ ImgDisk \/ ImgDiskFails
      BY <3>2, ProgressPipes, LastPipes, FailPipes
    <3>3. CASE CopyFilesNext
      <4>1. CASE \/ Select \/ GotDevSize \/ TarClosed \/ Delivered \/ TarNext \/ TarFile
                 \/ TarFileFails
        BY <1>2, <4>1, SelectPipes, UnlockPipes, LoopPipes, TarPipes
      <4>2. CASE \/ AnalyzeDone \/ InitFs \/ WriteDir \/ WriteFile \/ WriteFileFails
                 \/ ForwardBitVec \/ Analyzed \/ DirNext \/ WriteNext
        BY <4>2, ImagePipes, LoopPipes
      <4>3. CASE \/ AnalyzeProgress \/ UploadProgress \/ StartCopy \/ CopyProgress
                 \/ CopyDone \/ CopyRefused \/ CopyBroken \/ AnalyzeFails \/ UploadFails
                 \/ TransferAborts
        BY <4>3, ProgressPipes, LastPipes, FailPipes
      <4> QED
        BY <3>3, <4>1, <4>2, <4>3 DEF CopyFilesNext
    <3> QED
      BY <2>3, <3>1, <3>2, <3>3 DEF UsbsasStep, UsbsasNext
  <2> QED
    BY <1>1, <1>3, <2>1, <2>2, <2>3 DEF SessionInv
<1>4. CASE ChildNext \/ Crash
  BY <1>1, <1>4, ChildPipes, ChildrenNeverLocked DEF SessionInv
<1>5. CASE UNCHANGED vars
  <2>1. UNCHANGED <<st, req, rsp, state, pc, wait, locked, dest, nth>>
    BY <1>5 DEF vars, ipcVars, orchVars, ctlVars, jobVars
  <2>2. PipeInv
    BY DEF SessionInv
  <2>3. \A c \in Children : ChildOK(c)'
    BY <2>1, <2>2, UntouchedOK DEF Untouched, PipeInv
  <2>4. \A c \in WaitOnStartup : NotEnded(c)' => NotEnded(c)
    BY <2>1 DEF NotEnded
  <2>5. \A c \in WaitOnStartup : FlagOK(c)'
    BY <2>1, <2>2, <2>4, FlagKept
  <2>6. WaitOK' /\ GhostOK' /\ LocksOK(state, pc, dest, locked)' /\ NeverLocked'
    BY <2>1, <2>2 DEF WaitOK, GhostOK, MassStorageDropped, PipeInv, NeverLocked
  <2> QED
    BY <1>1, <2>3, <2>5, <2>6 DEF SessionInv, PipeInv
<1> QED
  BY <1>3, <1>4, <1>5 DEF Next, Exited

(* What may be in the pipes between usbsas and each of its children, whom  *)
(* usbsas takes for locked, and for whom it waits (Comm and the children   *)
(* of usbsas-usbsas/src/main.rs): the invariant that the theorems below    *)
(* follow from.                                                            *)
THEOREM SessionPipes ==
    ASSUME "Bad" \notin FsTypes
    PROVE  Spec => [](SessionInv /\ NeverLocked)
<1>1. Init => SessionInv /\ NeverLocked
  <2>1. Init => ControlInv
    BY DEF Init, ControlInv, At, IdleStates
  <2> QED
    BY <2>1, InitTypes, InitPipes DEF SessionInv
<1>2. SessionInv /\ NeverLocked /\ [Next]_vars => (SessionInv /\ NeverLocked)'
  BY NextPipes
<1> QED
  BY <1>1, <1>2, PTL DEF Spec

(* Requests and responses stay paired: the next response that usbsas reads *)
(* from a working child is the answer to the request it has just written   *)
(* (send and recv of the children's comm in usbsas-usbsas/src/main.rs),    *)
(* whatever the faults and the deaths.                                     *)
THEOREM RequestsPaired ==
    ASSUME "Bad" \notin FsTypes
    PROVE  Spec => []Lockstep
<1>1. SessionInv => Lockstep
  <2> SUFFICES ASSUME PipeInv, NEW c \in Children, Serving(c), wait # c
               PROVE  req[c] = <<>> /\ rsp[c] = <<>>
    BY DEF Lockstep, SessionInv
  <2>1. ChildOK(c) /\ st[c] \notin Parked /\ (wait = c) = FALSE
    BY DEF PipeInv, Serving, Parked
  <2>2. Quiet(st[c], req[c], rsp[c], FALSE)
    BY <2>1 DEF ChildOK, PipesOK, Plain, Fs2DevOK, AnalyzerOK, UploaderOK,
       PlainOK
  <2> QED
    BY <2>1, <2>2 DEF Quiet
<1> QED
  BY <1>1, SessionPipes, PTL

(* The raw bytes that unlock files2tar, fs2dev and tar2files are written   *)
(* at most once, and before any message.                                   *)
THEOREM UnlockBytesOnce ==
    ASSUME "Bad" \notin FsTypes
    PROVE  Spec => []UnlockedOnce
<1>1. SessionInv => UnlockedOnce
  BY DEF SessionInv, PipeInv, FlagOK, UnlockedOnce
<1> QED
  BY <1>1, SessionPipes, PTL

(* fs2dev writes to the destination device only while usbsas waits for the *)
(* copy or the wipe it asked for.                                          *)
THEOREM DeviceOnDemand ==
    ASSUME "Bad" \notin FsTypes
    PROVE  Spec => DeviceOnlyOnDemand
<1> DEFINE A == dev' # dev => wait = "fs2dev" /\ pc \in {"startcopy", "copying",
                                                         "wipe", "wiping"}
<1>1. SessionInv /\ [Next]_vars => [A]_vars
  <2> SUFFICES ASSUME SessionInv, [Next]_vars, dev' # dev
               PROVE  wait = "fs2dev" /\ pc \in {"startcopy", "copying", "wipe", "wiping"}
    OBVIOUS
  <2>1. ~UNCHANGED devVars
    BY DEF devVars
  <2>2. ~(ClientStep \/ UsbsasStep) /\ ~UNCHANGED vars /\ ~Crash
    <3>1. UNCHANGED storeVars => UNCHANGED devVars
      BY DEF storeVars
    <3> QED
      BY <2>1, <3>1, UsbsasFrame DEF ClientStep, UsbsasStep, vars, Crash
  <2>3. Fs2DevNext
    BY <2>1, <2>2 DEF Next, ChildNext, Files2TarStep, Tar2FilesStep,
       Files2FsStep, Fs2DevStep, Scsi2FilesStep, Dev2ScsiStep, ServicesStep,
       Exited, storeVars
  <2>4. F2DWriteGroup \/ F2DWriteFails
    BY <2>1, <2>3 DEF Fs2DevNext, F2DUnlock, F2DDevSize, F2DLoadBitVec,
       F2DStartCopy, F2DWipe, F2DStatusDone, F2DEnd, F2DUnexpected, F2DWaitEnd,
       devVars
  <2>5. st["fs2dev"] \in {"Copying", "Wiping"}
    BY <2>4 DEF F2DWriteGroup, F2DWriteFails
  <2>6. Fs2DevOK(st["fs2dev"], req["fs2dev"], rsp["fs2dev"], wait = "fs2dev", pc)
    <3>1. "fs2dev" \in Children
      BY DEF Children
    <3>2. ChildOK("fs2dev")
      BY <3>1 DEF SessionInv, PipeInv
    <3> QED
      BY <3>2 DEF ChildOK, PipesOK, Plain
  <2> QED
    BY <2>5, <2>6 DEF Fs2DevOK, Reporting
<1> QED
  BY <1>1, SessionPipes, PTL DEF DeviceOnlyOnDemand, Spec

---------------------------------------------------------------------------
(* The invariant of a transfer.                                            *)
LEMMA InitTransfer ==
    ASSUME Init
    PROVE  TransferInv
<1>1. SessionInv /\ NeverLocked
  <2>1. ControlInv
    BY DEF Init, ControlInv, At, IdleStates
  <2> QED
    BY <2>1, InitTypes, InitPipes DEF SessionInv
<1>2. /\ state = "Init" /\ pc = "recv" /\ wait = "none" /\ answers = <<>>
      /\ files = {} /\ dirty = {} /\ errors = {}
      /\ ~tarClosed /\ ~imgClosed /\ dev = "old"
      /\ \A e \in Entries : tar[e] = -1 /\ img[e] = -1
  BY DEF Init, TarInit, ImgInit, DevInit
<1>3. /\ st["files2tar"] = "Locked" /\ st["tar2files"] = "Locked" /\ st["fs2dev"] = "Locked"
      /\ rsp["files2tar"] = <<>> /\ rsp["files2fs"] = <<>> /\ rsp["analyzer"] = <<>>
      /\ rsp["fs2dev"] = <<>>
      /\ req["files2tar"] = <<>> /\ req["files2fs"] = <<>> /\ req["tar2files"] = <<>>
  BY InitStates DEF WaitOnStartup, ServiceNames, Procs, Children
<1>4. WriterInv
  <2>1. \A a : WriterOK(<<>>, <<>>, FALSE, a)
    BY SMT DEF WriterOK
  <2>2. \A c \in Writers : req[c] = <<>> /\ rsp[c] = <<>> /\ (wait = c) = FALSE
    BY <1>2, <1>3 DEF Writers
  <2> QED
    BY <2>1, <2>2 DEF WriterInv
<1>5. TarSync /\ ImgSync
  BY <1>2 DEF TarSync, ImgSync
<1>6. TarInv
  BY <1>2, <1>3, AmongFew DEF TarInv, WholeInv, ClosedInv, VerdictInv
<1>7. CleanInv
  BY SMT, <1>2 DEF CleanInv, OnlyClean, DirPoints, WritePoints, MidPoints,
     Entries
<1>8. ImgInv
  BY <1>2, <1>3, AmongFew DEF ImgInv, ImageComplete, FinalPoints, Entries
<1>9. DevInv
  BY <1>2, <1>3 DEF DevInv
<1>10. AccountInv
  <2>1. ListInv
    BY <1>2 DEF ListInv, TarPoints, WritePoints, MidPoints, FinalPoints
  <2>2. <<>> # <<"CopyDone">>
    OBVIOUS
  <2>3. CopyInv
    BY <1>2, <1>3, <2>2, AmongFew DEF CopyInv
  <2> QED
    BY <2>1, <2>3 DEF AccountInv
<1> QED
  BY <1>1, <1>4, <1>5, <1>6, <1>7, <1>8, <1>9, <1>10 DEF TransferInv

(* No answer when the session starts.                                      *)
LEMMA InitFinal ==
    ASSUME Init
    PROVE  FinalInv
<1>1. pc = "recv" /\ answers = <<>>
  BY DEF Init
<1>2. rsp["fs2dev"] = <<>>
  BY InitStates DEF ServiceNames, Procs, Children
<1> QED
  BY <1>1, <1>2, AmongFew DEF FinalInv

(* The children that are not asked leave the writers in agreement.         *)
LEMMA ChildrenSync ==
    ASSUME SessionInv, WriterInv, TarSync, ImgSync, ChildNext \/ Crash
    PROVE  TarSync' /\ ImgSync'
<1>1. /\ IpcTypeOK /\ {"files2tar", "files2fs"} \subseteq Procs
      /\ {"files2tar", "files2fs"} \cap ServiceNames = {}
  BY DEF SessionInv, TypeInv, Procs, Children, ServiceNames
<1>2. UNCHANGED <<pc, wait, cur, off>>
  BY ChildrenFrame DEF orchVars, ctlVars, loopVars
<1>3. CASE Crash
  <2>1. UNCHANGED <<req, rsp, tar, tarCur, img, imgCur>>
    BY <1>3 DEF Crash, Die, storeVars, tarVars, imgVars
  <2> QED
    BY SMT, <1>2, <2>1 DEF TarSync, ImgSync, Handled, Answered1, Chunks
<1>4. CASE ChildNext
  <2>1. CASE Files2TarStep
    <3>1. Untouched("files2fs") /\ UNCHANGED imgVars
      BY <1>1, <2>1, ChildrenAlone DEF Files2TarStep, Alone
    <3> QED
      BY <1>2, <2>1, <3>1, Files2TarSync, ImgSyncKept
  <2>2. CASE Files2FsStep
    <3>1. Untouched("files2tar") /\ UNCHANGED tarVars
      BY <1>1, <2>2, ChildrenAlone DEF Files2FsStep, Alone
    <3> QED
      BY <1>2, <2>2, <3>1, Files2FsSync, TarSyncKept
  <2>3. CASE Tar2FilesStep \/ Fs2DevStep \/ Scsi2FilesStep \/ Dev2ScsiStep \/ ServicesStep
    <3>1. Untouched("files2tar") /\ Untouched("files2fs")
      BY <1>1, <2>3, ChildrenAlone DEF Tar2FilesStep, Fs2DevStep,
         Scsi2FilesStep, Dev2ScsiStep, ServicesStep, Alone
    <3>2. UNCHANGED tarVars /\ UNCHANGED imgVars
      BY <2>3 DEF Tar2FilesStep, Fs2DevStep, Scsi2FilesStep, Dev2ScsiStep,
         ServicesStep, storeVars, Tar2FilesNext, T2FUnlock, T2FLoadMetadata,
         T2FGetAttr, T2FReadFile, T2FReadDir, T2FEnd, T2FUnexpected, T2FWaitEnd,
         ServicesNext, AnalyzerAnalyze, AnalyzerAgain, UploaderUpload,
         CmdExecRun, IdentificatorId, UsbDevDevices, ServiceEnd, ServiceWaitEnd
    <3> QED
      BY <1>2, <3>1, <3>2, TarSyncKept, ImgSyncKept
  <2> QED
    BY <1>4, <2>1, <2>2, <2>3 DEF ChildNext
<1> QED
  BY <1>3, <1>4

(* Every step keeps TransferInv.                                           *)
LEMMA NextTransfer ==
    ASSUME "Bad" \notin FsTypes, TransferInv, [Next]_vars
    PROVE  TransferInv'
<1>1. SessionInv' /\ NeverLocked'
  BY NextPipes DEF TransferInv
<1>2. CASE ClientStep \/ UsbsasStep
  <2>1. ClientNext \/ UsbsasNext
    BY <1>2 DEF ClientStep, UsbsasStep
  <2>2. WriterInv' /\ TarSync' /\ ImgSync'
    BY <2>1, UsbsasWriters, UsbsasTarSync, UsbsasImgSync DEF TransferInv
  <2>3. TarInv' /\ CleanInv' /\ ImgInv' /\ DevInv'
    BY <2>1, UsbsasTar, UsbsasClean, UsbsasImg, UsbsasDev DEF TransferInv
  <2>4. AccountInv'
    BY <2>1, UsbsasList, UsbsasCopy DEF TransferInv, AccountInv
  <2> QED
    BY <1>1, <2>2, <2>3, <2>4 DEF TransferInv
<1>3. CASE ChildNext \/ Crash
  <2>1. WriterInv' /\ TarSync' /\ ImgSync'
    BY <1>3, ChildrenWriters, ChildrenSync DEF TransferInv
  <2>2. TarInv' /\ CleanInv' /\ ImgInv' /\ DevInv'
    BY <1>3, ChildrenTar, ChildrenClean, ChildrenImg, ChildrenDev DEF
       TransferInv
  <2>3. AccountInv'
    BY <1>3, ChildrenList, ChildrenCopy DEF TransferInv, AccountInv
  <2> QED
    BY <1>1, <2>1, <2>2, <2>3 DEF TransferInv
<1>4. CASE UNCHANGED vars
  <2>1. /\ UNCHANGED <<st, req, rsp, state, pc, wait, dest, nth, cur, off, todo, answers>>
        /\ UNCHANGED <<files, filtered, dirty, errors, hidden, fstype, last>>
        /\ UNCHANGED <<tar, tarCur, tarClosed, img, imgCur, imgClosed, dev, devLeft>>
    BY <1>4 DEF vars, ipcVars, orchVars, ctlVars, jobVars, loopVars, reportVars,
       storeVars, tarVars, imgVars, devVars
  <2>2. WriterInv' /\ TarSync' /\ ImgSync'
    BY SMT, <2>1 DEF TransferInv, WriterInv, Asking, Request, TarSync, ImgSync,
       Handled, Answered1, Chunks
  <2>3. TarInv' /\ DevInv'
    BY <2>1 DEF TransferInv, TarInv, WholeInv, ClosedInv, VerdictInv, Archived,
       InTar, DevInv, Untaken
  <2>4. CleanInv' /\ ImgInv'
    BY <2>1 DEF TransferInv, CleanInv, Early, OnlyClean, ImgInv, InImage,
       ImageComplete
  <2>5. AccountInv'
    BY <2>1 DEF TransferInv, AccountInv, ListInv, CopyInv, Noted, Wrote, InTar,
       InImage
  <2> QED
    BY <1>1, <2>2, <2>3, <2>4, <2>5 DEF TransferInv
<1> QED
  BY <1>2, <1>3, <1>4 DEF Next, Exited

(* Every step keeps FinalInv.                                              *)
LEMMA NextFinal ==
    ASSUME "dev_write" \notin Faults, SessionInv, FinalInv, [Next]_vars
    PROVE  FinalInv'
<1>1. CASE ClientStep \/ UsbsasStep
  BY <1>1, UsbsasFinal DEF ClientStep, UsbsasStep
<1>2. CASE ChildNext \/ Crash
  BY <1>2, ChildrenFinal
<1>3. CASE UNCHANGED vars
  <2>1. UNCHANGED <<req, rsp, pc, wait, answers>>
    BY <1>3 DEF vars, ipcVars, orchVars, ctlVars
  <2> QED
    BY <2>1 DEF FinalInv, Begun, Handled
<1> QED
  BY <1>1, <1>2, <1>3 DEF Next, Exited

---------------------------------------------------------------------------
(* What a transfer guarantees, for any number of files, directories,       *)
(* chunks, crashes and faults.  The file system types are those usbsas     *)
(* knows: with another one CopyFilesState fails after files2tar has been   *)
(* unlocked, and end_all unlocks it a second time.                         *)

(* The invariant of a transfer holds in every session: pipes in lockstep,  *)
(* usbsas and the writers files2tar and files2fs at the same entry, the    *)
(* archive and the image whole, the device and the report as they are      *)
(* said to be.                                                             *)
THEOREM TransferSound ==
    ASSUME "Bad" \notin FsTypes
    PROVE  Spec => []TransferInv
<1>1. Init => TransferInv
  BY InitTransfer
<1>2. TransferInv /\ [Next]_vars => TransferInv'
  BY NextTransfer
<1> QED
  BY <1>1, <1>2, PTL DEF Spec

(* tar2files reads the archive only after files2tar has closed it, and     *)
(* every entry in it is whole then, although file_to_tar may fail half way *)
(* through an entry and usbsas goes on to the next one.                    *)
THEOREM ArchiveReadWhole ==
    ASSUME "Bad" \notin FsTypes
    PROVE  Spec => []TarReadComplete
<1>1. TransferInv => TarReadComplete
  BY DEF TransferInv, TarInv, WholeInv, ClosedInv, TarReadComplete
<1> QED
  BY <1>1, TransferSound, PTL

(* files2fs is given no file that the filter rejected or the analyzer      *)
(* called dirty: what write_files lists comes from the verdict on the      *)
(* archive that was written, and nothing is written before it.             *)
THEOREM OnlyCleanWritten ==
    ASSUME "Bad" \notin FsTypes
    PROVE  Spec => []OnlyClean
<1>1. TransferInv => OnlyClean
  BY DEF TransferInv, CleanInv
<1> QED
  BY <1>1, TransferSound, PTL

(* From the moment fs2dev starts to copy, the image is a finished file     *)
(* system and each file in it is whole unless the report lists it, though  *)
(* write_file may fail after any chunk.                                    *)
THEOREM ImageCopiedWhole ==
    ASSUME "Bad" \notin FsTypes
    PROVE  Spec => []ImageComplete
<1>1. TransferInv => ImageComplete
  BY DEF TransferInv, ImgInv
<1> QED
  BY <1>1, TransferSound, PTL

(* After NothingToCopy or NotEnoughSpace the destination device is as it   *)
(* was: fs2dev has been unlocked and asked for its size at most.           *)
THEOREM GivenUpUntouched ==
    ASSUME "Bad" \notin FsTypes
    PROVE  Spec => []GiveUpLeavesDevice
<1>1. TransferInv => GiveUpLeavesDevice
  BY DEF TransferInv, DevInv, Untaken, GiveUpLeavesDevice
<1> QED
  BY <1>1, TransferSound, PTL

(* A transfer that ends with CopyDone and no error accounts for every file *)
(* of the source: it is whole in the image that fs2dev has copied on the   *)
(* device, or the report lists it as filtered, in error or dirty.  The     *)
(* exceptions are the files of a FAT or exFAT source of which a failed     *)
(* read came back from ff_disk_read as zeros.                              *)
THEOREM EveryFileAccounted ==
    ASSUME "Bad" \notin FsTypes
    PROVE  Spec => []Accounted
<1>1. TransferInv => Accounted
  BY DEF TransferInv, AccountInv, CopyInv, Noted, Accounted
<1> QED
  BY <1>1, TransferSound, PTL

(* There are no exceptions with a source whose reader passes on the errors *)
(* of MassStorageComm (NTFS, ext4, ISO 9660): a read of usbsas that is     *)
(* answered is true, whichever reads fail and whichever children die.      *)
THEOREM ReportedReadsAccounted ==
    ASSUME "Bad" \notin FsTypes, "src_zeros" \notin Faults
    PROVE  Spec => [](hidden = {} /\ Accounted)
<1>1. Init => ReadsInv
  <2>1. ASSUME Init PROVE ReadsInv
    <3>1. hidden = {}
      BY <2>1 DEF Init
    <3>2. rsp["scsi2files"] = <<>>
      BY <2>1, InitStates DEF ServiceNames, Procs, Children
    <3> QED
      BY <3>1, <3>2, AmongFew DEF ReadsInv
  <2> QED
    BY <2>1
<1>2. TransferInv /\ ReadsInv /\ [Next]_vars => ReadsInv'
  BY NextReads DEF TransferInv
<1>3. ReadsInv => hidden = {}
  BY DEF ReadsInv
<1> QED
  BY <1>1, <1>2, <1>3, TransferSound, EveryFileAccounted, PTL DEF Spec

(* Unless a write to the destination device fails, fs2dev ends a copy that *)
(* it has begun with CopyStatusDone: write_fs never answers an error       *)
(* before CopyDone, and a client gets one final answer to each request,    *)
(* whichever children die.                                                 *)
THEOREM OneAnswerEach ==
    ASSUME "Bad" \notin FsTypes, "dev_write" \notin Faults
    PROVE  Spec => []OneFinalAnswer
<1>1. Init => FinalInv
  BY InitFinal
<1>2. TransferInv /\ FinalInv /\ [Next]_vars => FinalInv'
  BY NextFinal DEF TransferInv
<1>3. FinalInv => OneFinalAnswer
  <2>1. Len(<<>>) = 0 /\ \A a : Len(<<a>>) = 1
    OBVIOUS
  <2> QED
    BY SMT, <2>1 DEF FinalInv, OneFinalAnswer
<1> QED
  BY <1>1, <1>2, <1>3, TransferSound, PTL DEF Spec

(* Unless a write to the destination device fails, a client that is told   *)
(* CopyDone has the image on the device.                                   *)
THEOREM CopyDoneTrue ==
    ASSUME "Bad" \notin FsTypes, "dev_write" \notin Faults
    PROVE  Spec => []CopyDoneMeansCopied
<1>1. Init => FinalInv
  BY InitFinal
<1>2. TransferInv /\ FinalInv /\ [Next]_vars => FinalInv'
  BY NextFinal DEF TransferInv
<1>3. TransferInv /\ FinalInv => CopyDoneMeansCopied
  <2>1. SUFFICES ASSUME TransferInv, FinalInv, dest = "Usb",
                        NEW i \in DOMAIN answers, answers[i] = "CopyDone"
                 PROVE  dev = "image"
    BY DEF CopyDoneMeansCopied
  <2>2. DOMAIN <<>> = {} /\ \A a : DOMAIN <<a>> = {1} /\ <<a>>[1] = a
    BY SMT
  <2>3. answers = <<"CopyDone">>
    BY <2>1, <2>2 DEF FinalInv
  <2> QED
    BY <2>1, <2>3 DEF TransferInv, AccountInv, CopyInv
<1> QED
  BY <1>1, <1>2, <1>3, TransferSound, PTL DEF Spec
=============================================================================
