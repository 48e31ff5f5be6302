--------------------------- MODULE TransferProofs ---------------------------
(***************************************************************************)
(* What a transfer may put where: the rest of TarInv, the list of files    *)
(* and the image (CleanInv, ImgInv), the destination device (DevInv) and   *)
(* the report (AccountInv).                                                *)
(*                                                                         *)
(* A step of usbsas either belongs to the transfer or leaves all of them   *)
(* alone (AsideSteps), so each invariant is looked at for the few actions  *)
(* that touch what it is about; a child is looked at only if it writes     *)
(* what the invariant is about.                                            *)
(***************************************************************************)
EXTENDS ArchiveProofs

(* A leaf that names no prover is for Zenon.                               *)
USE Zenon

---------------------------------------------------------------------------
(* tar2files leaves the archive as it is.                                  *)
LEMMA Tar2FilesTar ==
    ASSUME SessionInv, TarInv, Tar2FilesStep
    PROVE  TarInv'
<1> DEFINE c == "tar2files"
<1>1. /\ Tar2FilesNext /\ UNCHANGED state /\ IpcTypeOK /\ c \in Procs
      /\ {"files2tar", "analyzer"} \subseteq Procs \ {c}
      /\ req[c] \in Seq(Reqs)
  BY DEF Tar2FilesStep, orchVars, ctlVars, SessionInv, TypeInv, IpcTypeOK,
     Procs, Children
<1>2. Untouched("files2tar") /\ Untouched("analyzer")
  BY <1>1, ChildrenAlone DEF Alone
<1>3. UNCHANGED <<tar, tarCur, tarClosed>>
  BY <1>1 DEF Tar2FilesNext, T2FUnlock, T2FLoadMetadata, T2FGetAttr,
     T2FReadFile, T2FReadDir, T2FEnd, T2FUnexpected, T2FWaitEnd, tarVars
<1>4. (\A e : InTar(e)' = InTar(e)) /\ Archived' = Archived
  BY <1>3 DEF InTar, Archived
<1>5. \A rs, s : /\ Answer(c, rs, s) => st'[c] = s /\ req'[c] = Tail(req[c])
                 /\ Emit(c, rs, s) => st'[c] = s /\ req'[c] = req[c]
  BY <1>1, Touches
<1>6. \/ req[c] # <<>> /\ req'[c] = Tail(req[c])
      \/ req'[c] = req[c]
  BY <1>1, <1>5 DEF Tar2FilesNext, T2FUnlock, T2FLoadMetadata, T2FGetAttr,
     T2FReadFile, T2FReadDir, T2FEnd, T2FUnexpected, T2FWaitEnd, WaitEndOnce,
     RunError, Receives, ReceivesOther
<1>7. ASSUME ~tarClosed PROVE st'[c] \notin {"LoadMetadata", "MainLoop"}
  <2>1. st[c] \notin {"LoadMetadata", "MainLoop"} /\ Among(req[c], NotRead)
    BY <1>7 DEF TarInv, ClosedInv
  <2>2. CASE T2FUnlock
    <3>1. req[c] # <<>> /\ Head(req[c]).type = "Unlock"
      BY <2>2 DEF T2FUnlock, Receives
    <3>2. Head(req[c]).value # 1
      BY <1>1, <2>1, <3>1, AmongTail DEF NotRead
    <3> QED
      BY SMT, <1>5, <2>2, <3>2 DEF T2FUnlock
  <2>3. CASE T2FWaitEnd
    BY SMT, <1>5, <2>3 DEF T2FWaitEnd, WaitEndOnce
  <2> QED
    BY <1>1, <2>1, <2>2, <2>3 DEF Tar2FilesNext, T2FLoadMetadata, T2FGetAttr,
       T2FReadFile, T2FReadDir, T2FEnd, T2FUnexpected, Receives, ReceivesOther
<1>8. Among(req[c], NotRead) => Among(req'[c], NotRead)
  BY <1>1, <1>6, AmongTail
<1>9. ClosedInv'
  BY <1>1, <1>2, <1>3, <1>7, <1>8 DEF TarInv, ClosedInv, Untouched
<1> QED
  BY <1>2, <1>3, <1>4, <1>9 DEF TarInv, WholeInv, VerdictInv, Untouched

(* The analyzer is asked for its verdict when the archive is closed.       *)
LEMMA AnalyzerAsked ==
    ASSUME SessionInv, Receives("analyzer", "Running", "Analyze")
    PROVE  rsp["analyzer"] = <<>> /\ state = "WriteFiles"
<1> DEFINE c == "analyzer"
<1>1. c \in Children /\ c \in Procs
  BY DEF Children, Procs
<1>2. /\ AnalyzerOK(st[c], req[c], rsp[c], wait = c, pc) /\ req[c] \in Seq(Reqs)
      /\ At(state, pc, dest) /\ WaitOK
  BY <1>1 DEF SessionInv, PipeInv, TypeInv, IpcTypeOK, ControlInv, ChildOK,
     PipesOK
<1>3. st[c] \notin Parked /\ req[c] # <<>> /\ Head(req[c]).type = "Analyze"
  BY DEF Receives, Parked
<1>4. /\ wait = c /\ rsp[c] = <<>>
      /\ pc = "end" => req[c][1].type = "End"
  BY <1>2, <1>3 DEF AnalyzerOK, Quiet
<1>5. pc # "end"
  <2>1. \A q : q \in Seq(Reqs) /\ q # <<>> => Head(q) = q[1]
    BY SMT
  <2> QED
    BY <1>2, <1>3, <1>4, <2>1
<1>6. pc = "analyze"
  BY <1>1, <1>2, <1>4, <1>5, CallFacts DEF WaitOK
<1> QED
  BY <1>2, <1>4, <1>6, PointStates

(* TarInv is kept by the services: the verdict is on the closed archive.   *)
LEMMA ServicesTar ==
    ASSUME SessionInv, TarInv, ServicesStep
    PROVE  TarInv'
<1> DEFINE c == "analyzer"
<1>1. /\ ServicesNext /\ UNCHANGED state /\ IpcTypeOK /\ c \in Procs
      /\ {"files2tar", "tar2files"} \subseteq Procs \ ServiceNames
  BY DEF ServicesStep, orchVars, ctlVars, SessionInv, TypeInv, Procs, Children,
     ServiceNames
<1>2. Untouched("files2tar") /\ Untouched("tar2files")
  BY <1>1, ChildrenAlone DEF Alone
<1>3. UNCHANGED <<tar, tarCur, tarClosed>>
  BY <1>1 DEF ServicesNext, AnalyzerAnalyze, AnalyzerAgain, UploaderUpload,
     CmdExecRun, IdentificatorId, UsbDevDevices, ServiceEnd, ServiceWaitEnd,
     tarVars
<1>4. (\A e : InTar(e)' = InTar(e)) /\ Archived' = Archived
  BY <1>3 DEF InTar, Archived
<1>5. ASSUME NEW m \in {Error, EndRsp}, NEW s, Answer(c, <<m>>, s), NEW S, m \in S,
             Among(rsp[c], S)
      PROVE  Among(rsp'[c], S)
  <2>1. <<m>> \in Seq(Rsps) /\ Among(<<m>>, S)
    BY <1>5, SmallAnswers, AmongFew
  <2> QED
    BY <1>1, <1>5, <2>1, AnswerAmong
<1>6. Error \in Other("Analyze") /\ EndRsp \in Other("Analyze")
  BY Names DEF Other, Error, EndRsp, Msg
<1>7. CASE \E m \in {Error, EndRsp} : \E s : Answer(c, <<m>>, s)
  <2>1. /\ Among(rsp[c], Other("Analyze")) => Among(rsp'[c], Other("Analyze"))
        /\ Among(rsp[c], Verdicts(Archived)) => Among(rsp'[c], Verdicts(Archived))
    BY <1>5, <1>6, <1>7, OtherVerdicts
  <2> QED
    BY <1>1, <1>2, <1>3, <1>4, <2>1 DEF TarInv, WholeInv, ClosedInv, VerdictInv,
       Untouched
<1>8. CASE Untouched(c)
  BY <1>1, <1>2, <1>3, <1>4, <1>8 DEF TarInv, WholeInv, ClosedInv, VerdictInv,
     Untouched
<1>9. ASSUME Receives(c, "Running", "Analyze"), NEW clean \in SUBSET Archived,
             NEW progress \in {<<>>, <<Msg("UploadStatus")>>}, NEW s,
             Answer(c, Append(progress, [type |-> "Analyze", clean |-> clean,
                                         dirty |-> Archived \ clean]), s)
      PROVE  TarInv'
  <2> DEFINE v == [type |-> "Analyze", clean |-> clean, dirty |-> Archived \ clean]
             u == Msg("UploadStatus")
  <2>1. rsp[c] = <<>> /\ state = "WriteFiles"
    BY <1>9, AnalyzerAsked
  <2>2. tarClosed
    BY <2>1 DEF TarInv, ClosedInv
  <2>3. v \in Verdicts(Archived) /\ u \in Verdicts(Archived) /\ v \in Rsps /\ u \in Rsps
    <3>1. Archived \subseteq Files
      BY DEF Archived
    <3>2. v \in Rsps /\ v.clean \cap v.dirty = {} /\ v.clean \cup v.dirty = Archived
      BY <1>9, <3>1 DEF Rsps
    <3>3. u \in Rsps /\ u.type # "Analyze"
      BY Names DEF Msg, RspTypes
    <3> QED
      BY <3>2, <3>3 DEF Verdicts
  <2> HIDE DEF v, u
  <2>4. progress \in Seq(Rsps) /\ Among(progress, Verdicts(Archived))
    <3>1. <<>> \in Seq(Rsps) /\ <<u>> \in Seq(Rsps)
      BY SMT, <2>3
    <3> QED
      BY <1>9, <2>3, <3>1, AmongFew DEF u
  <2>5. Among(Append(progress, v), Verdicts(Archived)) /\ Append(progress, v) \in Seq(Rsps)
    BY <2>3, <2>4, AmongAppend, AppendFacts
  <2>6. Among(rsp[c], Verdicts(Archived)) /\ Answer(c, Append(progress, v), s)
    BY <1>9 DEF TarInv, VerdictInv, v
  <2>7. Among(rsp'[c], Verdicts(Archived))
    BY <1>1, <2>5, <2>6, AnswerAmong
  <2> QED
    BY <1>2, <1>3, <1>4, <2>2, <2>7 DEF TarInv, WholeInv, ClosedInv, VerdictInv,
       Untouched
<1>10. CASE AnalyzerAnalyze
  BY <1>7, <1>9, <1>10 DEF AnalyzerAnalyze, Archived
<1>11. ASSUME NEW d \in Procs \ {c}, NEW rs, NEW s, Answer(d, rs, s) PROVE TarInv'
  BY <1>1, <1>8, <1>11, Touches
<1>12. {"uploader", "cmdexec", "identificator", "usbdev"} \subseteq Procs \ {c}
       /\ ServiceNames \subseteq Procs
  BY DEF Procs, Children, ServiceNames
<1>13. CASE AnalyzerAgain \/ UploaderUpload \/ CmdExecRun \/ IdentificatorId \/ UsbDevDevices
  BY <1>7, <1>11, <1>12, <1>13 DEF AnalyzerAgain, UploaderUpload, CmdExecRun,
     IdentificatorId, UsbDevDevices
<1>14. CASE ServiceEnd \/ ServiceWaitEnd
  <2>1. PICK d \in ServiceNames : \E m \in {Error, EndRsp} : \E s : Answer(d, <<m>>, s)
    BY <1>14 DEF ServiceEnd, ServiceWaitEnd, WaitEndLoop
  <2> QED
    BY <1>7, <1>11, <1>12, <2>1
<1> QED
  BY <1>1, <1>10, <1>13, <1>14 DEF ServicesNext

(* TarInv is kept by every step of a child.                                *)
LEMMA ChildrenTar ==
    ASSUME SessionInv, WriterInv, TarSync, TarInv, ChildNext \/ Crash
    PROVE  TarInv'
<1>1. CASE Files2FsStep \/ Fs2DevStep \/ Scsi2FilesStep \/ Dev2ScsiStep
  <2>1. /\ IpcTypeOK /\ UNCHANGED <<state, tar, tarCur, tarClosed>>
        /\ {"files2tar", "tar2files", "analyzer"} \subseteq
             Procs \ {"files2fs", "fs2dev", "scsi2files", "dev2scsi"}
    BY <1>1 DEF Files2FsStep, Fs2DevStep, Scsi2FilesStep, Dev2ScsiStep,
       orchVars, ctlVars, storeVars, tarVars, SessionInv, TypeInv, Procs,
       Children
  <2>2. Untouched("files2tar") /\ Untouched("tar2files") /\ Untouched("analyzer")
    BY <1>1, <2>1, ChildrenAlone DEF Alone, Files2FsStep, Fs2DevStep,
       Scsi2FilesStep, Dev2ScsiStep
  <2>3. (\A e : InTar(e)' = InTar(e)) /\ Archived' = Archived
    BY <2>1 DEF InTar, Archived
  <2> QED
    BY <2>1, <2>2, <2>3 DEF TarInv, WholeInv, ClosedInv, VerdictInv, Untouched
<1>2. CASE Crash
  <2>1. /\ UNCHANGED <<req, rsp, state, tar, tarCur, tarClosed>>
        /\ \A c \in Procs : st'[c] = st[c] \/ st'[c] = "End"
    BY <1>2 DEF Crash, Die, orchVars, ctlVars, storeVars, tarVars, SessionInv,
       TypeInv, IpcTypeOK
  <2>2. (\A e : InTar(e)' = InTar(e)) /\ Archived' = Archived
    BY <2>1 DEF InTar, Archived
  <2>3. "files2tar" \in Procs /\ "tar2files" \in Procs
    BY DEF Procs, Children
  <2> QED
    BY <2>1, <2>2, <2>3 DEF TarInv, WholeInv, ClosedInv, VerdictInv
<1> QED
  BY <1>1, <1>2, Files2TarTar, Tar2FilesTar, ServicesTar DEF ChildNext

---------------------------------------------------------------------------
(* The image, as files2fs writes it.                                       *)
LEMMA Files2FsSync ==
    ASSUME SessionInv, WriterInv, ImgSync, Files2FsStep
    PROVE  ImgSync'
<1> DEFINE c == "files2fs"
<1>1. Files2FsNext /\ UNCHANGED <<pc, wait, cur, off>> /\ c \in Writers
  BY DEF Files2FsStep, orchVars, ctlVars, loopVars, Writers
<1>2. /\ Chunks(cur)' = Chunks(cur) /\ IpcTypeOK /\ ImgTypeOK /\ off \in Nat
      /\ {"NewFile", "WriteFile"} \cap Spoilt = {}
      /\ {"WaitFsInfos", "WaitNewFile", "WritingFile", "ImgDisk", "ForwardBitVec"}
           \subseteq AtWork
      /\ pc \in EntryPoints => cur \in Entries
  BY <1>1 DEF Chunks, SessionInv, TypeInv, StoreTypeOK, OrchTypeOK, Spoilt,
     AtWork
<1>3. ASSUME Refuses(c), UNCHANGED <<img, imgCur>> PROVE ImgSync'
  <2>1. ~Handled(c) /\ ~Answered1(c, "NewFile")' /\ ~Answered1(c, "WriteFile")'
    BY <1>1, <1>2, <1>3, RefusedCall
  <2> QED
    BY <1>1, <1>2, <1>3, <2>1 DEF ImgSync
<1>4. ASSUME NEW m, m.type \notin {"NewFile", "WriteFile"}, NEW s, st[c] \in AtWork,
             req[c] # <<>>, Answer(c, <<m>>, s), UNCHANGED <<img, imgCur>>
      PROVE  ImgSync'
  <2>1. ~Handled(c) /\ ~Answered1(c, "NewFile")' /\ ~Answered1(c, "WriteFile")'
    BY <1>1, <1>4, AnsweredCall
  <2> QED
    BY <1>1, <1>2, <1>4, <2>1 DEF ImgSync
<1>5. CASE F2FEnd \/ F2FUnexpected \/ F2FWaitEnd
  BY <1>3, <1>5, PlainRefusals DEF F2FEnd, F2FUnexpected, F2FWaitEnd, imgVars
<1>6. CASE F2FNewFile
  <2>1. st[c] \in AtWork /\ req[c] # <<>> /\ Head(req[c]).type = "NewFile"
    BY <1>2, <1>6 DEF F2FNewFile, Receives
  <2>2. CASE img' = [img EXCEPT ![Head(req[c]).path] = 0] /\ imgCur' = Head(req[c]).path
    <3>1. pc \in {"dir_new", "w_new"} /\ Head(req[c]).path = cur
      BY <1>1, <2>1, Handles
    <3>2. img'[cur] = 0 /\ imgCur' = cur
      BY <1>2, <2>2, <3>1 DEF ImgTypeOK, EntryPoints
    <3> QED
      BY <1>1, <3>1, <3>2 DEF ImgSync
  <2>3. CASE Answer(c, <<Error>>, "WaitNewFile") /\ UNCHANGED <<img, imgCur>>
    BY <1>3, <2>1, <2>3, PlainRefusals
  <2> QED
    BY <1>6, <2>2, <2>3 DEF F2FNewFile
<1>7. CASE F2FWriteFile
  <2>1. st[c] \in AtWork /\ req[c] # <<>> /\ Head(req[c]).type = "WriteFile"
    BY <1>2, <1>7 DEF F2FWriteFile, Receives
  <2>2. pc = "w_write" /\ UNCHANGED imgCur
    BY <1>1, <1>7, <2>1, Handles DEF F2FWriteFile
  <2>3. CASE /\ Answer(c, <<Msg("WriteFile")>>, "WritingFile")
             /\ img' = [img EXCEPT ![imgCur] = @ + 1]
    <3>1. ~Handled(c) /\ Handled(c)'
      BY <1>1, <2>1, <2>3, AnsweredCall
    <3>2. imgCur = cur /\ img[cur] = off /\ off < Chunks(cur)
      BY <2>2, <3>1 DEF ImgSync
    <3>3. img'[cur] = off + 1
      BY <1>2, <2>2, <2>3, <3>2 DEF ImgTypeOK, EntryPoints
    <3> QED
      BY <1>1, <1>2, <2>2, <3>1, <3>2, <3>3 DEF ImgSync
  <2>4. CASE Answer(c, <<Error>>, "WaitNewFile")
    <3>1. Handled(c)' /\ ~Answered1(c, "WriteFile")'
      BY SMT, <1>1, <2>1, <2>4, AnsweredCall DEF Error, Msg
    <3> QED
      BY <1>1, <1>2, <2>2, <3>1 DEF ImgSync
  <2> QED
    BY <1>7, <2>3, <2>4 DEF F2FWriteFile
<1>8. CASE F2FEndFile
  BY <1>2, <1>3, <1>4, <1>8, PlainRefusals DEF F2FEndFile, Receives, imgVars,
     Msg
<1>9. CASE F2FClose \/ F2FSetFsInfos
  BY <1>2, <1>3, <1>4, <1>9, PlainRefusals DEF F2FClose, F2FSetFsInfos,
     Receives, imgVars, Msg
<1>10. CASE F2FImgDisk \/ F2FWriteData
  BY <1>2, <1>3, <1>4, <1>10, PlainRefusals DEF F2FImgDisk, F2FWriteData,
     Receives, imgVars, Msg
<1>11. CASE F2FBitVec
  BY <1>2, <1>4, <1>11 DEF F2FBitVec, Receives
<1> QED
  BY <1>1, <1>5, <1>6, <1>7, <1>8, <1>9, <1>10, <1>11 DEF Files2FsNext

(* usbsas writes into the image what passed the filter and the analyzer.   *)
LEMMA UsbsasClean ==
    ASSUME SessionInv, TarInv, CleanInv, ClientNext \/ UsbsasNext
    PROVE  CleanInv'
<1> DEFINE Base == /\ Early => dirty = {} /\ \A e \in Entries : img[e] = -1
                   /\ files \cap (Rejected \cup dirty) = {}
                   /\ OnlyClean
           Loops == /\ pc \in DirPoints => /\ todo \subseteq Dirs
                                           /\ pc # "dir_next" => cur \in Dirs
                    /\ pc \in WritePoints => /\ todo \subseteq files
                                             /\ pc # "w_next" => cur \in files
<1>1. Base /\ Loops /\ UNCHANGED img
  BY UsbsasFrame DEF CleanInv, storeVars, imgVars
<1>2. At(state, pc, dest) /\ Files \subseteq Entries /\ files \subseteq Files /\ dirs \subseteq Dirs
  BY DEF SessionInv, ControlInv, TypeInv, OrchTypeOK, Entries
<1>3. SUFFICES Base' /\ Loops'
  BY DEF CleanInv
<1>4. ASSUME UNCHANGED <<files, dirty>>, Early' => Early PROVE Base'
  BY <1>1, <1>4 DEF OnlyClean
<1>5. ASSUME state' \notin Sources, pc' # "analyze" PROVE ~Early'
  BY <1>5 DEF Early, Sources
<1>6. ASSUME pc' \notin DirPoints \cup WritePoints PROVE Loops'
  BY <1>6
<1>7. CASE Aside
  <2>1. CASE UNCHANGED <<state, pc>>
    BY <1>1, <1>4, <1>7, <2>1 DEF Aside, Early
  <2>2. CASE Leaving
    <3>1. (Early' => Early) /\ pc' \notin DirPoints \cup WritePoints
      BY <2>2 DEF Leaving, Early, Sources, FilePoints, DirPoints, WritePoints,
         MidPoints
    <3> QED
      BY <1>4, <1>6, <1>7, <3>1 DEF Aside
  <2> QED
    BY <1>7, <2>1, <2>2 DEF Aside
<1>8. CASE Select
  <2>1. Early /\ UNCHANGED dirty
    BY <1>2, <1>8, PointStates DEF Select, Early
  <2>2. files' \cap Rejected = {}
    BY <1>1, <1>8 DEF Select, reportVars
  <2>3. Base'
    BY SMT, <1>1, <1>2, <2>1, <2>2 DEF OnlyClean
  <2>4. pc' \in {"recv", "cf_size", "tar_next"}
    BY <1>8 DEF Select, GiveUp, RunEnds, RunFails, StartTar
  <2> QED
    BY <1>6, <2>3, <2>4 DEF DirPoints, WritePoints, MidPoints
<1>9. CASE GotDevSize \/ TarNext \/ TarFile \/ TarFileFails \/ TarClosed
  <2>1. pc \in {"cf_size"} \cup TarPoints /\ UNCHANGED <<files, dirty>>
    BY <1>9 DEF GotDevSize, TarNext, TarFile, TarFileFails, TarClosed, CallOk,
       CallFails, TarPoints, reportVars
  <2>2. Early
    BY <1>2, <2>1, PointStates DEF Early
  <2>3. pc' \in {"recv", "analyze", "analyzed", "upload", "exec"} \cup TarPoints
    BY <1>2, <1>9 DEF GotDevSize, TarNext, TarFile, TarFileFails, TarClosed,
       GiveUp, RunEnds, RunFails, StartTar, TarPoints, SessionInv, ControlInv
  <2> QED
    BY <1>4, <1>6, <2>1, <2>2, <2>3 DEF DirPoints, WritePoints, MidPoints,
       TarPoints
<1>10. CASE AnalyzeDone
  <2> DEFINE v == Head(rsp["analyzer"])
  <2>1. /\ pc = "analyze" /\ rsp["analyzer"] # <<>> /\ v.type = "Analyze"
        /\ files' = files \cap v.clean /\ dirty' = dirty \cup v.dirty /\ pc' = "analyzed"
        /\ UNCHANGED state
    BY <1>10, CallFacts DEF AnalyzeDone, CallOk, Read
  <2>2. rsp["analyzer"] \in Seq(Rsps) /\ Among(rsp["analyzer"], Verdicts(Archived))
    BY Names DEF SessionInv, TypeInv, IpcTypeOK, TarInv, VerdictInv
  <2>3. v \in Verdicts(Archived)
    BY <2>1, <2>2, AmongTail
  <2>4. v.clean \cap v.dirty = {}
    BY <2>1, <2>3 DEF Verdicts
  <2>5. Early /\ ~Early'
    BY <1>2, <2>1, PointStates DEF Early
  <2> HIDE DEF v
  <2>6. Base'
    BY SMT, <1>1, <1>2, <2>1, <2>4, <2>5 DEF OnlyClean
  <2> QED
    BY <1>6, <2>1, <2>6 DEF DirPoints, WritePoints, MidPoints
<1>11. CASE \/ Analyzed \/ InitFs \/ DirNext \/ WriteDir \/ WriteNext \/ WriteFile
            \/ WriteFileFails
  <2>1. /\ pc \in FilePoints \cup FsPoints /\ UNCHANGED <<files, dirty, dirs>>
        /\ state' \in {state, "WaitEnd"} /\ pc' # "analyze"
    BY <1>11 DEF Analyzed, InitFs, DirNext, WriteDir, WriteNext, WriteFile,
       WriteFileFails, CallOk, CallFails, FilePoints, FsPoints, reportVars,
       GiveUp, RunEnds
  <2>2. Base'
    BY <1>2, <1>4, <1>5, <2>1, PointStates DEF Sources
  <2>3. CASE Analyzed
    BY <1>6, <2>2, <2>3 DEF Analyzed, GiveUp, RunEnds, DirPoints, WritePoints,
       MidPoints
  <2>4. CASE InitFs
    BY <1>2, <2>2, <2>4 DEF InitFs, DirPoints, WritePoints, MidPoints
  <2>5. CASE DirNext
    BY <1>1, <2>1, <2>2, <2>5 DEF DirNext, DirPoints, WritePoints, MidPoints
  <2>6. CASE WriteDir
    BY <1>1, <2>1, <2>2, <2>6 DEF WriteDir, CallOk, loopVars, DirPoints,
       WritePoints, MidPoints
  <2>7. CASE WriteNext
    BY <1>1, <2>1, <2>2, <2>7 DEF WriteNext, DirPoints, WritePoints, MidPoints
  <2>8. CASE WriteFile \/ WriteFileFails
    <3>1. /\ pc \in WritePoints \ {"w_next"} /\ pc' \in WritePoints /\ UNCHANGED <<todo, cur>>
      BY <2>8 DEF WriteFile, WriteFileFails, CallOk, CallFails, loopVars,
         WritePoints, MidPoints
    <3> QED
      BY <1>1, <2>1, <2>2, <3>1 DEF DirPoints, WritePoints, MidPoints
  <2> QED
    BY <1>11, <2>3, <2>4, <2>5, <2>6, <2>7, <2>8
<1>12. CASE ForwardBitVec \/ StartCopy \/ CopyDone \/ CopyRefused \/ Delivered
  <2>1. /\ pc \in {"fs_close", "upload", "exec"} \cup FinalPoints
        /\ UNCHANGED <<files, dirty>>
        /\ state' \in {state, "WaitEnd", "TransferDone"}
        /\ pc' \in {"recv"} \cup FinalPoints
    BY <1>12 DEF ForwardBitVec, StartCopy, CopyDone, CopyRefused, Delivered,
       CallOk, RunEnds, RunFails, FinalPoints, reportVars
  <2>2. ~Early'
    BY SMT, <1>2, <1>5, <2>1, PointStates DEF Sources, FsPoints, FinalPoints
  <2> QED
    BY <1>4, <1>6, <2>1, <2>2 DEF DirPoints, WritePoints, MidPoints, FinalPoints
<1> QED
  BY <1>7, <1>8, <1>9, <1>10, <1>11, <1>12, AsideSteps DEF Transfers

(* files2fs writes at the entry usbsas is at.                              *)
LEMMA ImgWritten ==
    ASSUME SessionInv, WriterInv, ImgSync, Files2FsNext, img' # img
    PROVE  /\ pc \in {"dir_new", "w_new", "w_write"}
           /\ \A e \in Entries : e # cur => img'[e] = img[e]
           /\ st["files2fs"] \in {"WaitNewFile", "WritingFile"}
<1> DEFINE c == "files2fs"
<1>1. /\ c \in Writers /\ ImgTypeOK /\ {"WaitNewFile", "WritingFile"} \subseteq AtWork
  BY DEF Writers, AtWork, SessionInv, TypeInv, StoreTypeOK
<1>2. F2FNewFile \/ F2FWriteFile
  BY DEF Files2FsNext, F2FSetFsInfos, F2FEndFile, F2FClose, F2FBitVec,
     F2FImgDisk, F2FWriteData, F2FEnd, F2FUnexpected, F2FWaitEnd, imgVars
<1>3. CASE F2FNewFile
  <2>1. st[c] = "WaitNewFile" /\ req[c] # <<>> /\ Head(req[c]).type = "NewFile"
    BY <1>3 DEF F2FNewFile, Receives
  <2>2. pc \in {"dir_new", "w_new"} /\ Head(req[c]).path = cur
    BY <1>1, <2>1, Handles
  <2> QED
    BY <1>1, <1>3, <2>1, <2>2 DEF F2FNewFile, ImgTypeOK
<1>4. CASE F2FWriteFile
  <2>1. st[c] = "WritingFile" /\ req[c] # <<>> /\ Head(req[c]).type = "WriteFile"
    BY <1>4 DEF F2FWriteFile, Receives
  <2>2. pc = "w_write"
    BY <1>1, <2>1, Handles
  <2>3. imgCur = cur
    BY <2>2 DEF ImgSync
  <2> QED
    BY <1>1, <1>4, <2>1, <2>2, <2>3 DEF F2FWriteFile, ImgTypeOK
<1> QED
  BY <1>2, <1>3, <1>4

(* The steps of the children, as usbsas sees them.                         *)
LEMMA ChildrenFrame ==
    ASSUME ChildNext \/ Crash
    PROVE  /\ UNCHANGED orchVars
           /\ Files2FsNext \/ UNCHANGED imgVars
           /\ Fs2DevNext \/ UNCHANGED devVars
  BY DEF ChildNext, Files2TarStep, Tar2FilesStep, Files2FsStep, Fs2DevStep,
     Scsi2FilesStep, Dev2ScsiStep, ServicesStep, Crash, storeVars

(* CleanInv is kept by every step of a child.                              *)
LEMMA ChildrenClean ==
    ASSUME SessionInv, WriterInv, ImgSync, CleanInv, ChildNext \/ Crash
    PROVE  CleanInv'
<1>1. UNCHANGED <<state, pc, files, dirty, todo, cur>>
  BY ChildrenFrame DEF orchVars, ctlVars, loopVars, reportVars
<1>2. CASE img' = img
  BY <1>1, <1>2 DEF CleanInv, Early, OnlyClean
<1>3. CASE img' # img
  <2>1. Files2FsNext
    BY <1>3, ChildrenFrame DEF imgVars
  <2>2. /\ pc \in {"dir_new", "w_new", "w_write"}
        /\ \A e \in Entries : e # cur => img'[e] = img[e]
    BY <1>3, <2>1, ImgWritten
  <2>3. state = "WriteFiles"
    BY <2>2, PointStates DEF SessionInv, ControlInv, FilePoints
  <2>4. cur \in Dirs \/ (cur \in files /\ files \cap (Rejected \cup dirty) = {})
    BY <2>2 DEF CleanInv, DirPoints, WritePoints, MidPoints
  <2>5. OnlyClean'
    BY <1>1, <2>2, <2>4, EntriesDisjoint DEF CleanInv, OnlyClean, Entries
  <2>6. ~Early'
    BY <1>1, <2>2, <2>3 DEF Early
  <2> QED
    BY <1>1, <2>5, <2>6 DEF CleanInv
<1> QED
  BY <1>2, <1>3

---------------------------------------------------------------------------
(* usbsas closes the image before it asks for the copy, and reports a file *)
(* that it leaves unfinished.                                              *)
LEMMA UsbsasImg ==
    ASSUME SessionInv, WriterInv, ImgSync, CleanInv, ImgInv, ClientNext \/ UsbsasNext
    PROVE  ImgInv'
<1> DEFINE Sound(f) == \/ img[f] = -1 \/ InImage(f) \/ f \in errors
                       \/ (f = cur /\ pc \in MidPoints)
<1>1. /\ UNCHANGED <<st, dev, img, imgCur, imgClosed>>
      /\ \A f : InImage(f)' = InImage(f)
  BY UsbsasFrame DEF storeVars, imgVars, devVars, InImage
<1>2. /\ At(state, pc, dest) /\ Files \subseteq Entries /\ "files2fs" \in Children
      /\ rsp["files2fs"] \in Seq(Rsps)
  BY DEF SessionInv, ControlInv, TypeInv, IpcTypeOK, Entries, Children, Procs
<1>3. \A f \in Files : Sound(f)
  BY DEF ImgInv
<1>4. /\ \/ errors \subseteq errors'
         \/ \A e \in Entries : img[e] = -1
      /\ \A f \in Files : Sound(f)'
      /\ pc' \in FinalPoints => pc \in FinalPoints \/ CallOk("fs_close")
  <2>1. ASSUME pc \notin MidPoints, errors \subseteq errors' PROVE \A f \in Files : Sound(f)'
    BY <1>1, <1>3, <2>1
  <2>2. CASE Aside
    <3>1. CASE UNCHANGED <<state, pc>>
      BY <1>1, <1>3, <2>2, <3>1 DEF Aside
    <3>2. CASE Leaving
      BY <2>1, <2>2, <3>2 DEF Aside, Leaving
    <3> QED
      BY <2>2, <3>1, <3>2 DEF Aside
  <2>3. CASE Select
    <3>1. Early
      BY <1>2, <2>3, PointStates DEF Select, Early
    <3>2. pc' \in {"recv", "cf_size", "tar_next"}
      BY <2>3 DEF Select, GiveUp, RunEnds, RunFails, StartTar
    <3>3. \A e \in Entries : img[e] = -1
      BY <3>1 DEF CleanInv
    <3> QED
      BY <1>1, <1>2, <3>2, <3>3 DEF FinalPoints
  <2>4. CASE \/ GotDevSize \/ TarNext \/ TarFile \/ TarFileFails \/ TarClosed \/ AnalyzeDone
             \/ Analyzed \/ InitFs \/ DirNext \/ WriteDir \/ WriteNext
    <3>1. pc \notin MidPoints /\ errors \subseteq errors'
      BY <2>4 DEF GotDevSize, TarNext, TarFile, TarFileFails, TarClosed,
         AnalyzeDone, Analyzed, InitFs, DirNext, WriteDir, WriteNext, CallOk,
         CallFails, MidPoints, reportVars
    <3>2. pc' \notin FinalPoints
      BY <1>2, <2>4 DEF GotDevSize, TarNext, TarFile, TarFileFails, TarClosed,
         AnalyzeDone, Analyzed, InitFs, DirNext, WriteDir, WriteNext, GiveUp,
         RunEnds, RunFails, StartTar, FinalPoints, SessionInv, ControlInv
    <3> QED
      BY <2>1, <3>1, <3>2
  <2>5. CASE WriteFile
    <3>1. /\ pc \in {"w_attr"} \cup MidPoints /\ UNCHANGED <<cur, errors>>
          /\ pc' \in MidPoints \/ (pc = "w_end" /\ pc' = "w_next")
      BY <2>5 DEF WriteFile, CallOk, MidPoints, reportVars
    <3>2. pc = "w_end" => InImage(cur)
      BY DEF ImgSync, InImage
    <3> QED
      BY <1>1, <1>3, <3>1, <3>2 DEF MidPoints, FinalPoints
  <2>6. CASE WriteFileFails
    <3>1. errors' = errors \cup {cur} /\ pc' = "w_next"
      BY <2>6 DEF WriteFileFails
    <3> QED
      BY <1>1, <1>3, <3>1 DEF MidPoints, FinalPoints
  <2>7. CASE ForwardBitVec \/ StartCopy \/ CopyDone \/ CopyRefused \/ Delivered
    <3>1. /\ pc \notin MidPoints /\ UNCHANGED errors
          /\ pc \in FinalPoints \/ CallOk("fs_close") \/ pc' = "recv"
      BY <2>7 DEF ForwardBitVec, StartCopy, CopyDone, CopyRefused, Delivered,
         CallOk, RunEnds, RunFails, FinalPoints, MidPoints, reportVars
    <3> QED
      BY <2>1, <3>1 DEF FinalPoints
  <2> QED
    BY <2>2, <2>3, <2>4, <2>5, <2>6, <2>7, AsideSteps DEF Transfers
<1>5. ASSUME ~imgClosed PROVE pc' \notin FinalPoints
  <2>1. Among(rsp["files2fs"], Other("Close")) /\ pc \notin FinalPoints
    BY <1>5 DEF ImgInv
  <2>2. rsp["files2fs"] # <<>> => Head(rsp["files2fs"]).type # "Close"
    BY <1>2, <2>1, AmongTail DEF Other
  <2> QED
    BY <1>4, <2>1, <2>2, WriterCalls, WriterRequests DEF CallOk, Read
<1>6. ~imgClosed => Among(rsp'["files2fs"], Other("Close"))
  BY <1>2, UsbsasRsps DEF ImgInv
<1>7. ImageComplete'
  BY <1>1, <1>2, <1>4 DEF ImgInv, ImageComplete
<1> QED
  BY <1>1, <1>4, <1>5, <1>6, <1>7 DEF ImgInv

(* files2fs does not touch an image that is closed, and answers Close only *)
(* when it has closed it.                                                  *)
LEMMA Files2FsImg ==
    ASSUME SessionInv, WriterInv, ImgSync, CleanInv, ImgInv, Files2FsStep
    PROVE  ImgInv'
<1> DEFINE c == "files2fs"
           Calm == Among(rsp[c], Other("Close"))
<1>1. /\ Files2FsNext /\ UNCHANGED <<pc, cur, errors, dev>> /\ IpcTypeOK /\ c \in Procs
      /\ "fs2dev" \in Procs \ {c} /\ "Close" \notin Spoilt
      /\ {"SetFsInfos", "NewFile", "WriteFile", "EndFile", "ImgDisk", "WriteData"}
           \subseteq RspTypes \ {"Close"}
  BY DEF Files2FsStep, orchVars, ctlVars, loopVars, reportVars, devVars,
     SessionInv, TypeInv, Procs, Children, Spoilt, RspTypes, ReqTypes
<1>2. st'["fs2dev"] = st["fs2dev"]
  BY <1>1, ChildrenAlone DEF Alone, Untouched
<1>3. \A rs, s : Answer(c, rs, s) => st'[c] = s
  BY <1>1, Touches
<1>4. /\ imgClosed => UNCHANGED <<imgClosed, img>> /\ st'[c] \in {"ForwardBitVec", "WaitEnd", "End"}
      /\ ~imgClosed /\ imgClosed' => st'[c] = "ForwardBitVec"
  <2>1. imgClosed => UNCHANGED img /\ st[c] \in {"ForwardBitVec", "WaitEnd", "End"}
    BY <1>1, ImgWritten DEF ImgInv
  <2>2. CASE F2FSetFsInfos \/ F2FNewFile \/ F2FWriteFile \/ F2FEndFile \/ F2FImgDisk \/ F2FWriteData
    <3>1. st[c] \in {"WaitFsInfos", "WaitNewFile", "WritingFile", "ImgDisk"} /\ UNCHANGED imgClosed
      BY <2>2 DEF F2FSetFsInfos, F2FNewFile, F2FWriteFile, F2FEndFile,
         F2FImgDisk, F2FWriteData, Receives, imgVars
    <3> QED
      BY <2>1, <3>1
  <2>3. CASE F2FClose
    <3>1. /\ st[c] = "WaitNewFile"
          /\ Answer(c, <<Msg("Close")>>, "ForwardBitVec") \/ UNCHANGED imgClosed
      BY <2>3 DEF F2FClose, Receives
    <3>2. ~imgClosed
      BY <2>1, <3>1
    <3>3. CASE Answer(c, <<Msg("Close")>>, "ForwardBitVec")
      <4>1. st'[c] = "ForwardBitVec"
        BY <1>3, <3>3
      <4> QED
        BY <3>2, <4>1
    <3> QED
      BY SMT, <3>1, <3>2, <3>3
  <2>4. CASE F2FBitVec \/ F2FEnd \/ F2FUnexpected \/ F2FWaitEnd
    <3>1. st'[c] \in {"ForwardBitVec", "WaitEnd", "End"} /\ UNCHANGED imgClosed
      BY <1>3, <2>4 DEF F2FBitVec, F2FEnd, F2FUnexpected, F2FWaitEnd, RunError,
         BadRequestTwice, WaitEndOnce, imgVars
    <3> QED
      BY <2>1, <3>1
  <2> QED
    BY <1>1, <2>2, <2>3, <2>4 DEF Files2FsNext
<1>5. Calm => Calm' \/ imgClosed'
  <2> SUFFICES ASSUME Calm PROVE Calm' \/ imgClosed'
    OBVIOUS
  <2>1. ASSUME Refuses(c) PROVE Calm'
    BY <1>1, <2>1, RefusesAmong
  <2>2. ASSUME NEW t \in RspTypes \ {"Close"}, NEW s, Answer(c, <<Msg(t)>>, s) PROVE Calm'
    BY <1>1, <2>2, RepliesAmong
  <2>3. CASE F2FEnd \/ F2FUnexpected \/ F2FWaitEnd
    BY <2>1, <2>3, PlainRefusals
  <2>4. CASE F2FSetFsInfos \/ F2FNewFile \/ F2FWriteFile
    BY <1>1, <2>1, <2>2, <2>4, PlainRefusals DEF F2FSetFsInfos, F2FNewFile,
       F2FWriteFile, Receives
  <2>5. CASE F2FEndFile \/ F2FImgDisk \/ F2FWriteData
    BY <1>1, <2>1, <2>2, <2>5, PlainRefusals DEF F2FEndFile, F2FImgDisk,
       F2FWriteData, Receives
  <2>6. CASE F2FClose
    BY <2>1, <2>6, PlainRefusals DEF F2FClose, Receives
  <2>7. CASE F2FBitVec
    <3> DEFINE m == [type |-> "BitVec", last |-> bvLeft' = 0]
    <3>1. m \in Other("Close") /\ m \in Rsps
      BY DEF Other, Rsps
    <3>2. PICK s : Answer(c, <<m>>, s)
      BY <2>7 DEF F2FBitVec
    <3> HIDE DEF m
    <3>3. <<m>> \in Seq(Rsps) /\ Among(<<m>>, Other("Close"))
      BY SMT, <3>1, AmongFew
    <3> QED
      BY <1>1, <3>2, <3>3, AnswerAmong
  <2> QED
    BY <1>1, <2>3, <2>4, <2>5, <2>6, <2>7 DEF Files2FsNext
<1>6. ASSUME NEW f \in Files
      PROVE  \/ img'[f] = -1 \/ InImage(f)' \/ f \in errors'
             \/ (f = cur' /\ pc' \in MidPoints)
  <2>1. CASE img'[f] = img[f]
    BY <1>1, <2>1 DEF ImgInv, InImage
  <2>2. CASE img'[f] # img[f]
    <3>1. pc \in {"dir_new", "w_new", "w_write"} /\ f = cur
      BY <1>1, <2>2, ImgWritten DEF Entries
    <3>2. pc = "dir_new" => cur \in Dirs
      BY DEF CleanInv, DirPoints
    <3> QED
      BY <1>1, <1>6, <3>1, <3>2, EntriesDisjoint DEF MidPoints
  <2> QED
    BY <2>1, <2>2
<1>7. ImageComplete'
  BY SMT, <1>1, <1>2, <1>4 DEF ImgInv, ImageComplete, InImage
<1> QED
  <2>1. imgClosed' => st'[c] \in {"ForwardBitVec", "WaitEnd", "End"}
    BY <1>4
  <2>2. ~imgClosed' => Calm' /\ pc' \notin FinalPoints
    <3>1. ~imgClosed' => ~imgClosed
      BY <1>4
    <3>2. ~imgClosed => Calm /\ pc \notin FinalPoints
      BY DEF ImgInv
    <3> QED
      BY <1>1, <1>5, <3>1, <3>2
  <2> QED
    BY <1>6, <1>7, <2>1, <2>2 DEF ImgInv

---------------------------------------------------------------------------
(* fs2dev begins a copy or a wipe when usbsas has asked for it, and writes *)
(* to the device meanwhile only.                                           *)
LEMMA Fs2DevWrites ==
    ASSUME SessionInv, Fs2DevNext
    PROVE  /\ st'["fs2dev"] = "Copying" => st["fs2dev"] = "Copying" \/ pc = "startcopy"
           /\ st'["fs2dev"] = "Wiping" => st["fs2dev"] = "Wiping" \/ pc = "wipe"
           /\ dev' # dev => st["fs2dev"] \in {"Copying", "Wiping"}
           /\ dev' = "image" => dev = "image" \/ st["fs2dev"] = "Copying"
<1> DEFINE c == "fs2dev"
<1>1. /\ c \in Procs /\ c \in Children /\ IpcTypeOK
      /\ Fs2DevOK(st[c], req[c], rsp[c], wait = c, pc) /\ req[c] \in Seq(Reqs)
  BY DEF SessionInv, PipeInv, TypeInv, IpcTypeOK, ChildOK, PipesOK, Children,
     Procs
<1>2. \A rs, s : Answer(c, rs, s) \/ Emit(c, rs, s) => st'[c] = s
  BY <1>1, Touches
<1>3. ASSUME NEW s \in {"BitVecLoaded", "DevOpened"}, NEW t, Receives(c, s, t)
      PROVE  pc \in DOMAIN DevAsks /\ t = DevAsks[pc]
  <2>1. /\ st[c] \notin Parked \cup {"Copying", "Wiping"} /\ req[c] # <<>>
        /\ Head(req[c]) = req[c][1] /\ Head(req[c]).type = t
    <3>1. st[c] = s /\ req[c] # <<>> /\ Head(req[c]).type = t
      BY <1>3 DEF Receives
    <3>2. Head(req[c]) = req[c][1]
      BY SMT, <1>1
    <3> QED
      BY <1>3, <3>1, <3>2 DEF Parked
  <2> QED
    BY <1>1, <2>1 DEF Fs2DevOK, Quiet
<1>4. CASE F2DStartCopy
  <2>1. pc = "startcopy"
    BY SMT, <1>3, <1>4 DEF F2DStartCopy, DevAsks
  <2> QED
    BY <1>2, <1>4, <2>1 DEF F2DStartCopy
<1>5. CASE F2DWipe
  <2>1. pc = "wipe"
    BY SMT, <1>3, <1>5 DEF F2DWipe, DevAsks
  <2> QED
    BY <1>2, <1>5, <2>1 DEF F2DWipe
<1>6. CASE F2DWriteGroup \/ F2DWriteFails \/ F2DStatusDone
  BY <1>2, <1>6 DEF F2DWriteGroup, F2DWriteFails, F2DStatusDone, devVars
<1>7. CASE F2DUnlock \/ F2DDevSize \/ F2DLoadBitVec \/ F2DEnd \/ F2DUnexpected \/ F2DWaitEnd
  <2>1. st'[c] \in {"WaitEnd", "DevOpened", "LoadBitVec", "BitVecLoaded", "End"} /\ UNCHANGED dev
    BY <1>2, <1>7 DEF F2DUnlock, F2DDevSize, F2DLoadBitVec, F2DEnd,
       F2DUnexpected, F2DWaitEnd, RunError, BadRequestTwice, WaitEndOnce,
       devVars
  <2> QED
    BY <2>1
<1> QED
  BY <1>4, <1>5, <1>6, <1>7 DEF Fs2DevNext

(* A step of a child other than fs2dev.                                    *)
LEMMA Fs2DevApart ==
    ASSUME SessionInv, ChildNext \/ Crash
    PROVE  \/ Fs2DevStep
           \/ /\ UNCHANGED <<dev, devLeft>> /\ st'["fs2dev"] \in {st["fs2dev"], "End"}
              /\ req'["fs2dev"] = req["fs2dev"] /\ rsp'["fs2dev"] = rsp["fs2dev"]
<1>1. IpcTypeOK /\ "fs2dev" \in Procs
  BY DEF SessionInv, TypeInv, Procs, Children
<1>2. CASE Crash
  BY <1>1, <1>2 DEF Crash, Die, storeVars, devVars, IpcTypeOK
<1>3. CASE ChildNext /\ ~Fs2DevStep
  <2>1. UNCHANGED <<dev, devLeft>>
    BY <1>3, ChildrenFrame DEF ChildNext, Files2TarStep, Tar2FilesStep,
       Files2FsStep, Scsi2FilesStep, Dev2ScsiStep, ServicesStep, devVars,
       storeVars
  <2>2. "fs2dev" \notin {"files2tar", "tar2files", "files2fs", "scsi2files", "dev2scsi"}
        /\ "fs2dev" \notin ServiceNames
    BY DEF ServiceNames
  <2>3. Untouched("fs2dev")
    BY <1>1, <1>3, <2>2, ChildrenAlone DEF ChildNext, Files2TarStep,
       Tar2FilesStep, Files2FsStep, Scsi2FilesStep, Dev2ScsiStep, ServicesStep,
       Alone
  <2> QED
    BY <2>1, <2>3 DEF Untouched
<1> QED
  BY <1>2, <1>3

(* ImgInv is kept by every step of a child.                                *)
LEMMA ChildrenImg ==
    ASSUME SessionInv, WriterInv, ImgSync, CleanInv, ImgInv, ChildNext \/ Crash
    PROVE  ImgInv'
<1>1. CASE Files2FsStep
  BY <1>1, Files2FsImg
<1>2. CASE ~Files2FsStep
  <2>1. UNCHANGED <<pc, cur, errors, img, imgClosed>>
    BY <1>2, ChildrenFrame DEF orchVars, ctlVars, loopVars, reportVars, imgVars,
       storeVars, ChildNext, Files2TarStep, Tar2FilesStep, Fs2DevStep,
       Scsi2FilesStep, Dev2ScsiStep, ServicesStep, Crash
  <2>2. /\ IpcTypeOK /\ "files2fs" \in Procs /\ "files2fs" \notin ServiceNames
        /\ "files2fs" \notin {"files2tar", "tar2files", "fs2dev", "scsi2files", "dev2scsi"}
    BY DEF SessionInv, TypeInv, Procs, Children, ServiceNames
  <2>3. /\ rsp'["files2fs"] = rsp["files2fs"]
        /\ st'["files2fs"] \in {st["files2fs"], "End"}
    <3>1. CASE Crash
      BY <2>2, <3>1 DEF Crash, Die, IpcTypeOK
    <3>2. CASE ChildNext
      <4>1. Untouched("files2fs")
        BY <1>2, <2>2, <3>2, ChildrenAlone DEF ChildNext, Files2TarStep,
           Tar2FilesStep, Fs2DevStep, Scsi2FilesStep, Dev2ScsiStep,
           ServicesStep, Alone
      <4> QED
        BY <4>1 DEF Untouched
    <3> QED
      BY <3>1, <3>2
  <2>4. \A f : InImage(f)' = InImage(f)
    BY <2>1 DEF InImage
  <2>5. ImageComplete'
    <3>1. /\ st'["fs2dev"] = "Copying" => st["fs2dev"] = "Copying" \/ pc = "startcopy"
          /\ dev' = "image" => dev = "image" \/ st["fs2dev"] = "Copying"
      BY Fs2DevWrites, Fs2DevApart DEF Fs2DevStep
    <3>2. pc = "startcopy" => imgClosed /\ pc \notin MidPoints
      BY DEF ImgInv, FinalPoints, MidPoints
    <3> QED
      BY <2>1, <2>4, <3>1, <3>2 DEF ImgInv, ImageComplete
  <2> QED
    BY <2>1, <2>3, <2>4, <2>5 DEF ImgInv
<1> QED
  BY <1>1, <1>2

(* DevInv is kept by every step of a child.                                *)
LEMMA ChildrenDev ==
    ASSUME SessionInv, DevInv, ChildNext \/ Crash
    PROVE  DevInv'
<1>1. UNCHANGED <<state, pc, answers>>
  BY ChildrenFrame DEF orchVars, ctlVars
<1>2. Untaken' = Untaken
  BY <1>1 DEF Untaken
<1>3. Untaken => pc \notin {"startcopy", "wipe"}
  <2>1. pc \in {"startcopy", "wipe"} => answers = <<>> /\ state \in {"Wipe", "WriteFiles"}
    BY PointStates DEF SessionInv, ControlInv, FinalPoints
  <2>2. DOMAIN <<>> = {}
    BY SMT
  <2>3. pc = "wipe" => state = "Wipe"
    BY PointStates DEF SessionInv, ControlInv
  <2> QED
    BY <2>1, <2>2, <2>3 DEF Untaken
<1> QED
  BY <1>2, <1>3, Fs2DevWrites, Fs2DevApart DEF DevInv, Fs2DevStep

(* DevInv is kept by every step of usbsas.                                 *)
LEMMA UsbsasDev ==
    ASSUME SessionInv, DevInv, ClientNext \/ UsbsasNext
    PROVE  DevInv'
<1>1. UNCHANGED <<st, dev>>
  BY UsbsasFrame DEF storeVars, devVars
<1>2. At(state, pc, dest) /\ (pc \notin {"recv", "exit"} => answers = <<>>)
  BY DEF SessionInv, ControlInv
<1>3. \A a : /\ DOMAIN <<a>> = {1} /\ <<a>>[1] = a
             /\ DOMAIN <<"Error", a>> = {1, 2} /\ <<"Error", a>>[1] = "Error" /\ <<"Error", a>>[2] = a
  BY SMT
<1>4. DOMAIN <<>> = {}
  BY SMT
<1>5. SUFFICES ASSUME Untaken' PROVE Untaken
  BY <1>1 DEF DevInv
<1>6. CASE Aside
  <2>1. CASE UNCHANGED <<state, pc, answers>>
    BY <1>5, <2>1 DEF Untaken
  <2>2. CASE Leaving
    BY SMT, <1>3, <1>4, <1>5, <2>2 DEF Leaving, Untaken, Sources, Outcomes
  <2> QED
    BY <1>6, <2>1, <2>2 DEF Aside
<1>7. CASE Select \/ GotDevSize \/ TarNext \/ TarFile \/ TarFileFails \/ TarClosed
  <2>1. pc \in {"select", "cf_size"} \cup TarPoints
    BY <1>7 DEF Select, GotDevSize, TarNext, TarFile, TarFileFails, TarClosed,
       CallOk, CallFails, TarPoints
  <2> QED
    BY <1>2, <2>1, PointStates DEF Untaken
<1>8. CASE \/ AnalyzeDone \/ Analyzed \/ DirNext \/ WriteDir \/ WriteNext \/ WriteFile
           \/ WriteFileFails
  <2>1. pc \in {"analyze"} \cup FilePoints
    BY <1>8 DEF AnalyzeDone, Analyzed, DirNext, WriteDir, WriteNext, WriteFile,
       WriteFileFails, CallOk, CallFails, FilePoints
  <2> QED
    BY <1>2, <2>1, PointStates DEF Untaken, FilePoints
<1>9. CASE InitFs \/ ForwardBitVec \/ StartCopy
  <2>1. /\ pc \in FsPoints \cup (FinalPoints \ {"copying"}) /\ UNCHANGED <<state, answers>>
        /\ pc = "startcopy" => pc' = "copying"
    BY <1>9 DEF InitFs, ForwardBitVec, StartCopy, CallOk, FsPoints, FinalPoints
  <2> QED
    BY <1>2, <1>4, <1>5, <2>1, PointStates DEF Untaken, FsPoints, FinalPoints
<1>10. CASE CopyDone \/ CopyRefused
  <2>1. /\ pc = "copying" /\ state' \in {"WaitEnd", "TransferDone"}
        /\ \/ \E a \in {"Wipe", "CopyDone", "Error"} : answers' = Append(answers, a)
           \/ answers' = answers \o <<"Error", "CopyDone">>
    BY <1>10 DEF CopyDone, CopyRefused, RunEnds
  <2>2. answers = <<>> /\ <<>> \o <<"Error", "CopyDone">> = <<"Error", "CopyDone">>
    BY SMT, <1>2, <2>1
  <2> QED
    BY SMT, <1>3, <1>5, <2>1, <2>2, FirstAnswer DEF Untaken
<1>11. CASE Delivered
  <2>1. pc \in {"upload", "exec"}
    BY <1>11 DEF Delivered, CallOk
  <2> QED
    BY <1>2, <2>1, PointStates DEF Untaken
<1> QED
  BY <1>6, <1>7, <1>8, <1>9, <1>10, <1>11, AsideSteps DEF Transfers

---------------------------------------------------------------------------
(* The copy, as fs2dev makes it.                                           *)
LEMMA Fs2DevTurns ==
    ASSUME SessionInv, Fs2DevNext
    PROVE  /\ st["fs2dev"] \in Retired => st'["fs2dev"] \in Retired /\ UNCHANGED dev
           /\ st'["fs2dev"] = "Copying" /\ devLeft' = 0 =>
                dev' = "image" \/ (st["fs2dev"] = "Copying" /\ devLeft = 0 /\ UNCHANGED dev)
           /\ Among(rsp["fs2dev"], Other("CopyStatusDone")) =>
                \/ Among(rsp'["fs2dev"], Other("CopyStatusDone"))
                \/ st["fs2dev"] = "Wiping"
                \/ /\ st["fs2dev"] = "Copying" /\ devLeft = 0
                   /\ st'["fs2dev"] \in Retired /\ UNCHANGED dev
<1> DEFINE c == "fs2dev"
           Calm(S) == Among(rsp[c], S) => Among(rsp'[c], S)
<1>1. /\ c \in Procs /\ IpcTypeOK /\ devLeft \in Nat /\ Groups # 0
      /\ "CopyStatusDone" \notin Spoilt
      /\ {"DevSize", "LoadBitVec", "StartCopy", "Wipe", "CopyStatus", "Error"} \subseteq
           RspTypes \ {"CopyStatusDone"}
  BY SMT, GroupsPositive DEF SessionInv, TypeInv, StoreTypeOK, DevTypeOK, Procs,
     Children, RspTypes, ReqTypes, Spoilt
<1>2. \A rs, s : Answer(c, rs, s) \/ Emit(c, rs, s) => st'[c] = s
  BY <1>1, Touches
<1>3. ASSUME NEW t \in RspTypes \ {"CopyStatusDone"}, NEW s,
             Answer(c, <<Msg(t)>>, s) \/ Emit(c, <<Msg(t)>>, s)
      PROVE  Calm(Other("CopyStatusDone"))
  BY <1>1, <1>3, RepliesAmong
<1>4. CASE F2DUnlock \/ F2DEnd \/ F2DUnexpected \/ F2DWaitEnd
  <2>1. UNCHANGED <<dev, devLeft>>
    BY <1>4 DEF F2DUnlock, F2DEnd, F2DUnexpected, F2DWaitEnd, devVars
  <2>4. WaitEndOnce(c) => Refuses(c)
    BY Refusals DEF WaitEndOnce, Receives, ReceivesOther
  <2>5. Refuses(c)
    BY ZenonT(30), <1>4, <2>4, Refusals DEF F2DUnlock, F2DEnd, F2DUnexpected,
       F2DWaitEnd, Receives, ReceivesOther
  <2>2. st'[c] \in {"WaitEnd", "DevOpened", "End"} /\ (st[c] \in Retired => st'[c] \in Retired)
    BY <1>2, <1>4 DEF F2DUnlock, F2DEnd, F2DUnexpected, F2DWaitEnd, RunError,
       BadRequestTwice, WaitEndOnce, Receives, Retired
  <2>3. Calm(Other("CopyStatusDone"))
    BY <1>1, <2>5, RefusesAmong
  <2> QED
    BY <2>1, <2>2, <2>3
<1>5. CASE F2DDevSize \/ F2DLoadBitVec \/ F2DStartCopy \/ F2DWipe
  <2>1. PICK t \in RspTypes \ {"CopyStatusDone"} : \E s : Answer(c, <<Msg(t)>>, s)
    BY <1>1, <1>5 DEF F2DDevSize, F2DLoadBitVec, F2DStartCopy, F2DWipe
  <2>2. /\ st[c] \notin Retired /\ UNCHANGED dev
        /\ st'[c] # "Copying" \/ devLeft' = Groups
    BY <1>2, <1>5 DEF F2DDevSize, F2DLoadBitVec, F2DStartCopy, F2DWipe,
       Receives, Retired, devVars
  <2> QED
    BY <1>1, <1>3, <2>1, <2>2
<1>6. CASE F2DWriteGroup
  <2>1. /\ st[c] \notin Retired /\ st'[c] = st[c]
        /\ st[c] = "Copying" /\ devLeft' = 0 => dev' = "image"
    BY SMT, <1>1, <1>2, <1>6 DEF F2DWriteGroup, Retired
  <2> QED
    BY <1>1, <1>3, <1>6, <2>1 DEF F2DWriteGroup
<1>7. CASE F2DWriteFails
  BY <1>1, <1>2, <1>3, <1>7 DEF F2DWriteFails, Retired, Error
<1>8. CASE F2DStatusDone
  BY <1>1, <1>2, <1>8 DEF F2DStatusDone, Retired, devVars
<1> QED
  BY <1>4, <1>5, <1>6, <1>7, <1>8 DEF Fs2DevNext

(* files2tar writes at the entry usbsas is at.                             *)
LEMMA TarWritten ==
    ASSUME SessionInv, WriterInv, TarSync, Files2TarNext, tar' # tar
    PROVE  /\ pc \in {"tar_new", "tar_write"}
           /\ \A e \in Entries : e # cur => tar'[e] = tar[e]
<1> DEFINE c == "files2tar"
<1>1. /\ c \in Writers /\ TarTypeOK /\ {"WaitNewFile", "WritingFile"} \subseteq AtWork
  BY DEF Writers, AtWork, SessionInv, TypeInv, StoreTypeOK
<1>2. F2TNewFile \/ F2TWriteFile
  BY DEF Files2TarNext, F2TUnlock, F2TEndFile, F2TClose, F2TEnd, F2TUnexpected,
     F2TWaitEnd, tarVars
<1>3. CASE F2TNewFile
  <2>1. st[c] = "WaitNewFile" /\ req[c] # <<>> /\ Head(req[c]).type = "NewFile"
    BY <1>3 DEF F2TNewFile, Receives
  <2>2. pc = "tar_new" /\ Head(req[c]).path = cur
    BY <1>1, <2>1, Handles
  <2> QED
    BY <1>1, <1>3, <2>1, <2>2 DEF F2TNewFile, TarTypeOK, tarVars
<1>4. CASE F2TWriteFile
  <2>1. st[c] = "WritingFile" /\ req[c] # <<>> /\ Head(req[c]).type = "WriteFile"
    BY <1>4 DEF F2TWriteFile, Receives
  <2>2. pc = "tar_write"
    BY <1>1, <2>1, Handles
  <2>3. tarCur = cur
    BY <2>2 DEF TarSync
  <2> QED
    BY <1>1, <1>4, <2>1, <2>2, <2>3 DEF F2TWriteFile, TarTypeOK, tarVars
<1> QED
  BY <1>2, <1>3, <1>4

(* ListInv is kept by every step of a child.                               *)
LEMMA ChildrenList ==
    ASSUME SessionInv, WriterInv, TarSync, ImgSync, ListInv, ChildNext \/ Crash
    PROVE  ListInv'
<1>1. UNCHANGED <<state, pc, files, filtered, errors, dirty, hidden, todo, cur>>
  BY ChildrenFrame DEF orchVars, ctlVars, jobVars, loopVars, reportVars
<1>2. files \subseteq Files /\ Files \subseteq Entries
  BY DEF SessionInv, TypeInv, OrchTypeOK, Entries
<1>3. Files2TarNext \/ UNCHANGED tar
  BY DEF ChildNext, Files2TarStep, Tar2FilesStep, Files2FsStep, Fs2DevStep,
     Scsi2FilesStep, Dev2ScsiStep, ServicesStep, Crash, storeVars, tarVars,
     Tar2FilesNext, T2FUnlock, T2FLoadMetadata, T2FGetAttr, T2FReadFile,
     T2FReadDir, T2FEnd, T2FUnexpected, T2FWaitEnd, ServicesNext,
     AnalyzerAnalyze, AnalyzerAgain, UploaderUpload, CmdExecRun,
     IdentificatorId, UsbDevDevices, ServiceEnd, ServiceWaitEnd
<1>4. ASSUME NEW f \in files
      PROVE  InTar(f)' = InTar(f) \/ (f = cur /\ pc \in TarFilePoints)
  BY <1>2, <1>3, TarWritten DEF InTar, TarFilePoints
<1>5. ASSUME NEW f \in files
      PROVE  InImage(f)' = InImage(f) \/ (f = cur /\ pc \in {"dir_new", "w_new", "w_write"})
  BY <1>2, ChildrenFrame, ImgWritten DEF InImage, imgVars
<1>6. /\ "analyze" \notin TarFilePoints
      /\ \A p \in {"w_next", "fs_close"} \cup FinalPoints : p \notin {"dir_new", "w_new", "w_write"}
      /\ "dir_new" \notin WritePoints
  BY DEF TarFilePoints, FinalPoints, WritePoints, MidPoints
<1>7. Noted' = Noted
  BY <1>1 DEF Noted
<1>8. ASSUME NEW f \in files, pc \in WritePoints, f \in todo \/ Wrote(f) \/ (f = cur /\ pc # "w_next")
      PROVE  f \in todo \/ Wrote(f)' \/ (f = cur /\ pc # "w_next")
  BY <1>1, <1>5, <1>6, <1>8 DEF Wrote
<1>9. ASSUME NEW f \in files, pc \in {"fs_close"} \cup FinalPoints, Wrote(f) PROVE Wrote(f)'
  BY <1>1, <1>5, <1>6, <1>9 DEF Wrote
<1> QED
  BY <1>1, <1>4, <1>6, <1>7, <1>8, <1>9 DEF ListInv

(* CopyInv is kept by every step of a child.                               *)
LEMMA ChildrenCopy ==
    ASSUME SessionInv, WriterInv, ImgSync, CopyInv, ChildNext \/ Crash
    PROVE  CopyInv'
<1> DEFINE Before == {"Init", "DevOpened", "PartitionOpened", "CopyFiles", "WriteFiles"}
           Told == Among(rsp["fs2dev"], Other("CopyStatusDone"))
<1>1. UNCHANGED <<state, pc, dest, answers, filtered, errors, dirty, hidden>>
  BY ChildrenFrame DEF orchVars, ctlVars, jobVars, reportVars
<1>2. (pc \notin {"recv", "exit"} => answers = <<>>) /\ Files \subseteq Entries
  BY DEF SessionInv, ControlInv, Entries
<1>3. answers = <<"CopyDone">> => \A f \in Files : InImage(f)' = InImage(f)
  BY SMT, <1>2, ChildrenFrame, ImgWritten DEF InImage, imgVars
<1>4. CASE Fs2DevStep
  <2>1. Fs2DevNext
    BY <1>4 DEF Fs2DevStep
  <2>2. state \in Before => st["fs2dev"] # "Wiping"
    <3>1. st["fs2dev"] = "Wiping" => pc \in {"wipe", "wiping"}
      BY DEF SessionInv, PipeInv, ChildOK, PipesOK, Fs2DevOK, Reporting,
         Children
    <3> QED
      BY <3>1, PointStates DEF SessionInv, ControlInv
  <2>3. st["fs2dev"] \in Retired => st'["fs2dev"] \in Retired /\ UNCHANGED dev
    BY <2>1, Fs2DevTurns
  <2>4. st'["fs2dev"] = "Copying" /\ devLeft' = 0 => dev' = "image"
    BY <2>1, Fs2DevTurns DEF CopyInv
  <2>5. state \in Before => Told' \/ (dev' = "image" /\ st'["fs2dev"] \in Retired)
    BY <2>1, <2>2, <2>3, Fs2DevTurns DEF CopyInv
  <2> QED
    BY <1>1, <1>3, <2>3, <2>4, <2>5 DEF CopyInv, Noted
<1>5. CASE /\ UNCHANGED <<dev, devLeft>> /\ st'["fs2dev"] \in {st["fs2dev"], "End"}
           /\ rsp'["fs2dev"] = rsp["fs2dev"]
  BY <1>1, <1>3, <1>5 DEF CopyInv, Noted, Retired
<1> QED
  BY <1>4, <1>5, Fs2DevApart

(* ListInv is kept by every step of usbsas.                                *)
LEMMA UsbsasList ==
    ASSUME SessionInv, TarSync, ImgSync, TarInv, ListInv, ClientNext \/ UsbsasNext
    PROVE  ListInv'
<1> DEFINE Lists == pc \in {"cf_size"} \cup TarPoints \/ state = "WriteFiles" =>
                      Files \subseteq files \cup Noted \cup hidden
           Tarred == /\ pc \in TarPoints =>
                          \A f \in files : \/ f \in todo \cup errors \/ InTar(f)
                                           \/ (f = cur /\ pc \in TarFilePoints)
                     /\ pc = "tar_close" => todo = {}
                     /\ pc = "analyze" => \A f \in files : InTar(f) \/ f \in errors
           Written == /\ pc \in WritePoints =>
                           \A f \in files : f \in todo \/ Wrote(f) \/ (f = cur /\ pc # "w_next")
                      /\ pc \in {"fs_close"} \cup FinalPoints /\ state = "WriteFiles" =>
                           \A f \in files : Wrote(f)
<1>1. /\ \A e : InTar(e)' = InTar(e) /\ InImage(e)' = InImage(e)
      /\ Lists /\ Tarred /\ Written
  BY UsbsasFrame DEF storeVars, tarVars, imgVars, InTar, InImage, ListInv
<1>2. At(state, pc, dest) /\ files \subseteq Files /\ Files \subseteq Entries
  BY DEF SessionInv, ControlInv, TypeInv, OrchTypeOK, Entries
<1>3. SUFFICES Lists' /\ Tarred' /\ Written'
  BY DEF ListInv
<1>4. ASSUME pc' \notin {"analyze"} \cup TarPoints PROVE Tarred'
  BY <1>4 DEF TarPoints
<1>5. ASSUME pc' \notin {"fs_close"} \cup WritePoints \cup FinalPoints PROVE Written'
  BY <1>5
<1>6. ASSUME pc' = "recv", state' # "WriteFiles" PROVE Lists' /\ Tarred' /\ Written'
  BY <1>6 DEF TarPoints, WritePoints, MidPoints, FinalPoints
<1>7. CASE Aside
  <2>1. CASE UNCHANGED <<state, pc>>
    BY <1>1, <1>7, <2>1 DEF Aside, Noted, Wrote
  <2>2. CASE Leaving
    BY <1>4, <1>5, <2>2 DEF Leaving, FilePoints, WritePoints, MidPoints
  <2> QED
    BY <1>7, <2>1, <2>2 DEF Aside
<1>8. CASE Select \/ GotDevSize
  <2>1. pc' \in {"recv", "cf_size", "tar_next"} /\ (pc' = "recv" => state' = "WaitEnd")
    BY <1>8 DEF Select, GotDevSize, GiveUp, RunEnds, RunFails, StartTar
  <2>2. ASSUME Select, pc' # "recv"
        PROVE  /\ Files \subseteq files' \cup filtered' \cup errors' \cup hidden'
               /\ pc' = "tar_next" => files' \subseteq todo'
    BY <1>2, <2>2 DEF Select, GiveUp, RunEnds, RunFails, StartTar
  <2>3. ASSUME GotDevSize, pc' # "recv"
        PROVE  /\ pc = "cf_size" /\ UNCHANGED <<files, filtered, errors, dirty, hidden>>
               /\ pc' = "tar_next" => files' \subseteq todo'
    BY <2>3 DEF GotDevSize, CallOk, GiveUp, RunEnds, RunFails, StartTar,
       jobVars, reportVars
  <2>4. pc' # "recv" => Lists'
    BY <1>1, <1>8, <2>2, <2>3 DEF Noted
  <2>5. pc' # "recv" => Tarred'
    BY <1>8, <2>1, <2>2, <2>3 DEF TarPoints
  <2> QED
    BY <1>5, <1>6, <2>1, <2>4, <2>5 DEF WritePoints, MidPoints, FinalPoints
<1>9. CASE TarNext \/ TarFile \/ TarFileFails
  <2>1. /\ pc \in TarPoints /\ pc' \in TarPoints
        /\ UNCHANGED <<files, filtered, dirty>> /\ errors \subseteq errors'
        /\ hidden \subseteq hidden'
    BY <1>9 DEF TarNext, TarFile, TarFileFails, CallOk, CallFails, jobVars,
       reportVars, TarPoints
  <2>2. Lists'
    BY <1>1, <2>1 DEF Noted
  <2>3. Written'
    BY <1>5, <2>1 DEF TarPoints, WritePoints, MidPoints, FinalPoints
  <2>4. CASE TarNext
    <3>1. Tarred'
      BY <1>1, <2>1, <2>4 DEF TarNext, TarPoints, TarFilePoints, reportVars
    <3> QED
      BY <2>2, <2>3, <3>1
  <2>5. CASE TarFile
    <3>1. /\ pc \in TarFilePoints /\ UNCHANGED <<todo, cur, errors>>
          /\ pc' \in TarFilePoints \/ (pc = "tar_end" /\ pc' = "tar_next")
      BY <2>5 DEF TarFile, CallOk, TarFilePoints, reportVars
    <3>2. pc = "tar_end" => InTar(cur)
      BY DEF TarSync, InTar
    <3>3. Tarred'
      BY <1>1, <2>1, <3>1, <3>2 DEF TarFilePoints
    <3> QED
      BY <2>2, <2>3, <3>3
  <2>6. CASE TarFileFails
    <3>1. errors' = errors \cup {cur} /\ UNCHANGED <<todo, cur>> /\ pc' = "tar_next"
      BY <2>6 DEF TarFileFails, loopVars
    <3>2. Tarred'
      BY <1>1, <2>1, <3>1
    <3> QED
      BY <2>2, <2>3, <3>2
  <2> QED
    BY <1>9, <2>4, <2>5, <2>6
<1>10. CASE TarClosed
  <2>1. /\ pc = "tar_close" /\ UNCHANGED <<files, filtered, errors, dirty, hidden>>
        /\ \/ pc' \in {"analyze", "analyzed"} \/ (pc' \in {"upload", "exec"} /\ state' = "UploadOrCmd")
           \/ (pc' = "recv" /\ state' = "WaitEnd")
    BY <1>10 DEF TarClosed, CallOk, RunFails, jobVars, reportVars, SessionInv,
       ControlInv
  <2>2. Lists'
    BY <1>1, <2>1 DEF Noted, TarPoints
  <2>3. Tarred'
    BY <1>1, <2>1 DEF TarPoints, TarFilePoints
  <2> QED
    BY <1>5, <2>1, <2>2, <2>3 DEF WritePoints, MidPoints, FinalPoints
<1>11. CASE AnalyzeDone
  <2> DEFINE v == Head(rsp["analyzer"])
  <2>1. /\ pc = "analyze" /\ rsp["analyzer"] # <<>> /\ v.type = "Analyze"
        /\ files' = files \cap v.clean /\ dirty' = dirty \cup v.dirty /\ pc' = "analyzed"
        /\ UNCHANGED <<filtered, errors, hidden>>
    BY <1>11, CallFacts DEF AnalyzeDone, CallOk, Read, jobVars
  <2>2. rsp["analyzer"] \in Seq(Rsps) /\ Among(rsp["analyzer"], Verdicts(Archived))
    BY Names DEF SessionInv, TypeInv, IpcTypeOK, TarInv, VerdictInv
  <2>3. v \in Verdicts(Archived)
    BY <2>1, <2>2, AmongTail
  <2>4. \A f \in Files : InTar(f) => f \in v.clean \cup v.dirty
    BY <2>1, <2>3 DEF Verdicts, Archived
  <2>5. state = "WriteFiles"
    BY <1>2, <2>1, PointStates
  <2> HIDE DEF v
  <2>6. Files \subseteq files' \cup Noted' \cup hidden'
    BY <1>1, <1>2, <2>1, <2>4, <2>5 DEF Noted
  <2> QED
    BY <1>4, <1>5, <2>1, <2>6 DEF TarPoints, WritePoints, MidPoints, FinalPoints
<1>12. CASE Analyzed \/ InitFs \/ DirNext \/ WriteDir \/ WriteNext \/ WriteFile \/ WriteFileFails
  <2>1. /\ pc \in FilePoints \cup FsPoints
        /\ UNCHANGED <<files, filtered, dirty, hidden>>
        /\ errors \subseteq errors'
        /\ state' = state \/ (state' = "WaitEnd" /\ pc' = "recv")
        /\ pc' \in {"recv"} \cup FilePoints \cup FsPoints
    BY <1>12 DEF Analyzed, InitFs, DirNext, WriteDir, WriteNext, WriteFile,
       WriteFileFails, CallOk, CallFails, FilePoints, FsPoints, jobVars,
       reportVars, GiveUp, RunEnds
  <2>2. Lists' /\ Tarred'
    BY <1>1, <1>4, <2>1 DEF Noted, TarPoints, FilePoints, FsPoints
  <2>3. CASE Analyzed \/ InitFs \/ WriteDir
    <3>1. pc' \notin {"fs_close"} \cup WritePoints \cup FinalPoints \/ (pc' = "fs_close" /\ state' = "Wipe")
      BY <2>3 DEF Analyzed, InitFs, WriteDir, GiveUp, RunEnds, WritePoints,
         MidPoints, FinalPoints
    <3>2. Written'
      BY <1>5, <3>1 DEF WritePoints, MidPoints, FinalPoints
    <3> QED
      BY <2>2, <3>2
  <2>4. CASE DirNext
    <3>1. Written'
      BY <1>5, <2>1, <2>4 DEF DirNext, WritePoints, MidPoints, FinalPoints
    <3> QED
      BY <2>2, <3>1
  <2>5. CASE WriteNext
    <3>1. Written'
      BY <1>1, <2>1, <2>5 DEF WriteNext, WritePoints, MidPoints, FinalPoints,
         Wrote, reportVars
    <3> QED
      BY <2>2, <3>1
  <2>6. CASE WriteFile
    <3>1. /\ pc \in WritePoints \ {"w_next"} /\ UNCHANGED <<todo, cur, errors>>
          /\ \/ pc' \in WritePoints \ {"w_next"} \/ (pc = "w_end" /\ pc' = "w_next")
      BY <2>6 DEF WriteFile, CallOk, WritePoints, MidPoints, reportVars
    <3>2. pc = "w_end" => InImage(cur)
      BY DEF ImgSync, InImage
    <3>3. Written'
      BY <1>1, <2>1, <3>1, <3>2 DEF WritePoints, MidPoints, FinalPoints, Wrote
    <3> QED
      BY <2>2, <3>3
  <2>7. CASE WriteFileFails
    <3>1. /\ pc \in WritePoints /\ errors' = errors \cup {cur} /\ UNCHANGED <<todo, cur>>
          /\ pc' = "w_next"
      BY <2>7 DEF WriteFileFails, CallFails, WritePoints, MidPoints, loopVars
    <3>2. Written'
      BY <1>1, <2>1, <3>1 DEF FinalPoints, Wrote
    <3> QED
      BY <2>2, <3>2
  <2> QED
    BY <1>12, <2>3, <2>4, <2>5, <2>6, <2>7
<1>13. CASE ForwardBitVec \/ StartCopy
  <2>1. /\ pc \in {"fs_close"} \cup FinalPoints /\ pc' \in FinalPoints
        /\ UNCHANGED <<state, files, filtered, errors, dirty, hidden>>
    BY <1>13 DEF ForwardBitVec, StartCopy, CallOk, FinalPoints, jobVars,
       reportVars
  <2>2. Lists' /\ Tarred'
    BY <1>1, <1>4, <2>1 DEF Noted, TarPoints, FinalPoints
  <2>3. Written'
    BY <1>1, <2>1 DEF WritePoints, MidPoints, FinalPoints, Wrote
  <2> QED
    BY <2>2, <2>3
<1>14. CASE CopyDone \/ CopyRefused \/ Delivered
  <2>1. pc' = "recv" /\ state' \in {"WaitEnd", "TransferDone"}
    BY <1>14 DEF CopyDone, CopyRefused, Delivered, RunEnds, RunFails
  <2> QED
    BY <1>6, <2>1
<1> QED
  BY <1>7, <1>8, <1>9, <1>10, <1>11, <1>12, <1>13, <1>14, AsideSteps DEF
     Transfers

(* CopyInv is kept by every step of usbsas.                                *)
LEMMA UsbsasCopy ==
    ASSUME SessionInv, ListInv, CopyInv, ClientNext \/ UsbsasNext
    PROVE  CopyInv'
<1> DEFINE Before == {"Init", "DevOpened", "PartitionOpened", "CopyFiles", "WriteFiles"}
           Told == Among(rsp["fs2dev"], Other("CopyStatusDone"))
           OnDevice == /\ dev = "image" /\ st["fs2dev"] \in Retired
                       /\ \A f \in Files \ hidden : f \in Noted \/ InImage(f)
<1>1. /\ UNCHANGED <<st, dev, devLeft>> /\ \A f : InImage(f)' = InImage(f)
      /\ Told => Told'
  BY UsbsasFrame, UsbsasRsps, Names DEF storeVars, imgVars, devVars, InImage
<1>2. At(state, pc, dest) /\ (pc \notin {"recv", "exit"} => answers = <<>>)
  BY DEF SessionInv, ControlInv
<1>3. ASSUME state' \in Before => state \in Before,
             answers' = <<"CopyDone">> /\ dest' = "Usb" => OnDevice'
      PROVE  CopyInv'
  BY <1>1, <1>3 DEF CopyInv
<1>4. <<>> # <<"CopyDone">> /\ \A a : <<a>> = <<"CopyDone">> => a = "CopyDone"
  OBVIOUS
<1>5. CASE Aside
  <2>1. CASE UNCHANGED <<state, dest, answers>>
    <3>1. OnDevice => OnDevice'
      BY <1>1, <1>5 DEF Aside, Noted
    <3> QED
      BY <1>3, <2>1, <3>1 DEF CopyInv
  <2>2. CASE Leaving
    BY <1>3, <1>4, <2>2 DEF Leaving, Sources, Outcomes
  <2> QED
    BY <1>5, <2>1, <2>2 DEF Aside
<1>6. CASE \/ Select \/ GotDevSize \/ TarNext \/ TarFile \/ TarFileFails \/ TarClosed
           \/ AnalyzeDone \/ Analyzed \/ InitFs \/ DirNext \/ WriteDir \/ WriteNext
           \/ WriteFile \/ WriteFileFails \/ ForwardBitVec \/ StartCopy
  <2>1. /\ pc \notin {"recv", "exit"}
        /\ \/ UNCHANGED answers
           \/ \E a \in {"NothingToCopy", "NotEnoughSpace", "Error"} : answers' = Append(answers, a)
    BY <1>6 DEF Select, GotDevSize, TarNext, TarFile, TarFileFails, TarClosed,
       AnalyzeDone, Analyzed, InitFs, DirNext, WriteDir, WriteNext, WriteFile,
       WriteFileFails, ForwardBitVec, StartCopy, CallOk, CallFails, GiveUp,
       RunEnds, RunFails, StartTar
  <2>2. answers' # <<"CopyDone">>
    BY <1>2, <1>4, <2>1, FirstAnswer
  <2>3. \/ state' \in {state, "WaitEnd", "UploadOrCmd"}
        \/ pc = "tar_close"
    BY <1>6 DEF Select, GotDevSize, TarNext, TarFile, TarFileFails, TarClosed,
       AnalyzeDone, Analyzed, InitFs, DirNext, WriteDir, WriteNext, WriteFile,
       WriteFileFails, ForwardBitVec, StartCopy, CallOk, GiveUp, RunEnds,
       RunFails, StartTar
  <2>4. pc = "tar_close" => state = "CopyFiles"
    BY <1>2, PointStates DEF TarPoints
  <2> QED
    BY <1>3, <2>2, <2>3, <2>4
<1>7. CASE CopyDone
  <2>1. /\ pc = "copying" /\ rsp["fs2dev"] # <<>> /\ Head(rsp["fs2dev"]).type = "CopyStatusDone"
        /\ state' \in {"WaitEnd", "TransferDone"} /\ UNCHANGED <<filtered, errors, dirty, hidden>>
        /\ state = "Wipe" => answers' = Append(answers, "Wipe")
    BY <1>7 DEF CopyDone, Read, RunEnds, jobVars, reportVars
  <2>2. ASSUME answers' = <<"CopyDone">> PROVE OnDevice'
    <3>1. state = "WriteFiles"
      BY SMT, <1>2, <1>4, <2>1, <2>2, FirstAnswer, PointStates DEF FinalPoints
    <3>2. rsp["fs2dev"] \in Seq(Rsps)
      BY Names DEF SessionInv, TypeInv, IpcTypeOK
    <3>3. ~Told
      BY <2>1, <3>2, AmongTail DEF Other
    <3>4. dev = "image" /\ st["fs2dev"] \in Retired
      BY <3>1, <3>3 DEF CopyInv
    <3>5. \A f \in Files \ hidden : f \in Noted \/ InImage(f)
      BY <2>1, <3>1 DEF ListInv, Wrote, Noted, FinalPoints
    <3> QED
      BY <1>1, <2>1, <3>4, <3>5 DEF Noted
  <2> QED
    BY <1>3, <2>1, <2>2
<1>8. CASE CopyRefused
  <2>1. /\ pc = "copying" /\ state' \in {"WaitEnd", "TransferDone"}
        /\ answers' \in {Append(answers, "Error"), answers \o <<"Error", "CopyDone">>}
    BY <1>8 DEF CopyRefused
  <2>2. Append(<<>>, "Error") # <<"CopyDone">> /\ <<>> \o <<"Error", "CopyDone">> # <<"CopyDone">>
    BY SMT
  <2> QED
    BY <1>2, <1>3, <2>1, <2>2
<1>9. CASE Delivered
  <2>1. pc \in {"upload", "exec"} /\ state' \in {"WaitEnd", "TransferDone"} /\ UNCHANGED dest
    BY <1>9 DEF Delivered, CallOk, RunEnds, RunFails, jobVars
  <2>2. dest # "Usb"
    BY <1>2, <2>1, PointStates
  <2> QED
    BY <1>3, <2>1, <2>2
<1> QED
  BY <1>5, <1>6, <1>7, <1>8, <1>9, AsideSteps DEF Transfers
=============================================================================
