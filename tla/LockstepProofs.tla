--------------------------- MODULE LockstepProofs ---------------------------
(***************************************************************************)
(* The steps of usbsas keep what PipeInv says of the pipes of each child,  *)
(* of the unlock bytes and of whom usbsas waits for.                       *)
(***************************************************************************)
EXTENDS ConformanceProofs

(* A leaf that names no prover is for Zenon.                               *)
USE Zenon

(* A request is written to a child that usbsas does not wait for.          *)
LEMMA PlainSend ==
    ASSUME NEW Q, NEW s, NEW q \in Seq(Q), NEW r, NEW m \in Q,
           PlainOK(s, q, r, FALSE), s = "Locked" => q # <<>>
    PROVE  PlainOK(s, Append(q, m), r, TRUE)
<1>1. CASE s = "Locked"
  <2>1. r = <<>> /\ Len(q) = 1
    BY SMT, <1>1, AppendToShort DEF PlainOK, Starting
  <2> QED
    BY SMT, <1>1, <2>1, AppendToShort DEF PlainOK, Starting, Quiet, Parked,
       Inside
<1>2. CASE s = "LoadMetadata"
  <2>1. r = <<>> /\ q = <<>>
    BY SMT, <1>2, AppendToShort DEF PlainOK, Starting
  <2> QED
    BY SMT, <1>2, <2>1, AppendToShort DEF PlainOK, Starting, Quiet, Parked,
       Inside
<1>3. CASE s \notin {"Locked", "LoadMetadata"}
  BY SMT, <1>3, AppendToShort DEF PlainOK, Starting, Quiet, Parked, Inside
<1> QED
  BY <1>1, <1>2, <1>3

(* The same for the uploader, which may be parked.                         *)
LEMMA UploaderSend ==
    ASSUME NEW Q, NEW s, NEW q \in Seq(Q), NEW r, NEW m \in Q,
           UploaderOK(s, q, r, FALSE)
    PROVE  UploaderOK(s, Append(q, m), r, TRUE)
<1>1. Len(Append(q, m)) = Len(q) + 1
  BY SMT
<1> QED
  BY SMT, <1>1 DEF UploaderOK, Quiet, Parked

(* The same for the analyzer; at the end of the session it is sent End     *)
(* only.                                                                   *)
LEMMA AnalyzerSend ==
    ASSUME NEW Q, NEW s, NEW q \in Seq(Q), NEW r, NEW m \in Q, NEW p,
           AnalyzerOK(s, q, r, FALSE, p), p = "end" => m.type = "End"
    PROVE  AnalyzerOK(s, Append(q, m), r, TRUE, p)
<1>1. q = <<>> => Len(Append(q, m)) = 1 /\ Append(q, m)[1] = m
  BY SMT, AppendToShort
<1> QED
  BY <1>1 DEF AnalyzerOK, Quiet, Parked

(* The same for fs2dev: the request is the one that the point of usbsas    *)
(* asks.                                                                   *)
LEMMA Fs2DevSend ==
    ASSUME NEW Q, NEW s, NEW q \in Seq(Q), NEW r, NEW m \in Q, NEW p,
           Fs2DevOK(s, q, r, FALSE, p), s = "Locked" => q # <<>>,
           p \in DOMAIN DevAsks, m.type = DevAsks[p]
    PROVE  Fs2DevOK(s, Append(q, m), r, TRUE, p)
<1>1. q = <<>> => Len(Append(q, m)) = 1 /\ Append(q, m)[1] = m
  BY SMT, AppendToShort
<1>2. Len(q) = 1 => Len(Append(q, m)) = 2 /\ Append(q, m)[2] = m
  BY SMT, AppendToShort
<1>3. q # <<>> => Len(q) # 0
  BY AppendToShort
<1>4. CASE s = "Locked"
  BY <1>2, <1>3, <1>4 DEF Fs2DevOK, Starting, Quiet, Parked
<1>5. CASE s # "Locked" /\ s \in Parked
  BY SMT, <1>1, <1>5 DEF Fs2DevOK, Starting, Quiet, Parked
<1>6. CASE s \notin Parked
  <2>1. q = <<>> /\ r = <<>> /\ s \notin {"Copying", "Wiping"}
    BY <1>6 DEF Fs2DevOK, Quiet
  <2> QED
    BY <1>1, <1>6, <2>1 DEF Fs2DevOK, Starting, Quiet, Parked
<1> QED
  BY <1>4, <1>5, <1>6

(* The last answer to a request is read.                                   *)
LEMMA PlainRead ==
    ASSUME NEW R, NEW s, NEW q, NEW r \in Seq(R), r # <<>>,
           PlainOK(s, q, r, TRUE)
    PROVE  PlainOK(s, q, Tail(r), FALSE)
<1>1. Len(r) = 1 => Tail(r) = <<>>
  BY TailOfOne
<1> QED
  BY <1>1 DEF PlainOK, Starting, Quiet, Parked, Inside

(* The same for the uploader, whatever usbsas does next.                   *)
LEMMA UploaderRead ==
    ASSUME NEW R, NEW s, NEW q, NEW r \in Seq(R), NEW w, r # <<>>,
           UploaderOK(s, q, r, TRUE)
    PROVE  UploaderOK(s, q, Tail(r), w)
  BY DEF UploaderOK, Quiet, Parked

(* The same for the analyzer: anything but UploadStatus is its last        *)
(* answer.                                                                 *)
LEMMA AnalyzerRead ==
    ASSUME NEW R, NEW s, NEW q, NEW r \in Seq(R), NEW p, NEW p2, r # <<>>,
           AnalyzerOK(s, q, r, TRUE, p),
           p = "end" \/ Head(r).type # "UploadStatus"
    PROVE  AnalyzerOK(s, q, Tail(r), FALSE, p2)
<1>1. Len(r) = 1 => Tail(r) = <<>>
  BY TailOfOne
<1>2. Head(r) = r[1]
  BY SMT
<1> QED
  BY <1>1, <1>2 DEF AnalyzerOK, Quiet, Parked

(* An UploadStatus leaves usbsas waiting for the analyzer.                 *)
LEMMA AnalyzerProgress ==
    ASSUME NEW R, NEW s, NEW q, NEW r \in Seq(R), NEW p, r # <<>>,
           AnalyzerOK(s, q, r, TRUE, p), Head(r).type = "UploadStatus", p # "end"
    PROVE  AnalyzerOK(s, q, Tail(r), TRUE, p)
<1>1. Len(r) = 2 => Len(Tail(r)) = 1 /\ Tail(r)[1] = r[2]
  BY SMT
<1>2. Head(r) = r[1]
  BY SMT
<1> QED
  BY <1>1, <1>2 DEF AnalyzerOK, Quiet, Parked

(* The same for fs2dev: its last answer is neither the one that starts a   *)
(* copy or a wipe nor a CopyStatus.                                        *)
LEMMA Fs2DevRead ==
    ASSUME NEW R, NEW s, NEW q, NEW r \in Seq(R), NEW p, NEW p2, r # <<>>,
           Fs2DevOK(s, q, r, TRUE, p),
           p = "startcopy" => Head(r).type # "StartCopy",
           p = "wipe" => Head(r).type # "Wipe",
           p \in {"copying", "wiping"} => Head(r).type # "CopyStatus"
    PROVE  Fs2DevOK(s, q, Tail(r), FALSE, p2)
<1>1. /\ Head(r) = r[1] /\ 1 \in DOMAIN r /\ Len(r) \in Nat /\ Len(r) >= 1
      /\ Len(r) = 1 => Tail(r) = <<>>
  BY SMT, TailOfOne
<1>2. CASE s \in Parked
  BY <1>1, <1>2 DEF Fs2DevOK, Starting, Quiet, Parked
<1>3. CASE s \notin Parked
  <2>1. s \notin {"Copying", "Wiping"}
    BY <1>1 DEF Fs2DevOK, Reporting
  <2>2. ASSUME Reported(r, p, "wipe", "Wipe", "wiping")
        PROVE  Len(r) = 1
    <3>1. p = "wiping" /\ \A i \in DOMAIN r : i < Len(r) => r[i].type = "CopyStatus"
      BY <1>1, <2>2 DEF Reported
    <3>2. r[1].type # "CopyStatus"
      BY <1>1, <3>1
    <3>3. ~(1 < Len(r))
      BY <1>1, <3>1, <3>2
    <3>4. Len(r) = 1 \/ 1 < Len(r)
      BY LongEnough
    <3> QED
      BY <3>3, <3>4
  <2>3. q = <<>> /\ Len(r) = 1
    BY <1>1, <1>3, <2>1, <2>2 DEF Fs2DevOK
  <2> QED
    BY <1>1, <1>3, <2>1, <2>3 DEF Fs2DevOK, Starting, Quiet, Parked
<1> QED
  BY <1>2, <1>3

(* One of several answers to a request is read.                            *)
LEMMA Fs2DevProgress ==
    ASSUME NEW R, NEW s, NEW q, NEW r \in Seq(R), NEW p, NEW p2, r # <<>>,
           Fs2DevOK(s, q, r, TRUE, p),
           \/ p = "startcopy" /\ Head(r).type = "StartCopy" /\ p2 = "copying"
           \/ p = "wipe" /\ Head(r).type = "Wipe" /\ p2 = "wiping"
           \/ (p \in {"copying", "wiping"} /\ Head(r).type = "CopyStatus" /\ p2 = p)
    PROVE  Fs2DevOK(s, q, Tail(r), TRUE, p2)
<1>1. /\ Head(r) = r[1] /\ Tail(r) \in Seq(R) /\ Len(Tail(r)) = Len(r) - 1
      /\ Len(r) \in Nat /\ Len(r) >= 1 /\ DOMAIN r = 1 .. Len(r)
      /\ DOMAIN Tail(r) = 1 .. (Len(r) - 1)
  BY SMT
<1>2. \A i \in DOMAIN Tail(r) : Tail(r)[i] = r[i + 1] /\ i + 1 \in DOMAIN r
  BY SMT, <1>1, TailFacts
<1>3. CASE s \in Parked
  <2>1. s \in {"WaitEnd", "End"}
    BY <1>1, <1>3 DEF Fs2DevOK, Starting, Parked
  <2> QED
    BY <2>1, ParkedOK
<1>4. CASE s \in {"Copying", "Wiping"}
  <2>1. q = <<>> /\ (s = "Copying" <=> p2 = "copying") /\ (s = "Wiping" <=> p2 = "wiping")
    BY <1>1, <1>4 DEF Fs2DevOK, Reporting
  <2>2. \A i \in DOMAIN Tail(r) : Tail(r)[i].type = "CopyStatus"
    BY SMT, <1>1, <1>2, <1>4 DEF Fs2DevOK, Reporting
  <2> QED
    BY <1>4, <2>1, <2>2 DEF Fs2DevOK, Starting, Quiet, Parked, Reporting
<1>5. CASE s \notin Parked \cup {"Copying", "Wiping"}
  <2>1. q = <<>> /\ Reported(r, p, "wipe", "Wipe", "wiping") /\ p2 = "wiping"
    BY <1>5 DEF Fs2DevOK, Reported
  <2>2. Len(r) > 1
    BY SMT, <1>1, <2>1 DEF Reported
  <2>3. Tail(r) # <<>> /\ Tail(r)[Len(Tail(r))].type = "CopyStatusDone"
    <3>1. Len(Tail(r)) \in DOMAIN Tail(r) /\ Len(Tail(r)) + 1 = Len(r)
      BY SMT, <1>1, <2>2
    <3>3. Len(Tail(r)) # 0
      BY SMT, <1>1, <2>2
    <3>4. Tail(r) # <<>>
      BY <1>1, <3>3, EmptyIsZero
    <3>2. Tail(r)[Len(Tail(r))] = r[Len(r)]
      BY <1>2, <3>1
    <3> QED
      BY <2>1, <3>2, <3>4 DEF Reported
  <2>4. \A i \in DOMAIN Tail(r) : i < Len(Tail(r)) => Tail(r)[i].type = "CopyStatus"
    BY SMT, <1>1, <1>2, <2>1, <2>2 DEF Reported
  <2>5. Reported(Tail(r), p2, "wipe", "Wipe", "wiping")
    BY <2>1, <2>3, <2>4 DEF Reported
  <2> QED
    BY <1>5, <2>1, <2>5 DEF Fs2DevOK, Starting, Quiet, Parked
<1> QED
  BY <1>3, <1>4, <1>5

(* The same for the pipes of any child.                                    *)
LEMMA PipesSend ==
    ASSUME NEW Q, NEW c \in Children, NEW s, NEW q \in Seq(Q), NEW r, NEW m \in Q,
           NEW p, PipesOK(c, s, q, r, FALSE, p), s = "Locked" => q # <<>>,
           c = "fs2dev" => p \in DOMAIN DevAsks /\ m.type = DevAsks[p],
           c = "analyzer" /\ p = "end" => m.type = "End"
    PROVE  PipesOK(c, s, Append(q, m), r, TRUE, p)
  BY PlainSend, UploaderSend, AnalyzerSend, Fs2DevSend DEF PipesOK

(* usbsas reads the last answer of a child, and waits for it no more.      *)
LEMMA PipesRead ==
    ASSUME NEW R, NEW c \in Children, NEW s, NEW q, NEW r \in Seq(R), NEW p, NEW p2,
           r # <<>>, PipesOK(c, s, q, r, TRUE, p), LastAnswer(c, r, p)
    PROVE  PipesOK(c, s, q, Tail(r), FALSE, p2)
  BY PlainRead, UploaderRead, AnalyzerRead, Fs2DevRead DEF PipesOK, LastAnswer

(* usbsas reads an answer that others follow, and waits on.                *)
LEMMA PipesProgress ==
    ASSUME NEW R, NEW c \in {"analyzer", "uploader", "fs2dev"}, NEW s, NEW q,
           NEW r \in Seq(R), NEW p, NEW p2,
           r # <<>>, PipesOK(c, s, q, r, TRUE, p),
           c = "analyzer" => p2 = p /\ p # "end" /\ Head(r).type = "UploadStatus",
           c = "fs2dev" =>
             \/ p = "startcopy" /\ Head(r).type = "StartCopy" /\ p2 = "copying"
             \/ p = "wipe" /\ Head(r).type = "Wipe" /\ p2 = "wiping"
             \/ (p \in {"copying", "wiping"} /\ Head(r).type = "CopyStatus" /\ p2 = p)
    PROVE  PipesOK(c, s, q, Tail(r), TRUE, p2)
<1>1. c \notin Plain
  BY DEF Plain
<1> QED
  BY <1>1, UploaderRead, AnalyzerProgress, Fs2DevProgress DEF PipesOK

(* The pipes of a locked child that has its unlock bytes to read, or       *)
(* these and the request to end.                                           *)
LEMMA PipesUnlocked ==
    ASSUME NEW c \in WaitOnStartup, NEW q, NEW p
    PROVE  /\ Len(q) = 1 => PipesOK(c, "Locked", q, <<>>, FALSE, p)
           /\ Len(q) = 2 /\ q[2].type = "End" =>
                PipesOK(c, "Locked", q, <<>>, TRUE, "end")
<1>1. c \notin {"analyzer", "uploader"}
  BY DEF WaitOnStartup
<1>2. Len(q) = 1 => PlainOK("Locked", q, <<>>, FALSE) /\ Fs2DevOK("Locked", q, <<>>, FALSE, p)
  BY DEF PlainOK, Fs2DevOK, Starting, Quiet, Parked, Inside
<1>3. Len(q) = 2 => PlainOK("Locked", q, <<>>, TRUE)
  BY DEF PlainOK, Starting, Quiet, Parked, Inside
<1>4. Len(q) = 2 /\ q[2].type = "End" => Fs2DevOK("Locked", q, <<>>, TRUE, "end")
  BY DEF Fs2DevOK, Starting, Quiet, Parked, DevAsks
<1> QED
  BY <1>1, <1>2, <1>3, <1>4 DEF PipesOK

(* A locked child answers nothing.                                         *)
LEMMA LockedSilent ==
    ASSUME NEW c \in WaitOnStartup, NEW q, NEW r, NEW w, NEW p,
           PipesOK(c, "Locked", q, r, w, p)
    PROVE  r = <<>>
<1>1. c = "fs2dev" \/ c \in Plain
  BY DEF WaitOnStartup, Plain, Children
<1> QED
  BY <1>1 DEF PipesOK, PlainOK, Fs2DevOK, Starting

(* Two messages written to an empty pipe.                                  *)
LEMMA TwoMessages ==
    ASSUME NEW u, NEW m
    PROVE  \A q : q = <<>> \o <<u>> \o <<m>> =>
              /\ Len(q) = 2 /\ q[1] = u /\ q[2] = m
              /\ DOMAIN q = {1, 2} /\ q # <<>>
<1> SUFFICES ASSUME NEW q, q = <<>> \o <<u>> \o <<m>>
             PROVE  /\ Len(q) = 2 /\ q[1] = u /\ q[2] = m
                    /\ DOMAIN q = {1, 2} /\ q # <<>>
  OBVIOUS
<1> DEFINE S == {u, m}
<1>1. /\ <<>> \o <<u>> = <<u>> /\ Len(<<u>>) = 1 /\ <<u>>[1] = u
      /\ <<u>> \in Seq(S) /\ m \in S
  BY SMT
<1> HIDE DEF S
<1>2. q = Append(<<u>>, m)
  <2>1. Append(<<u>>, m) = <<u>> \o <<m>>
    BY <1>1, AppendFacts
  <2> QED
    BY <1>1, <2>1
<1>3. q \in Seq(S) /\ q # <<>> /\ Len(q) = 2 /\ q[1] = u /\ q[2] = m
  BY SMT, <1>1, <1>2, AppendFacts
<1>4. DOMAIN q = 1 .. 2 /\ 1 .. 2 = {1, 2}
  BY SMT, <1>3
<1> QED
  BY <1>3, <1>4

(* After the last answer, or the end of its pipe, each child whose         *)
(* requests are untouched is as PipeInv says.                              *)
LEMMA ReadPipes ==
    ASSUME TypeInv, PipeInv, NEW c \in Children,
           \/ Reads(c) /\ LastOne(c)
           \/ ReadEof(c),
           UNCHANGED st, wait' = "none"
    PROVE  \A d \in Children : req'[d] = req[d] => ChildOK(d)'
<1> SUFFICES ASSUME NEW d \in Children, req'[d] = req[d]
             PROVE  ChildOK(d)'
  OBVIOUS
<1>1. /\ IpcTypeOK /\ c \in Procs /\ d \in Procs /\ ChildOK(d)
      /\ rsp[c] \in Seq(Rsps) /\ wait' # d /\ wait' # c
  BY Names DEF TypeInv, IpcTypeOK, PipeInv, Children
<1>2. CASE wait # d
  <2>1. rsp'[d] = rsp[d]
    BY <1>1, <1>2 DEF Reads, ReadEof, IpcTypeOK
  <2> QED
    BY <1>1, <1>2, <2>1, UntouchedOK DEF Untouched
<1>3. CASE wait = d /\ ReadEof(c)
  <2>1. st'[d] = "End"
    BY <1>1, <1>3 DEF ReadEof, Closed, Children
  <2> QED
    BY <2>1, ParkedOK DEF ChildOK, PipesOK, Plain
<1>4. CASE wait = d /\ Reads(c) /\ LastOne(c)
  <2>1. /\ d = c /\ rsp[c] # <<>> /\ rsp'[c] = Tail(rsp[c]) /\ (wait = c) = TRUE
        /\ (wait' = c) = FALSE /\ st'[c] = st[c] /\ req'[c] = req[c]
    BY <1>1, <1>4 DEF Reads, IpcTypeOK
  <2>2. PipesOK(c, st[c], req[c], Tail(rsp[c]), FALSE, pc')
    BY <1>1, <1>4, <2>1, PipesRead DEF ChildOK, LastOne
  <2> QED
    BY <2>1, <2>2 DEF ChildOK
<1> QED
  BY <1>2, <1>3, <1>4

(* usbsas writes message m to a child it does not wait for, and then waits *)
(* for it.                                                                 *)
LEMMA SendPipes ==
    ASSUME TypeInv, PipeInv, NEW c \in Children, NEW m \in Reqs,
           wait = "none", wait' = c, UNCHANGED <<st, rsp, pc>>,
           req' = [req EXCEPT ![c] = Append(@, m)],
           st[c] = "Locked" => req[c] # <<>>,
           c = "fs2dev" => pc \in DOMAIN DevAsks /\ m.type = DevAsks[pc],
           c = "analyzer" /\ pc = "end" => m.type = "End"
    PROVE  \A d \in Children : ChildOK(d)'
<1> SUFFICES ASSUME NEW d \in Children
             PROVE  ChildOK(d)'
  OBVIOUS
<1>1. /\ IpcTypeOK /\ c \in Procs /\ d \in Procs /\ ChildOK(d) /\ ChildOK(c)
      /\ req[c] \in Seq(Reqs) /\ wait # d /\ wait # c /\ st' = st /\ rsp' = rsp /\ pc' = pc
  BY Names DEF TypeInv, IpcTypeOK, PipeInv, Children
<1>2. CASE d # c
  BY <1>1, <1>2, UntouchedOK DEF Untouched, IpcTypeOK
<1>3. CASE d = c
  <2>1. /\ d = c /\ req'[c] = Append(req[c], m) /\ (wait = c) = FALSE
        /\ (wait' = c) = TRUE /\ st'[c] = st[c] /\ rsp'[c] = rsp[c] /\ pc' = pc
    BY <1>1, <1>3 DEF IpcTypeOK
  <2>2. PipesOK(c, st[c], Append(req[c], m), rsp[c], TRUE, pc)
    BY <1>1, <2>1, PipesSend DEF ChildOK
  <2> QED
    BY <2>1, <2>2 DEF ChildOK
<1> QED
  BY <1>2, <1>3

---------------------------------------------------------------------------
(* The flags.                                                              *)

(* As long as usbsas has not begun to end its children.                    *)
LEMMA NotEndedYet ==
    ASSUME pc \notin {"end", "wait", "exit"}, NEW c
    PROVE  NotEnded(c)
  BY DEF NotEnded

(* The flag of a child whose requests, state and lock are untouched.       *)
LEMMA FlagKept ==
    ASSUME PipeInv, NEW c \in WaitOnStartup, st'[c] = st[c], req'[c] = req[c],
           c \in locked' <=> c \in locked, NotEnded(c)' => NotEnded(c)
    PROVE  FlagOK(c)'
  BY DEF PipeInv, FlagOK

(* A child whose flag is set is locked, if it lives, and has nothing to    *)
(* read: its unlock bytes may be written.                                  *)
LEMMA FlagFreed ==
    ASSUME TypeInv, PipeInv, NEW c \in WaitOnStartup, NEW v, NEW n,
           c \in locked, NotEnded(c), ~Closed(c), st'[c] = st[c], rsp'[c] = rsp[c],
           Unlock(v) \in Reqs, req'[c] = Append(req[c], Unlock(v)),
           n = locked \ {c}, locked' = n, wait # c, wait' # c
    PROVE  FlagOK(c)' /\ ChildOK(c)'
<1>1. /\ c \in Procs /\ c \in Children /\ c # "scsi2files"
      /\ c \notin {"analyzer", "uploader"} /\ FlagOK(c) /\ ChildOK(c)
  BY DEF WaitOnStartup, Procs, Children, PipeInv
<1>2. st[c] = "Locked" /\ req[c] = <<>>
  BY <1>1 DEF FlagOK, Closed
<1>3. /\ req'[c] = <<Unlock(v)>> /\ Len(req'[c]) = 1 /\ req'[c][1] = Unlock(v)
      /\ DOMAIN req'[c] = 1 .. 1 /\ req'[c] # <<>>
  BY SMT, <1>2, FirstAnswer
<1>4. Unlock(v).type = "Unlock"
  BY DEF Unlock
<1>5. FlagOK(c)'
  BY SMT, <1>2, <1>3, <1>4 DEF FlagOK
<1>6. rsp[c] = <<>> /\ (wait' = c) = FALSE
  BY <1>1, <1>2, LockedSilent DEF ChildOK
<1>7. ChildOK(c)'
  BY <1>2, <1>3, <1>6, PipesUnlocked DEF ChildOK
<1> QED
  BY <1>5, <1>7

(* A message is written to a child that is not taken for locked.           *)
LEMMA FlagSent ==
    ASSUME TypeInv, PipeInv, NEW c \in WaitOnStartup, NEW m \in Reqs,
           m.type # "Unlock", st'[c] = st[c], req'[c] = Append(req[c], m),
           ~(c \in locked' /\ NotEnded(c)'), st[c] = "Locked" => req[c] # <<>>
    PROVE  FlagOK(c)'
<1>1. c \in Procs /\ FlagOK(c) /\ req[c] \in Seq(Reqs)
  BY DEF WaitOnStartup, Procs, Children, PipeInv, TypeInv, IpcTypeOK
<1>2. /\ req'[c] \in Seq(Reqs) /\ req'[c] # <<>> /\ Len(req[c]) \in Nat
      /\ DOMAIN req[c] = 1 .. Len(req[c]) /\ DOMAIN req'[c] = 1 .. (Len(req[c]) + 1)
      /\ req'[c][Len(req[c]) + 1] = m
      /\ \A i \in 1 .. Len(req[c]) : req'[c][i] = req[c][i]
  BY SMT, <1>1, AppendFacts
<1>3. \A i \in DOMAIN req'[c] : i \in DOMAIN req[c] \/ i = Len(req[c]) + 1
  BY SMT, <1>2
<1>4. st[c] = "Locked" => Len(req[c]) + 1 # 1
  BY SMT, <1>1, <1>2, EmptyIsZero
<1>5. \A i \in DOMAIN req'[c] :
         /\ req'[c][i].type = "Unlock" => i = 1 /\ st[c] \in {"Locked", "End"}
         /\ st[c] = "Locked" /\ i = 1 => req'[c][i].type = "Unlock"
  <2> SUFFICES ASSUME NEW i \in DOMAIN req'[c]
               PROVE  /\ req'[c][i].type = "Unlock" => i = 1 /\ st[c] \in {"Locked", "End"}
                      /\ st[c] = "Locked" /\ i = 1 => req'[c][i].type = "Unlock"
    OBVIOUS
  <2>1. CASE i \in DOMAIN req[c]
    BY <1>1, <1>2, <2>1 DEF FlagOK
  <2>2. CASE i = Len(req[c]) + 1
    BY <1>2, <1>4, <2>2
  <2> QED
    BY <1>3, <2>1, <2>2
<1> QED
  BY <1>2, <1>5 DEF FlagOK

(* The points with a set of locked children of their own.                  *)
LockPoints == {"select", "cf_size"} \cup TarPoints

(* What is locked at a point is locked, or need not be, at the next ones.  *)
LEMMA LocksLater ==
    ASSUME NEW s, NEW p, NEW d, NEW l, LocksOK(s, p, d, l)
    PROVE  /\ \A p2 : p2 \notin LockPoints => LocksOK(s, p2, d, l)
           /\ \A p2 \in TarPoints :
                p \in TarPoints /\ s = "CopyFiles" => LocksOK(s, p2, d, l)
           /\ \A p2, d2 : \A s2 \in {"WaitEnd", "TransferDone", "End"} :
                p2 \notin LockPoints => LocksOK(s2, p2, d2, l)
           /\ \A p2 : \A s2 \in {"DevOpened", "PartitionOpened", "ImgDisk"} :
                s \in {"Init", "DevOpened", "PartitionOpened"} /\ p2 \notin LockPoints
                    => LocksOK(s2, p2, d, l)
<1>1. \A p2 : p2 \notin LockPoints => LocksOK(s, p2, d, l)
  BY DEF LocksOK, LockPoints
<1>2. \A p2 \in TarPoints :
        p \in TarPoints /\ s = "CopyFiles" => LocksOK(s, p2, d, l)
  BY DEF LocksOK, TarPoints
<1>3. \A p2, d2 : \A s2 \in {"WaitEnd", "TransferDone", "End"} :
        p2 \notin LockPoints => LocksOK(s2, p2, d2, l)
  BY DEF LocksOK, LockPoints
<1>4. \A p2 : \A s2 \in {"DevOpened", "PartitionOpened", "ImgDisk"} :
        s \in {"Init", "DevOpened", "PartitionOpened"} /\ p2 \notin LockPoints
            => LocksOK(s2, p2, d, l)
  BY DEF LocksOK, LockPoints
<1> QED
  BY <1>1, <1>2, <1>3, <1>4

---------------------------------------------------------------------------
(* The kinds of steps that usbsas takes.                                   *)

(* One that neither reads nor writes.                                      *)
LEMMA QuietStep ==
    ASSUME TypeInv, PipeInv, UNCHANGED <<st, req, rsp, wait, locked>>, wait = "none",
           pc' \notin {"copying", "wiping"}, \A c \in WaitOnStartup : NotEnded(c)' => NotEnded(c),
           LocksOK(state, pc, dest, locked)'
    PROVE  PipeInv'
<1>1. \A c \in Children : ChildOK(c)'
  <2>1. "none" \notin Children
    BY DEF Children
  <2> QED
    BY <2>1, UntouchedOK DEF Untouched, PipeInv
<1>2. \A c \in WaitOnStartup : FlagOK(c)'
  BY FlagKept
<1>3. WaitOK' /\ GhostOK'
  BY DEF WaitOK, GhostOK, MassStorageDropped, PipeInv, Children
<1> QED
  BY <1>1, <1>2, <1>3 DEF PipeInv

(* One that reads the last answer to a request, or finds the pipe broken.  *)
LEMMA ReadStep ==
    ASSUME TypeInv, PipeInv, NEW c \in Children,
           \/ Reads(c) /\ LastOne(c)
           \/ ReadEof(c),
           UNCHANGED <<st, req, locked>>, wait' = "none", pc' \notin {"copying", "wiping"},
           \A d \in WaitOnStartup : NotEnded(d)' => NotEnded(d),
           LocksOK(state, pc, dest, locked)'
    PROVE  PipeInv'
<1>1. \A d \in Children : ChildOK(d)'
  BY ReadPipes
<1>2. \A d \in WaitOnStartup : FlagOK(d)'
  BY FlagKept
<1>3. WaitOK' /\ GhostOK'
  BY DEF WaitOK, GhostOK, MassStorageDropped, PipeInv, Children
<1> QED
  BY <1>1, <1>2, <1>3 DEF PipeInv

(* One that ends a call.                                                   *)
LEMMA CallStep ==
    ASSUME TypeInv, PipeInv, NEW p \in DOMAIN CallOf,
           \/ CallOk(p) /\ p \notin {"startcopy", "wipe"}
           \/ CallFails(p) /\ p # "analyze",
           UNCHANGED <<st, req, locked>>, pc' \notin {"copying", "wiping"},
           LocksOK(state, pc, dest, locked)'
    PROVE  PipeInv'
<1> DEFINE c == CallOf[p][1]
           t == CallOf[p][2]
<1>1. c \in Children /\ pc = p /\ wait' = "none"
  BY CallFacts DEF CallOk, CallFails
<1>2. p \notin {"copying", "wiping", "end", "wait", "exit"}
  BY CallFacts
<1>3. \A d \in WaitOnStartup : NotEnded(d)
  BY <1>1, <1>2, NotEndedYet
<1>4. /\ c = "fs2dev" => /\ p = "startcopy" => t = "StartCopy"
                         /\ p = "wipe" => t = "Wipe"
      /\ c = "analyzer" => p = "analyze" /\ t = "Analyze"
  BY CallFacts
<1> HIDE DEF c, t
<1>5. CASE CallOk(p) /\ p \notin {"startcopy", "wipe"}
  <2>1. Reads(c) /\ Head(rsp[c]).type = t
    BY <1>5 DEF CallOk, Read, Reads, c, t
  <2>2. LastOne(c)
    BY <1>1, <1>2, <1>4, <1>5, <2>1 DEF LastOne, LastAnswer
  <2> QED
    BY <1>1, <1>3, <2>1, <2>2, ReadStep
<1>6. CASE CallFails(p) /\ p # "analyze"
  <2>1. CASE ReadEof(c)
    BY <1>1, <1>3, <2>1, ReadStep
  <2>2. CASE ~ReadEof(c)
    <3>1. Reads(c) /\ Head(rsp[c]).type # t
      BY <1>6, <2>2 DEF CallFails, ReadFails, ReadOther, Reads, c, t
    <3>2. LastOne(c)
      BY <1>1, <1>2, <1>4, <1>6, <3>1 DEF LastOne, LastAnswer
    <3> QED
      BY <1>1, <1>3, <3>1, <3>2, ReadStep
  <2> QED
    BY <2>1, <2>2
<1> QED
  BY <1>5, <1>6

(* One that reads the last answer of a call and writes the unlock bytes of *)
(* another child.                                                          *)
LEMMA FreeStep ==
    ASSUME TypeInv, PipeInv, NEW p \in DOMAIN CallOf \ {"startcopy", "wipe"},
           CallOk(p), NEW c \in WaitOnStartup, CallOf[p][1] # c, NEW v,
           Unlock(v) \in Reqs, c \in locked, ~Closed(c), UNCHANGED st,
           req' = WriteUnlock(c, v), locked' = locked \ {c},
           pc' \notin {"copying", "wiping"}, LocksOK(state, pc, dest, locked)'
    PROVE  PipeInv'
<1> DEFINE b == CallOf[p][1]
           t == CallOf[p][2]
<1>1. b \in Children /\ pc = p /\ wait' = "none" /\ wait = b
  BY CallFacts DEF CallOk, Read
<1>2. p \notin {"copying", "wiping", "end", "wait", "exit"}
  BY CallFacts
<1>3. \A d \in WaitOnStartup : NotEnded(d)
  BY <1>1, <1>2, NotEndedYet
<1>4. b = "analyzer" => t # "UploadStatus"
  BY CallFacts
<1> HIDE DEF b, t
<1>5. Reads(b) /\ Head(rsp[b]).type = t
  BY DEF CallOk, Read, Reads, b, t
<1>6. LastOne(b)
  BY <1>1, <1>2, <1>4, <1>5 DEF LastOne, LastAnswer
<1>7. /\ c \in Procs /\ c \in Children /\ c # "none" /\ c # b /\ b \in Procs
      /\ WaitOnStartup \subseteq Procs /\ Children \subseteq Procs
  BY <1>1 DEF WaitOnStartup, Procs, Children, b
<1>8. /\ req'[c] = Append(req[c], Unlock(v)) /\ rsp'[c] = rsp[c] /\ st'[c] = st[c]
      /\ \A d \in Procs \ {c} : req'[d] = req[d] /\ st'[d] = st[d]
  BY <1>5, <1>7 DEF WriteUnlock, TypeInv, IpcTypeOK, Reads
<1>9. FlagOK(c)' /\ ChildOK(c)'
  BY <1>1, <1>3, <1>7, <1>8, FlagFreed
<1>10. \A d \in Children : ChildOK(d)'
  <2>1. \A d \in Children : req'[d] = req[d] => ChildOK(d)'
    BY <1>1, <1>5, <1>6, ReadPipes
  <2> QED
    BY <1>7, <1>8, <1>9, <2>1
<1>11. \A d \in WaitOnStartup : FlagOK(d)'
  BY <1>3, <1>7, <1>8, <1>9, FlagKept
<1>12. WaitOK' /\ GhostOK'
  BY <1>1 DEF WaitOK, GhostOK, MassStorageDropped, PipeInv, Children
<1> QED
  BY <1>10, <1>11, <1>12 DEF PipeInv

(* A request of the client that usbsas does not begin with an unlock.      *)
LEMMA ClientPipes ==
    ASSUME SessionInv, ClientCall \/ BadRequest \/ MalformedRequest \/ CopyStart \/ End
    PROVE  PipeInv'
<1>1. TypeInv /\ PipeInv /\ At(state, pc, dest) /\ LocksOK(state, pc, dest, locked)
  BY DEF SessionInv, ControlInv, PipeInv
<1>2. pc = "recv" /\ UNCHANGED <<st, req, rsp, wait, locked>>
  BY DEF ClientCall, BadRequest, MalformedRequest, CopyStart, End, Asked,
     ipcVars
<1>3. wait = "none" /\ \A c : NotEnded(c)
  BY <1>1, <1>2, CallFacts, NotWaiting, NotEndedYet
<1>4. "recv" \notin LockPoints /\ "end" \notin LockPoints
  BY DEF LockPoints, TarPoints
<1>5. CASE ClientCall
  <2>1. PICK v \in Serves : pc' = v[3]
    BY <1>5 DEF ClientCall
  <2>2. pc' \notin LockPoints \cup {"copying", "wiping"}
    BY <2>1, ServedAt DEF LockPoints, FinalPoints
  <2>3. state' = state /\ dest' = dest
    BY <1>5 DEF ClientCall, jobVars
  <2>4. LocksOK(state, pc, dest, locked)'
    BY <1>1, <1>2, <2>2, <2>3, LocksLater
  <2> QED
    BY <1>1, <1>2, <1>3, <2>2, <2>4, QuietStep
<1>6. CASE BadRequest \/ MalformedRequest
  <2>1. /\ pc' = pc /\ dest' = dest /\ state' \in {state, "WaitEnd"}
    BY <1>6 DEF BadRequest, MalformedRequest, jobVars
  <2>2. LocksOK(state, pc, dest, locked)'
    BY SMT, <1>1, <1>2, <1>4, <2>1, LocksLater
  <2> QED
    BY <1>1, <1>2, <1>3, <2>1, <2>2, QuietStep
<1>7. CASE CopyStart
  <2>1. state = "PartitionOpened" /\ state' = "CopyFiles" /\ pc' = "select"
    BY <1>7 DEF CopyStart
  <2>2. LocksOK(state, pc, dest, locked)'
    BY <1>1, <1>2, <2>1 DEF LocksOK, TarPoints
  <2> QED
    BY <1>1, <1>2, <1>3, <2>1, <2>2, QuietStep
<1>8. CASE End
  <2>1. pc' = "end" /\ state' = state /\ dest' = dest
    BY <1>8 DEF End, jobVars
  <2>2. LocksOK(state, pc, dest, locked)'
    BY <1>1, <1>2, <1>4, <2>1, LocksLater
  <2> QED
    BY <1>1, <1>2, <1>3, <2>1, <2>2, QuietStep
<1> QED
  BY <1>5, <1>6, <1>7, <1>8

(* A step that writes the unlock bytes of c where usbsas calls nobody.     *)
LEMMA FreeOnly ==
    ASSUME TypeInv, PipeInv, NEW c \in WaitOnStartup, NEW v, Unlock(v) \in Reqs,
           c \in locked, ~Closed(c), UNCHANGED <<st, rsp, wait>>, wait = "none",
           pc \notin {"copying", "wiping", "end", "wait", "exit"},
           req' = WriteUnlock(c, v), locked' = locked \ {c},
           pc' \notin {"copying", "wiping"}, LocksOK(state, pc, dest, locked)'
    PROVE  PipeInv'
<1>1. \A d \in WaitOnStartup : NotEnded(d)
  BY NotEndedYet
<1>2. /\ c \in Procs /\ c \in Children /\ c # "none" /\ "none" \notin Children
      /\ WaitOnStartup \subseteq Procs /\ Children \subseteq Procs
  BY DEF WaitOnStartup, Procs, Children
<1>3. /\ req'[c] = Append(req[c], Unlock(v)) /\ rsp'[c] = rsp[c] /\ st'[c] = st[c]
      /\ \A d \in Procs \ {c} : req'[d] = req[d] /\ st'[d] = st[d] /\ rsp'[d] = rsp[d]
  BY <1>2 DEF WriteUnlock, TypeInv, IpcTypeOK
<1>4. FlagOK(c)' /\ ChildOK(c)'
  BY <1>1, <1>2, <1>3, FlagFreed
<1>5. \A d \in Children : ChildOK(d)'
  BY <1>2, <1>3, <1>4, UntouchedOK DEF Untouched, PipeInv
<1>6. \A d \in WaitOnStartup : FlagOK(d)'
  BY <1>1, <1>2, <1>3, <1>4, FlagKept
<1>7. WaitOK' /\ GhostOK'
  BY <1>2 DEF WaitOK, GhostOK, MassStorageDropped, PipeInv
<1> QED
  BY <1>5, <1>6, <1>7 DEF PipeInv

(* The steps of a wipe.                                                    *)
LEMMA WipePipes ==
    ASSUME SessionInv, Wipe
    PROVE  PipeInv'
<1>1. /\ TypeInv /\ PipeInv /\ LocksOK(state, pc, dest, locked)
      /\ pc = "recv" /\ state = "Init" /\ UNCHANGED <<st, rsp, wait, dest>>
  BY DEF SessionInv, PipeInv, Wipe, Asked
<1>2. wait = "none" /\ (\A c : NotEnded(c)) /\ locked = WaitOnStartup
  BY <1>1, CallFacts, NotWaiting, NotEndedYet DEF LocksOK
<1>3. CASE ~Closed("fs2dev")
  <2>1. /\ locked' = locked \ {"fs2dev"} /\ state' = "Wipe" /\ pc' \in {"wipe", "fs_size"}
        /\ \E v \in WipeDevs : req' = WriteUnlock("fs2dev", v)
    BY <1>3 DEF Wipe
  <2>2. PICK v \in WipeDevs : req' = WriteUnlock("fs2dev", v)
    BY <2>1
  <2>3. Unlock(v) \in Reqs /\ "fs2dev" \in WaitOnStartup
    BY DEF Unlock, Reqs, WaitOnStartup
  <2>4. LocksOK(state, pc, dest, locked)'
    BY <1>2, <2>1 DEF LocksOK, TarPoints, WaitOnStartup
  <2> QED
    BY <1>1, <1>2, <1>3, <2>1, <2>2, <2>3, <2>4, FreeOnly
<1>4. CASE Closed("fs2dev")
  <2>1. state' = "WaitEnd" /\ UNCHANGED <<req, locked, pc>>
    BY <1>4 DEF Wipe
  <2>2. LocksOK(state, pc, dest, locked)'
    BY <1>1, <2>1 DEF LocksOK, TarPoints
  <2> QED
    BY <1>1, <1>2, <2>1, <2>2, QuietStep
<1> QED
  BY <1>3, <1>4

(* Looking at the selected files.                                          *)
LEMMA SelectPipes ==
    ASSUME SessionInv, Select
    PROVE  PipeInv'
<1>1. /\ TypeInv /\ PipeInv /\ LocksOK(state, pc, dest, locked)
      /\ pc = "select" /\ state = "CopyFiles" /\ UNCHANGED <<st, rsp, wait, dest>>
  BY PointStates DEF SessionInv, ControlInv, PipeInv, Select
<1>2. wait = "none" /\ (\A c : NotEnded(c)) /\ locked = WaitOnStartup
  BY <1>1, CallFacts, NotWaiting, NotEndedYet DEF LocksOK
<1>3. \/ /\ dest = "Usb" /\ ~Closed("fs2dev") /\ req' = WriteUnlock("fs2dev", 1)
         /\ locked' = locked \ {"fs2dev"} /\ pc' = "cf_size" /\ state' = state
      \/ /\ dest # "Usb" /\ ~Closed("files2tar") /\ req' = WriteUnlock("files2tar", 1)
         /\ locked' = locked \ {"files2tar"} /\ pc' = "tar_next" /\ state' = state
      \/ UNCHANGED <<req, locked>> /\ pc' = "recv" /\ state' = "WaitEnd"
  BY SMT DEF Select, GiveUp, RunEnds, RunFails, StartTar
<1>4. Unlock(1) \in Reqs /\ "fs2dev" \in WaitOnStartup /\ "files2tar" \in WaitOnStartup
  BY DEF Unlock, Reqs, WaitOnStartup
<1>5. CASE /\ dest = "Usb" /\ ~Closed("fs2dev") /\ req' = WriteUnlock("fs2dev", 1)
           /\ locked' = locked \ {"fs2dev"} /\ pc' = "cf_size" /\ state' = state
  <2>1. LocksOK(state, pc, dest, locked)'
    BY <1>1, <1>2, <1>5 DEF LocksOK, TarPoints, WaitOnStartup
  <2> QED
    BY <1>1, <1>2, <1>4, <1>5, <2>1, FreeOnly
<1>6. CASE /\ dest # "Usb" /\ ~Closed("files2tar") /\ req' = WriteUnlock("files2tar", 1)
           /\ locked' = locked \ {"files2tar"} /\ pc' = "tar_next" /\ state' = state
  <2>1. LocksOK(state, pc, dest, locked)'
    BY <1>1, <1>2, <1>6 DEF LocksOK, TarPoints, WaitOnStartup
  <2> QED
    BY <1>1, <1>2, <1>4, <1>6, <2>1, FreeOnly
<1>7. CASE UNCHANGED <<req, locked>> /\ pc' = "recv" /\ state' = "WaitEnd"
  <2>1. LocksOK(state, pc, dest, locked)'
    BY <1>7 DEF LocksOK, TarPoints
  <2> QED
    BY <1>1, <1>2, <1>7, <2>1, QuietStep
<1> QED
  BY <1>3, <1>5, <1>6, <1>7

(* The calls that leave the locks alone: they go on in the same state, or  *)
(* give the request up.                                                    *)
LEMMA CallOnly ==
    ASSUME SessionInv, UNCHANGED <<st, req, locked, dest>>, NEW p \in DOMAIN CallOf,
           \/ CallOk(p) /\ p \notin {"startcopy", "wipe"}
           \/ CallFails(p) /\ p # "analyze",
           \/ state' \in {state, "WaitEnd"} /\ pc' \notin LockPoints \cup {"copying", "wiping"}
           \/ state' = state /\ p \in TarPoints /\ pc' \in TarPoints
    PROVE  PipeInv'
<1>1. TypeInv /\ PipeInv /\ LocksOK(state, pc, dest, locked) /\ At(state, pc, dest)
  BY DEF SessionInv, ControlInv, PipeInv
<1>2. pc = p
  BY DEF CallOk, CallFails
<1>3. pc' \notin {"copying", "wiping"}
  BY DEF TarPoints
<1>4. LocksOK(state, pc, dest, locked)'
  <2>1. CASE state' \in {state, "WaitEnd"} /\ pc' \notin LockPoints
    BY SMT, <1>1, <2>1, LocksLater
  <2>2. CASE state' = state /\ p \in TarPoints /\ pc' \in TarPoints
    <3>1. state = "CopyFiles"
      BY <1>1, <1>2, <2>2, PointStates
    <3> QED
      BY <1>1, <1>2, <2>2, <3>1, LocksLater
  <2> QED
    BY <2>1, <2>2
<1> QED
  BY <1>1, <1>3, <1>4, CallStep

(* The requests of the client that one call to a child serves.             *)
LEMMA ServePipes ==
    ASSUME SessionInv, ClientCallOk \/ ClientCallFails
    PROVE  PipeInv'
<1>1. TypeInv /\ PipeInv /\ LocksOK(state, pc, dest, locked)
  BY DEF SessionInv, PipeInv
<1>2. UNCHANGED <<st, req, locked, dest>>
  BY DEF ClientCallOk, ClientCallFails, jobVars
<1>3. {"recv", "img_start"} \cap (LockPoints \cup {"copying", "wiping"}) = {}
  BY DEF LockPoints, TarPoints
<1>4. \A v \in Serves : v[3] \in DOMAIN CallOf \ {"startcopy", "wipe", "analyze"}
  <2>1. \A v \in Serves : v[3] \in {"id", "devices", "open", "img_open", "parts",
                                    "openpart", "attr", "readdir", "postcopy"}
    BY ServesRows
  <2> QED
    BY <2>1, CallPoints
<1>5. CASE ClientCallOk
  <2>1. PICK v \in Serves : /\ state = v[1] /\ CallOk(v[3]) /\ state' = v[4]
                            /\ pc' \in {"recv", "img_start"}
    BY <1>5 DEF ClientCallOk
  <2>2. \/ state' = state
        \/ state' = "WaitEnd"
        \/ /\ state \in {"Init", "DevOpened", "PartitionOpened"}
           /\ state' \in {"DevOpened", "PartitionOpened", "ImgDisk"}
    BY <2>1, ServesRows
  <2>3. LocksOK(state, pc, dest, locked)'
    BY SMT, <1>1, <1>2, <1>3, <2>1, <2>2, LocksLater
  <2> QED
    BY <1>1, <1>2, <1>3, <1>4, <2>1, <2>3, CallStep
<1>6. CASE ClientCallFails
  <2>1. PICK v \in Serves : CallFails(v[3])
    BY <1>6 DEF ClientCallFails
  <2>2. pc' = "recv" /\ state' \in {state, "WaitEnd"}
    BY <1>6 DEF ClientCallFails
  <2> QED
    BY <1>2, <1>3, <1>4, <2>1, <2>2, CallOnly
<1> QED
  BY <1>5, <1>6

(* The loop over the selected files.                                       *)
LEMMA TarPipes ==
    ASSUME SessionInv, TarFile \/ TarFileFails
    PROVE  PipeInv'
<1>1. UNCHANGED <<st, req, locked, state, dest>>
  BY DEF TarFile, TarFileFails, jobVars
<1>2. PICK p \in {"tar_attr", "tar_new", "tar_read", "tar_write", "tar_end"} :
        CallOk(p) \/ CallFails(p)
  BY DEF TarFile, TarFileFails
<1>3. pc' \in {"tar_new", "tar_read", "tar_write", "tar_end", "tar_next"}
  BY DEF TarFile, TarFileFails
<1>4. p \in DOMAIN CallOf \cap TarPoints /\ pc' \in TarPoints
      /\ p \notin {"startcopy", "wipe", "analyze"}
  BY <1>3, CallPoints DEF TarPoints
<1> QED
  BY <1>1, <1>2, <1>4, CallOnly

(* From the verdict of the analyzer to the bit vector.                     *)
LEMMA ImagePipes ==
    ASSUME SessionInv, \/ AnalyzeDone \/ InitFs \/ WriteDir \/ WriteFile
                       \/ WriteFileFails \/ ForwardBitVec
    PROVE  PipeInv'
<1>1. UNCHANGED <<st, req, locked, state, dest>>
  BY DEF AnalyzeDone, InitFs, WriteDir, WriteFile, WriteFileFails,
     ForwardBitVec, jobVars
<1>2. pc' \in {"analyzed", "fs_init", "fs_close", "startcopy", "bv_get", "bv_load",
               "dir_new", "dir_next", "w_next", "w_new", "w_read", "w_write", "w_end"}
  <2>1. CASE AnalyzeDone \/ InitFs \/ ForwardBitVec
    BY <2>1 DEF AnalyzeDone, InitFs, ForwardBitVec
  <2>2. CASE WriteDir \/ WriteFileFails
    BY <2>2 DEF WriteDir, WriteFileFails
  <2>3. CASE WriteFile
    BY <2>3 DEF WriteFile
  <2> QED
    BY <2>1, <2>2, <2>3
<1>3. pc' \notin LockPoints \cup {"copying", "wiping"}
  BY <1>2 DEF LockPoints, TarPoints
<1> DEFINE P == {"analyze", "fs_size", "fs_init", "dir_attr", "dir_new", "w_attr",
                 "w_new", "w_read", "w_write", "w_end", "fs_close", "bv_get", "bv_load"}
<1>4. \E p \in P : CallOk(p) \/ (CallFails(p) /\ p # "analyze")
  BY DEF AnalyzeDone, InitFs, WriteDir, WriteFile, WriteFileFails, ForwardBitVec
<1>5. P \subseteq DOMAIN CallOf /\ "startcopy" \notin P /\ "wipe" \notin P
  BY CallPoints
<1> HIDE DEF P
<1>6. PICK p \in P : CallOk(p) \/ (CallFails(p) /\ p # "analyze")
  BY <1>4
<1>7. p \in DOMAIN CallOf /\ p \notin {"startcopy", "wipe"}
  BY <1>5
<1> QED
  BY <1>1, <1>3, <1>6, <1>7, CallOnly

(* The image of a disk, and the calls whose failure ends the request.      *)
LEMMA FailPipes ==
    ASSUME SessionInv, ImgDisk \/ ImgDiskFails \/ TransferAborts
    PROVE  PipeInv'
<1>1. UNCHANGED <<st, req, locked, dest>>
  BY DEF ImgDisk, ImgDiskFails, TransferAborts, jobVars
<1>2. state' \in {state, "WaitEnd"} /\ pc' \in {"recv", "img_read", "img_write"}
  BY DEF ImgDisk, ImgDiskFails, TransferAborts, RunFails, RunEnds
<1>3. pc' \notin LockPoints \cup {"copying", "wiping"}
  BY <1>2 DEF LockPoints, TarPoints
<1>4. PICK p \in {"img_start", "img_read", "img_write", "cf_size", "tar_close",
                  "fs_size", "fs_init", "dir_attr", "dir_new", "fs_close", "bv_get",
                  "bv_load", "startcopy", "exec"} :
        (CallOk(p) /\ p # "startcopy") \/ CallFails(p)
  BY DEF ImgDisk, ImgDiskFails, TransferAborts
<1>5. p \in DOMAIN CallOf /\ p # "wipe" /\ p # "analyze"
  BY CallPoints
<1> QED
  BY <1>1, <1>2, <1>3, <1>4, <1>5, CallOnly

(* The steps that call nobody.                                             *)
LEMMA LoopPipes ==
    ASSUME SessionInv, TarNext \/ Analyzed \/ DirNext \/ WriteNext \/ WaitChild
    PROVE  PipeInv'
<1>1. TypeInv /\ PipeInv /\ LocksOK(state, pc, dest, locked) /\ At(state, pc, dest)
  BY DEF SessionInv, ControlInv, PipeInv
<1>2. UNCHANGED <<st, req, rsp, wait, locked, dest>>
  BY DEF TarNext, Analyzed, DirNext, WriteNext, WaitChild, ipcVars, jobVars
<1>3. pc \in {"tar_next", "analyzed", "dir_next", "w_next", "wait"}
  BY DEF TarNext, Analyzed, DirNext, WriteNext, WaitChild
<1>4. wait = "none"
  BY <1>1, <1>3, CallFacts, NotWaiting
<1>5. \/ /\ pc = "tar_next" /\ pc' \in {"tar_attr", "tar_close"} /\ state' = state
      \/ /\ pc' \in {"recv", "fs_size", "dir_attr", "w_next", "w_attr", "fs_close", "wait",
                     "exit"}
         /\ state' \in {state, "WaitEnd", "End"}
  BY DEF TarNext, Analyzed, DirNext, WriteNext, WaitChild, GiveUp, RunEnds
<1>6. pc' \notin {"copying", "wiping"}
  BY <1>5
<1>7. LocksOK(state, pc, dest, locked)'
  <2>1. CASE pc = "tar_next" /\ pc' \in {"tar_attr", "tar_close"} /\ state' = state
    <3>1. state = "CopyFiles" /\ pc \in TarPoints /\ pc' \in TarPoints
      BY <1>1, <2>1, PointStates DEF TarPoints
    <3> QED
      BY <1>1, <1>2, <2>1, <3>1, LocksLater
  <2>2. CASE /\ pc' \in {"recv", "fs_size", "dir_attr", "w_next", "w_attr", "fs_close",
                         "wait", "exit"}
             /\ state' \in {state, "WaitEnd", "End"}
    <3>1. pc' \notin LockPoints
      BY <2>2 DEF LockPoints, TarPoints
    <3> QED
      BY SMT, <1>1, <1>2, <2>2, <3>1, LocksLater
  <2> QED
    BY <1>5, <2>1, <2>2
<1>8. \A c \in WaitOnStartup : NotEnded(c)' => NotEnded(c)
  <2>1. CASE pc = "wait"
    <3>1. pc' \in {"wait", "exit"}
      BY <2>1 DEF TarNext, Analyzed, DirNext, WriteNext, WaitChild
    <3> QED
      BY <3>1 DEF NotEnded
  <2>2. CASE pc # "wait"
    BY <1>3, <2>2, NotEndedYet
  <2> QED
    BY <2>1, <2>2
<1> QED
  BY <1>1, <1>2, <1>4, <1>6, <1>7, <1>8, QuietStep

(* The calls after which another child is unlocked.  With a file system    *)
(* type usbsas does not know, files2tar would be unlocked and still taken  *)
(* for locked.                                                             *)
LEMMA UnlockPipes ==
    ASSUME SessionInv, fstype # "Bad", GotDevSize \/ TarClosed \/ Delivered
    PROVE  PipeInv'
<1>1. TypeInv /\ PipeInv /\ LocksOK(state, pc, dest, locked) /\ At(state, pc, dest)
  BY DEF SessionInv, ControlInv, PipeInv
<1>2. UNCHANGED <<st, dest>>
  BY DEF GotDevSize, TarClosed, Delivered, jobVars
<1>3. /\ "recv" \notin LockPoints \cup {"copying", "wiping"}
      /\ {"cf_size", "tar_close", "upload", "exec"} \subseteq DOMAIN CallOf
      /\ {"files2tar", "tar2files", "fs2dev"} \subseteq WaitOnStartup
  BY CallPoints DEF LockPoints, TarPoints, WaitOnStartup
<1>4. Unlock(0) \in Reqs /\ Unlock(1) \in Reqs
  BY DEF Unlock, Reqs
<1>5. /\ CallOf["cf_size"][1] = "fs2dev" /\ CallOf["tar_close"][1] = "files2tar"
      /\ CallOf["upload"][1] = "uploader" /\ CallOf["exec"][1] = "cmdexec"
  BY SMT, CallValues
<1> DEFINE Stops == UNCHANGED <<req, locked>> /\ pc' = "recv" /\ state' = "WaitEnd"
<1>6. CASE GotDevSize
  <2>1. CallOk("cf_size") /\ pc = "cf_size"
    BY <1>6 DEF GotDevSize, CallOk
  <2>2. CASE Stops
    BY <1>2, <1>3, <2>1, <2>2, CallOnly
  <2>3. CASE ~Stops
    <3>1. /\ ~Closed("files2tar") /\ req' = WriteUnlock("files2tar", 0)
          /\ locked' = locked \ {"files2tar"} /\ pc' = "tar_next" /\ state' = state
      BY <1>6, <2>3 DEF GotDevSize, StartTar, GiveUp, RunEnds, RunFails
    <3>2. state = "CopyFiles" /\ dest = "Usb" /\ locked = {"files2tar", "tar2files"}
      BY <1>1, <2>1, PointStates DEF LocksOK
    <3>3. LocksOK(state, pc, dest, locked)'
      BY <1>2, <3>1, <3>2 DEF LocksOK, TarPoints
    <3>4. "files2tar" \in locked /\ pc' \notin {"copying", "wiping"}
      BY <3>1, <3>2
    <3> QED
      BY <1>1, <1>2, <1>3, <1>4, <1>5, <2>1, <3>1, <3>3, <3>4, FreeStep
  <2> QED
    BY <2>2, <2>3
<1>7. CASE TarClosed
  <2>1. CallOk("tar_close") /\ pc = "tar_close"
    BY <1>7 DEF TarClosed, CallOk
  <2>2. CASE Stops
    BY <1>2, <1>3, <2>1, <2>2, CallOnly
  <2>3. CASE ~Stops
    <3>1. PICK v \in {0, 1} : req' = WriteUnlock("tar2files", v)
      BY <1>7, <2>3 DEF TarClosed, RunFails
    <3>2. /\ ~Closed("tar2files") /\ locked' = locked \ {"tar2files"}
          /\ state' = IF dest = "Usb" THEN "WriteFiles" ELSE "UploadOrCmd"
          /\ pc' = CASE dest = "Usb" -> IF Analyze THEN "analyze" ELSE "analyzed"
                     [] dest = "Net" -> "upload"
                     [] dest = "Cmd" -> "exec"
      BY <1>7, <2>3 DEF TarClosed, RunFails
    <3>3. dest \in {"Usb", "Net", "Cmd"}
      BY DEF SessionInv, ControlInv
    <3>4. pc' \in {"analyze", "analyzed", "upload", "exec"}
      BY <3>2, <3>3
    <3>5. locked = IF dest = "Usb" THEN {"tar2files"} ELSE {"fs2dev", "tar2files"}
      BY <1>1, <2>1 DEF LocksOK, TarPoints
    <3>6. LocksOK(state, pc, dest, locked)'
      BY <3>2, <3>4, <3>5 DEF LocksOK, TarPoints
    <3>7. "tar2files" \in locked /\ pc' \notin {"copying", "wiping"} /\ Unlock(v) \in Reqs
      BY <1>4, <3>4, <3>5
    <3> QED
      BY <1>1, <1>2, <1>3, <1>5, <2>1, <3>1, <3>2, <3>6, <3>7, FreeStep
  <2> QED
    BY <2>2, <2>3
<1>8. CASE Delivered
  <2>1. PICK p \in {"upload", "exec"} : CallOk(p)
    BY <1>8 DEF Delivered
  <2>2. pc = p /\ p \in DOMAIN CallOf \ {"startcopy", "wipe"}
    BY <1>3, <2>1 DEF CallOk
  <2>3. CASE Stops
    BY <1>2, <1>3, <2>1, <2>2, <2>3, CallOnly
  <2>4. CASE ~Stops
    <3>1. /\ ~Closed("fs2dev") /\ req' = WriteUnlock("fs2dev", 0)
          /\ locked' = locked \ {"fs2dev"} /\ pc' = "recv" /\ state' = "TransferDone"
      BY <1>8, <2>4 DEF Delivered, RunEnds, RunFails
    <3>2. state = "UploadOrCmd" /\ locked = {"fs2dev"}
      BY <1>1, <2>2, PointStates DEF LocksOK
    <3>3. LocksOK(state, pc, dest, locked)'
      BY <3>1 DEF LocksOK, TarPoints
    <3>4. "fs2dev" \in locked /\ pc' \notin {"copying", "wiping"} /\ CallOf[p][1] # "fs2dev"
      BY <1>5, <3>1, <3>2
    <3> QED
      BY <1>1, <1>2, <1>3, <1>4, <2>1, <2>2, <3>1, <3>3, <3>4, FreeStep
  <2> QED
    BY <2>3, <2>4
<1> QED
  BY <1>6, <1>7, <1>8

(* The end of a call with progress reports.                                *)
LEMMA LastPipes ==
    ASSUME SessionInv,
           \/ WipeZeroed \/ WipeFails \/ CopyDone \/ CopyRefused \/ CopyBroken
           \/ AnalyzeFails \/ UploadFails
    PROVE  PipeInv'
<1>1. TypeInv /\ PipeInv /\ LocksOK(state, pc, dest, locked)
  BY DEF SessionInv, PipeInv
<1>2. UNCHANGED <<st, req, locked, dest>> /\ wait' = "none"
  BY DEF WipeZeroed, WipeFails, CopyDone, CopyRefused, CopyBroken, AnalyzeFails,
     UploadFails, jobVars, CallFails
<1>3. /\ pc' \in {"recv", "fs_size"} /\ state' \in {state, "WaitEnd", "TransferDone"}
      /\ pc \in {"wipe", "wiping", "copying", "analyze", "upload"}
  BY DEF WipeZeroed, WipeFails, CopyDone, CopyRefused, CopyBroken, AnalyzeFails,
     UploadFails, RunFails, RunEnds, CallFails
<1>4. pc' \notin LockPoints \cup {"copying", "wiping"} /\ \A c : NotEnded(c)
  BY <1>3, NotEndedYet DEF LockPoints, TarPoints
<1>5. LocksOK(state, pc, dest, locked)'
  BY SMT, <1>1, <1>2, <1>3, <1>4, LocksLater
<1>6. {"fs2dev", "analyzer", "uploader"} \subseteq Children
  BY DEF Children
<1>7. CASE WipeZeroed \/ CopyDone
  <2>1. Reads("fs2dev") /\ LastOne("fs2dev")
    BY <1>7 DEF WipeZeroed, CopyDone, Read, Reads, LastOne, LastAnswer
  <2> QED
    BY <1>1, <1>2, <1>4, <1>5, <1>6, <2>1, ReadStep
<1>8. CASE WipeFails \/ CopyRefused \/ CopyBroken
  <2>1. ReadEof("fs2dev") \/ (Reads("fs2dev") /\ LastOne("fs2dev"))
    BY <1>8, CallFacts DEF WipeFails, CopyRefused, CopyBroken, ReadFails,
       ReadOther, Reads, LastOne, LastAnswer, CallFails
  <2> QED
    BY <1>1, <1>2, <1>4, <1>5, <1>6, <2>1, ReadStep
<1>9. CASE AnalyzeFails
  <2>1. ReadEof("analyzer") \/ (Reads("analyzer") /\ LastOne("analyzer"))
    BY <1>9 DEF AnalyzeFails, ReadFails, ReadOther, Reads, LastOne, LastAnswer
  <2> QED
    BY <1>1, <1>2, <1>4, <1>5, <1>6, <2>1, ReadStep
<1>10. CASE UploadFails
  <2>1. ReadEof("uploader") \/ (Reads("uploader") /\ LastOne("uploader"))
    BY <1>10 DEF UploadFails, ReadFails, ReadOther, Reads, LastOne, LastAnswer
  <2> QED
    BY <1>1, <1>2, <1>4, <1>5, <1>6, <2>1, ReadStep
<1> QED
  BY <1>7, <1>8, <1>9, <1>10

---------------------------------------------------------------------------
(* A progress report: usbsas reads it and goes on waiting.                 *)
LEMMA ProgressPipes ==
    ASSUME SessionInv,
           \/ AnalyzeProgress \/ UploadProgress \/ StartCopy \/ CopyProgress
           \/ WipeStarted
    PROVE  PipeInv'
<1>1. TypeInv /\ PipeInv /\ LocksOK(state, pc, dest, locked) /\ IpcTypeOK
  BY DEF SessionInv, PipeInv, TypeInv
<1>2. UNCHANGED <<st, req, locked, dest, state, wait>>
  BY DEF AnalyzeProgress, UploadProgress, StartCopy, CopyProgress, WipeStarted,
     orchVars, ctlVars, jobVars
<1>3. \/ AnalyzeProgress /\ Reads("analyzer") /\ pc = "analyze" /\ pc' = pc
      \/ UploadProgress /\ Reads("uploader") /\ pc = "upload" /\ pc' = pc
      \/ StartCopy /\ Reads("fs2dev") /\ pc = "startcopy" /\ pc' = "copying"
      \/ CopyProgress /\ Reads("fs2dev") /\ pc \in {"copying", "wiping"} /\ pc' = pc
      \/ WipeStarted /\ Reads("fs2dev") /\ pc = "wipe" /\ pc' = "wiping"
  BY DEF AnalyzeProgress, UploadProgress, StartCopy, CopyProgress, WipeStarted,
     orchVars, ctlVars, Read, Reads
<1>4. PICK c \in {"analyzer", "uploader", "fs2dev"} :
        /\ Reads(c)
        /\ c = "analyzer" => AnalyzeProgress /\ pc = "analyze" /\ pc' = pc
        /\ c = "uploader" => UploadProgress /\ pc = "upload" /\ pc' = pc
        /\ c = "fs2dev" => \/ StartCopy /\ pc = "startcopy" /\ pc' = "copying"
                           \/ CopyProgress /\ pc \in {"copying", "wiping"} /\ pc' = pc
                           \/ WipeStarted /\ pc = "wipe" /\ pc' = "wiping"
  BY <1>3
<1>5. c \in Procs /\ c \in Children /\ c \notin {"none", "epipe"} /\ Children \subseteq Procs
  BY DEF Procs, Children
<1>6. /\ wait = c /\ rsp[c] # <<>> /\ rsp'[c] = Tail(rsp[c]) /\ (wait = c) = TRUE
      /\ (wait' = c) = TRUE /\ st'[c] = st[c] /\ req'[c] = req[c] /\ rsp[c] \in Seq(Rsps)
      /\ \A d \in Procs \ {c} : rsp'[d] = rsp[d]
  BY <1>1, <1>2, <1>4, <1>5 DEF Reads, IpcTypeOK
<1>7. ChildOK(c)'
  <2>1. PipesOK(c, st[c], req[c], rsp[c], TRUE, pc)
    BY <1>1, <1>5, <1>6 DEF PipeInv, ChildOK
  <2>2. c = "analyzer" => pc' = pc /\ pc # "end" /\ Head(rsp[c]).type = "UploadStatus"
    BY <1>4 DEF AnalyzeProgress, Read
  <2>3. c = "fs2dev" =>
          \/ pc = "startcopy" /\ Head(rsp[c]).type = "StartCopy" /\ pc' = "copying"
          \/ pc = "wipe" /\ Head(rsp[c]).type = "Wipe" /\ pc' = "wiping"
          \/ (pc \in {"copying", "wiping"} /\ Head(rsp[c]).type = "CopyStatus" /\ pc' = pc)
    BY <1>4 DEF StartCopy, CopyProgress, WipeStarted, Read
  <2>4. PipesOK(c, st[c], req[c], Tail(rsp[c]), TRUE, pc')
    BY <1>6, <2>1, <2>2, <2>3, PipesProgress
  <2> QED
    BY <1>6, <2>4 DEF ChildOK
<1>8. ASSUME NEW d \in Children, d # c
      PROVE  ChildOK(d)'
  <2>1. ChildOK(d) /\ Untouched(d) /\ (wait' = d) = (wait = d) /\ wait # d
    BY <1>1, <1>2, <1>5, <1>6, <1>8 DEF Untouched, PipeInv
  <2> QED
    BY <2>1, UntouchedOK
<1>9. \A d \in WaitOnStartup : FlagOK(d)'
  <2>1. \A d : NotEnded(d)
    BY <1>4, NotEndedYet
  <2> QED
    BY <1>1, <1>2, <2>1, FlagKept
<1>10. WaitOK' /\ GhostOK'
  BY <1>1, <1>2, <1>4, <1>5, <1>6 DEF WaitOK, GhostOK, MassStorageDropped,
     PipeInv
<1>11. LocksOK(state, pc, dest, locked)'
  <2>1. pc' \in {"analyze", "upload", "copying", "wiping"}
    BY <1>4
  <2>2. pc' \notin LockPoints
    BY <2>1 DEF LockPoints, TarPoints
  <2> QED
    BY <1>1, <1>2, <2>2, LocksLater
<1> QED
  BY <1>7, <1>8, <1>9, <1>10, <1>11 DEF PipeInv

---------------------------------------------------------------------------
(* usbsas calls no child that it takes for locked.                         *)
LEMMA CalleeFree ==
    ASSUME SessionInv, pc \in DOMAIN CallOf
    PROVE  Callee \notin locked
<1>1. /\ At(state, pc, dest) /\ LocksOK(state, pc, dest, locked)
      /\ locked \subseteq WaitOnStartup
  BY DEF SessionInv, ControlInv, PipeInv, TypeInv, OrchTypeOK
<1>2. CASE pc \in TarPoints
  BY SMT, <1>1, <1>2, CalleeTable DEF LocksOK, Callee, WaitOnStartup
<1>3. CASE pc = "cf_size"
  BY <1>1, <1>3, CalleeTable DEF LocksOK, Callee
<1>4. CASE pc \in FilePoints \cup FsPoints \cup FinalPoints \cup {"wipe"}
  <2>1. state \in {"WriteFiles", "Wipe"} /\ (state # "WriteFiles" => pc \notin FilePoints)
    BY <1>1, <1>4, PointStates
  <2>2. pc \notin FilePoints => CallOf[pc][1] \in {"fs2dev", "files2fs"}
    BY <1>4, CalleeTable
  <2> QED
    BY <1>1, <2>1, <2>2 DEF LocksOK, Callee
<1>5. CASE pc \notin TarPoints \cup FilePoints \cup FsPoints \cup FinalPoints
                         \cup {"wipe", "cf_size"}
  BY <1>1, <1>5, CalleeTable DEF Callee
<1> QED
  BY <1>2, <1>3, <1>4, <1>5

(* usbsas writes to a child that is gone.                                  *)
LEMMA EpipeStep ==
    ASSUME TypeInv, PipeInv, wait = "none", wait' = "epipe",
           UNCHANGED <<st, req, rsp, state, pc, dest, locked, nth>>,
           pc \in DOMAIN CallOf \cup {"end"}
    PROVE  PipeInv'
<1>1. "none" \notin Children /\ "epipe" \notin Children /\ WaitOnStartup \subseteq Children
  BY DEF Children, WaitOnStartup
<1>2. \A c \in Children : ChildOK(c)'
  BY <1>1, UntouchedOK DEF Untouched, PipeInv
<1>3. \A c \in WaitOnStartup : NotEnded(c)' => NotEnded(c)
  BY <1>1 DEF NotEnded
<1>4. \A c \in WaitOnStartup : FlagOK(c)'
  BY <1>3, FlagKept
<1>5. pc \notin {"copying", "wiping"}
  BY CallFacts
<1>6. WaitOK' /\ GhostOK' /\ LocksOK(state, pc, dest, locked)'
  BY <1>1, <1>5 DEF WaitOK, GhostOK, MassStorageDropped, PipeInv
<1> QED
  BY <1>2, <1>4, <1>6 DEF PipeInv

(* usbsas writes a message to a child that is not to be unlocked first.    *)
LEMMA SendStep ==
    ASSUME TypeInv, PipeInv, NeverLocked, NEW c \in Children \ locked, NEW m \in Reqs,
           m.type # "Unlock", wait = "none", wait' = c,
           UNCHANGED <<st, rsp, state, pc, dest, locked, nth>>,
           req' = [req EXCEPT ![c] = Append(@, m)],
           c = "fs2dev" => pc \in DOMAIN DevAsks /\ m.type = DevAsks[pc],
           c = "analyzer" /\ pc = "end" => m.type = "End",
           \/ pc \in DOMAIN CallOf /\ c = CallOf[pc][1]
           \/ pc = "end" /\ c = EndOrder[nth]
    PROVE  PipeInv'
<1>1. /\ c \in Procs /\ IpcTypeOK /\ "none" \notin Children /\ "epipe" \notin Children
      /\ WaitOnStartup \subseteq Children /\ Children \subseteq Procs
  BY DEF TypeInv, Procs, Children, WaitOnStartup
<1>2. st[c] = "Locked" => req[c] # <<>>
  <2>1. CASE c \in WaitOnStartup
    BY <2>1 DEF PipeInv, FlagOK
  <2>2. CASE c \notin WaitOnStartup
    BY <2>2 DEF NeverLocked
  <2> QED
    BY <2>1, <2>2
<1>3. \A d \in Children : ChildOK(d)'
  BY <1>2, SendPipes
<1>4. req'[c] = Append(req[c], m) /\ \A d \in Procs \ {c} : req'[d] = req[d]
  BY <1>1 DEF IpcTypeOK
<1>5. \A d \in WaitOnStartup : FlagOK(d)'
  <2> SUFFICES ASSUME NEW d \in WaitOnStartup
               PROVE  FlagOK(d)'
    OBVIOUS
  <2>1. CASE d = c
    BY <1>2, <1>4, <2>1, FlagSent
  <2>2. CASE d # c
    <3>1. NotEnded(d)' => NotEnded(d)
      BY <1>1 DEF NotEnded
    <3> QED
      BY <1>1, <1>4, <2>2, <3>1, FlagKept
  <2> QED
    BY <2>1, <2>2
<1>6. pc \notin {"copying", "wiping"}
  BY CallFacts
<1>7. WaitOK' /\ GhostOK' /\ LocksOK(state, pc, dest, locked)'
  BY <1>1, <1>6 DEF WaitOK, GhostOK, MassStorageDropped, PipeInv
<1> QED
  BY <1>3, <1>5, <1>7 DEF PipeInv

(* Each call to a child, from every point.                                 *)
LEMMA SendRequestPipes ==
    ASSUME SessionInv, NeverLocked, SendRequest
    PROVE  PipeInv'
<1>1. TypeInv /\ PipeInv /\ TypeOK /\ fstype \in FsTypes \cup {"Fat"}
  BY TypeInvTypeOK DEF SessionInv, TypeInv, OrchTypeOK
<1>2. /\ pc \in DOMAIN CallOf /\ wait = "none"
      /\ UNCHANGED <<st, rsp, state, pc, dest, locked, nth>>
  BY DEF SendRequest, jobVars
<1>3. CASE Closed(Callee)
  <2>1. wait' = "epipe" /\ UNCHANGED req
    BY <1>3 DEF SendRequest
  <2> QED
    BY <1>1, <1>2, <2>1, EpipeStep
<1>4. CASE ~Closed(Callee)
  <2>1. wait' = Callee /\ req' = [req EXCEPT ![Callee] = Append(@, Request)]
    BY <1>4 DEF SendRequest
  <2>2. Request \in Reqs /\ Request.type # "Unlock" /\ Callee \in Children
    BY <1>1, <1>2, RequestType
  <2>3. Callee \notin locked
    BY <1>2, CalleeFree
  <2>4. Callee = "fs2dev" => pc \in DOMAIN DevAsks /\ Request.type = DevAsks[pc]
    <3>1. ASSUME Callee = "fs2dev"
          PROVE  pc \in DOMAIN DevAsks /\ CallOf[pc][2] = DevAsks[pc]
      BY <1>2, <3>1, CallFacts DEF Callee
    <3>2. Request.type = CallOf[pc][2]
      <4> DEFINE t == CallOf[pc][2]
      <4>1. Msg(t).type = t
        BY DEF Msg
      <4> HIDE DEF t
      <4> QED
        BY <4>1 DEF Request, t
    <3> QED
      BY <3>1, <3>2
  <2>5. pc # "end" /\ Callee = CallOf[pc][1]
    BY <1>2, CallFacts DEF Callee
  <2> HIDE DEF Callee, Request
  <2> QED
    BY <1>1, <1>2, <2>1, <2>2, <2>3, <2>4, <2>5, SendStep
<1> QED
  BY <1>3, <1>4

(* end_all writes the unlock bytes and End to a child that nobody used.    *)
LEMMA EndLocked ==
    ASSUME TypeInv, PipeInv, NEW c \in locked, pc = "end", wait = "none", wait' = c,
           c = EndOrder[nth], ~Closed(c),
           UNCHANGED <<st, rsp, state, pc, dest, locked, nth>>,
           req' = [req EXCEPT ![c] = @ \o <<Unlock(EndByte(c))>> \o <<Msg("End")>>]
    PROVE  PipeInv'
<1>1. /\ c \in WaitOnStartup /\ IpcTypeOK /\ nth \in 1 .. Len(EndOrder)
      /\ Len(EndOrder) \in Nat
  BY SMT, EndOrderType DEF TypeInv, OrchTypeOK
<1>2. /\ c \in Procs /\ "none" \notin Children /\ "epipe" \notin Children
      /\ c \in Children /\ c # "scsi2files" /\ c \notin {"analyzer", "uploader"}
      /\ WaitOnStartup \subseteq Children /\ Children \subseteq Procs
  BY <1>1 DEF Procs, Children, WaitOnStartup
<1>3. NotEnded(c)
  BY SMT, <1>1, <1>2 DEF NotEnded
<1>4. st[c] = "Locked" /\ req[c] = <<>> /\ rsp[c] = <<>>
  <2>1. st[c] = "Locked" /\ req[c] = <<>>
    BY <1>1, <1>2, <1>3 DEF PipeInv, FlagOK, Closed
  <2>2. PipesOK(c, "Locked", req[c], rsp[c], wait = c, pc)
    BY <1>2, <2>1 DEF PipeInv, ChildOK
  <2>3. rsp[c] = <<>>
    BY <1>1, <2>2, LockedSilent
  <2> QED
    BY <2>1, <2>3
<1>5. req'[c] = <<>> \o <<Unlock(EndByte(c))>> \o <<Msg("End")>>
  BY <1>1, <1>2, <1>4 DEF IpcTypeOK
<1>6. /\ Len(req'[c]) = 2 /\ req'[c][1].type = "Unlock" /\ req'[c][2].type = "End"
      /\ DOMAIN req'[c] = {1, 2} /\ req'[c] # <<>>
  <2> DEFINE u == Unlock(EndByte(c))
             m == Msg("End")
  <2>1. u.type = "Unlock" /\ m.type = "End"
    BY DEF Unlock, Msg
  <2>3. req'[c] = <<>> \o <<u>> \o <<m>>
    BY <1>5
  <2> HIDE DEF u, m
  <2>4. \A q : q = <<>> \o <<u>> \o <<m>> =>
           /\ Len(q) = 2 /\ q[1] = u /\ q[2] = m
           /\ DOMAIN q = {1, 2} /\ q # <<>>
    BY TwoMessages
  <2>2. /\ Len(req'[c]) = 2 /\ DOMAIN req'[c] = {1, 2} /\ req'[c] # <<>>
        /\ req'[c][1] = u /\ req'[c][2] = m
    BY <2>3, <2>4
  <2> QED
    BY <2>1, <2>2
<1>7. /\ \A d \in Procs \ {c} : req'[d] = req[d]
      /\ st'[c] = "Locked" /\ rsp'[c] = <<>> /\ (wait' = c) = TRUE /\ pc' = "end"
  BY <1>1, <1>2, <1>4 DEF IpcTypeOK
<1>8. ChildOK(c)'
  BY <1>1, <1>6, <1>7, PipesUnlocked DEF ChildOK
<1>9. FlagOK(c)'
  BY <1>2, <1>6, <1>7 DEF FlagOK, NotEnded
<1>10. ASSUME NEW d \in Children, d # c
       PROVE  ChildOK(d)'
  <2>1. ChildOK(d) /\ Untouched(d) /\ (wait' = d) = (wait = d) /\ wait # d
    BY <1>2, <1>7, <1>10 DEF Untouched, PipeInv
  <2> QED
    BY <2>1, UntouchedOK
<1>11. ASSUME NEW d \in WaitOnStartup, d # c
       PROVE  FlagOK(d)'
  <2>1. NotEnded(d)' => NotEnded(d)
    BY <1>2 DEF NotEnded
  <2> QED
    BY <1>2, <1>7, <1>11, <2>1, FlagKept
<1>12. WaitOK' /\ GhostOK' /\ LocksOK(state, pc, dest, locked)'
  BY <1>2 DEF WaitOK, GhostOK, MassStorageDropped, PipeInv
<1> QED
  BY <1>8, <1>9, <1>10, <1>11, <1>12 DEF PipeInv

(* The end of the session: end_all goes through the children in turn.      *)
LEMMA EndPipes ==
    ASSUME SessionInv, NeverLocked, EndSend \/ EndReturn
    PROVE  PipeInv'
<1> DEFINE c == EndOrder[nth]
<1>1. /\ TypeInv /\ PipeInv /\ pc = "end" /\ IpcTypeOK
      /\ nth \in 1 .. Len(EndOrder) /\ Len(EndOrder) \in Nat
  <2>1. pc = "end"
    BY DEF EndSend, EndReturn
  <2>2. TypeInv /\ PipeInv /\ IpcTypeOK /\ nth \in 1 .. Len(EndOrder)
    BY DEF SessionInv, TypeInv, OrchTypeOK
  <2> QED
    BY SMT, <2>1, <2>2, EndOrderType
<1>2. c \in Children /\ c \in Procs
  BY <1>1, EndOrderType DEF Procs
<1>3. CASE EndSend
  <2>1. wait = "none" /\ UNCHANGED <<st, rsp, state, pc, dest, locked, nth>>
    BY <1>3 DEF EndSend, jobVars
  <2>2. CASE Closed(c)
    <3>1. wait' = "epipe" /\ UNCHANGED req
      BY <1>3, <2>2 DEF EndSend
    <3> QED
      BY <1>1, <2>1, <3>1, EpipeStep
  <2>3. CASE ~Closed(c) /\ c \in locked
    <3>1. wait' = c /\ req' = [req EXCEPT ![c] = @ \o <<Unlock(EndByte(c))>> \o <<Msg("End")>>]
      BY <1>3, <2>3 DEF EndSend
    <3> QED
      BY <1>1, <2>1, <2>3, <3>1, EndLocked
  <2>4. CASE ~Closed(c) /\ c \notin locked
    <3>1. wait' = c /\ req' = [req EXCEPT ![c] = @ \o <<>> \o <<Msg("End")>>]
      BY <1>3, <2>4 DEF EndSend
    <3>2. req[c] \in Seq(Reqs) /\ Msg("End") \in Reqs /\ Msg("End").type = "End"
      BY <1>1, <1>2, PlainMessage DEF IpcTypeOK, ReqTypes, Msg
    <3> HIDE DEF c
    <3>3. req[c] \o <<>> \o <<Msg("End")>> = Append(req[c], Msg("End"))
      BY SMT, <3>2
    <3>4. req' = [req EXCEPT ![c] = Append(@, Msg("End"))]
      BY <3>1, <3>3
    <3>5. "end" \in DOMAIN DevAsks /\ DevAsks["end"] = "End"
      BY DEF DevAsks
    <3>6. c = EndOrder[nth]
      BY DEF c
    <3> QED
      BY <1>1, <1>2, <2>1, <2>4, <3>1, <3>2, <3>4, <3>5, <3>6, SendStep
  <2> QED
    BY <2>2, <2>3, <2>4
<1>4. CASE EndReturn
  <2>1. /\ UNCHANGED <<st, req, locked, state, dest>> /\ wait' = "none"
        /\ pc' \in {"end", "wait"} /\ (pc' = "end" => nth' = nth + 1 /\ nth < Len(EndOrder))
        /\ Read(c, "End") \/ ReadFails(c, {"End"})
    BY <1>1, <1>4 DEF EndReturn, jobVars
  <2>2. (Reads(c) /\ LastOne(c)) \/ ReadEof(c)
    BY <1>1, <2>1 DEF Read, ReadFails, ReadOther, Reads, LastOne, LastAnswer
  <2>3. \A d \in WaitOnStartup : NotEnded(d)' => NotEnded(d)
    <3> SUFFICES ASSUME NEW d \in WaitOnStartup, NotEnded(d)'
                 PROVE  NotEnded(d)
      OBVIOUS
    <3>1. pc' = "end" /\ nth' = nth + 1
      BY <2>1 DEF NotEnded
    <3>2. PICK i \in (nth + 1) .. Len(EndOrder) : EndOrder[i] = d
      BY <3>1 DEF NotEnded
    <3>3. i \in nth .. Len(EndOrder) /\ i \in 1 .. Len(EndOrder) /\ i # nth
      BY SMT, <1>1, <3>2
    <3>4. d # c
      BY <1>1, <3>2, <3>3, EndOrderType
    <3>5. wait \in {c, "epipe"} /\ d # "epipe"
      BY <2>1 DEF Read, ReadFails, ReadOther, ReadEof, WaitOnStartup
    <3> HIDE DEF c
    <3> QED
      BY <1>1, <3>2, <3>3, <3>4, <3>5 DEF NotEnded
  <2>4. LocksOK(state, pc, dest, locked)'
    <3>1. pc' \notin LockPoints /\ LocksOK(state, pc, dest, locked)
      BY <1>1, <2>1 DEF LockPoints, TarPoints, PipeInv
    <3> QED
      BY <2>1, <3>1, LocksLater
  <2> HIDE DEF c
  <2> QED
    BY <1>1, <1>2, <2>1, <2>2, <2>3, <2>4, ReadStep
<1> QED
  BY <1>3, <1>4
=============================================================================
