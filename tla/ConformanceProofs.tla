-------------------------- MODULE ConformanceProofs -------------------------
(***************************************************************************)
(* The session of Usbsas implements Session, for every selection of files, *)
(* every fault of a child and every crash.                                 *)
(*                                                                         *)
(* The argument is about the control of usbsas alone: where it is in which *)
(* state, and that it has answered nothing yet while it works (ControlInv).*)
(* Every step of a child then leaves the dialogue as it is, and every step *)
(* of usbsas is a step of the dialogue or leaves it as it is.              *)
(*                                                                         *)
(* Then the children that answer a request more than once or not at all:   *)
(* fs2dev, the services and a child that dies keep PipeInv.                *)
(***************************************************************************)
EXTENDS Conformance, UsbsasProofs

(* A leaf that names no prover is for Zenon.                               *)
USE Zenon

(* What the client sees at each point.                                     *)
LEMMA DoingTable ==
    ASSUME NEW s, NEW p, NEW d, At(s, p, d)
    PROVE  /\ p = "recv" => DoingAt(s, p) = "none"
           /\ p \in {"end", "wait"} => DoingAt(s, p) = "End"
           /\ p = "exit" => DoingAt(s, p) = "exit"
           /\ \A v \in Serves : p = v[3] => DoingAt(s, p) = v[2]
           /\ p \in {"select", "cf_size"} => DoingAt(s, p) = "Select"
           /\ p \in TarPoints => DoingAt(s, p) = "Tar"
           /\ p = "analyze" => DoingAt(s, p) = "Analyze"
           /\ p \in {"wipe", "wiping"} => DoingAt(s, p) = "Zero"
           /\ p \in FsPoints \cup FinalPoints /\ s = "Wipe"
                => DoingAt(s, p) = "Format"
           /\ p \in FilePoints \cup FsPoints /\ s = "WriteFiles"
                => DoingAt(s, p) = "Fs"
           /\ p \in FinalPoints /\ s = "WriteFiles" => DoingAt(s, p) = "Final"
           /\ p \in {"upload", "exec"} => DoingAt(s, p) = "Final"
           /\ p \in ImgPoints => DoingAt(s, p) = "Read"
<1> DEFINE Served == {v[3] : v \in Serves}
<1>1. ASSUME NEW v \in Serves, p = v[3]
      PROVE  DoingAt(s, p) = v[2]
  <2>1. p \in Served
    BY <1>1
  <2>2. s \in IdleStates
    BY <1>1, ServedAt DEF At, IdleStates, TarPoints, FilePoints, FsPoints,
       FinalPoints, ImgPoints
  <2>3. DoingAt(s, p) = (CHOOSE w \in Serves : w[3] = p)[2]
    BY SMT, <1>1, <2>1, <2>2, ServedAt DEF DoingAt, IdleStates, FinalPoints
  <2> QED
    BY SMT, <1>1, <2>3, ServedAt
<1>2. ASSUME p \in {"recv", "end", "wait", "exit", "select", "cf_size", "analyze",
                    "wipe", "wiping", "upload", "exec"}
                  \cup TarPoints \cup FilePoints \cup FsPoints \cup FinalPoints
                  \cup ImgPoints
      PROVE  p \notin Served /\ \A v \in Serves : p # v[3]
  BY SMT, <1>2, ServedAt
<1> HIDE DEF Served
<1>10. /\ p = "recv" => DoingAt(s, p) = "none"
       /\ p \in {"end", "wait"} => DoingAt(s, p) = "End"
       /\ p = "exit" => DoingAt(s, p) = "exit"
  BY <1>2, PointStates DEF DoingAt, IdleStates, Served
<1>11. /\ p \in {"select", "cf_size"} => DoingAt(s, p) = "Select"
       /\ p \in TarPoints => DoingAt(s, p) = "Tar"
  BY <1>2, PointStates DEF DoingAt, TarPoints, Served
<1>12. /\ p = "analyze" => DoingAt(s, p) = "Analyze"
       /\ p \in {"wipe", "wiping"} => DoingAt(s, p) = "Zero"
  BY <1>2, PointStates DEF DoingAt, Served
<1>13. /\ p \in FsPoints \cup FinalPoints /\ s = "Wipe" => DoingAt(s, p) = "Format"
       /\ p \in FilePoints \cup FsPoints /\ s = "WriteFiles"
            => DoingAt(s, p) = "Fs"
       /\ p \in FinalPoints /\ s = "WriteFiles" => DoingAt(s, p) = "Final"
  BY <1>2 DEF DoingAt, FsPoints, FilePoints, FinalPoints, Served
<1>14. /\ p \in {"upload", "exec"} => DoingAt(s, p) = "Final"
       /\ p \in ImgPoints => DoingAt(s, p) = "Read"
  BY <1>2, PointStates DEF DoingAt, ImgPoints, Served
<1> QED
  BY <1>1, <1>10, <1>11, <1>12, <1>13, <1>14

---------------------------------------------------------------------------
(* A step of the dialogue that writes one response, or two, is taken.      *)
LEMMA SaysOne ==
    ASSUME dest \in {"Usb", "Net", "Cmd"}, answers = <<>>, UNCHANGED dest,
           NEW m, answers' = IF m \in Abstract!Progress THEN <<>> ELSE <<m>>,
           Abstract!Step(state, Doing, <<m>>, state', Doing') \in Abstract!Steps[dest]
    PROVE  Abstract!SessionNext
<1> DEFINE w == Abstract!Step(state, Doing, <<m>>, state', Doing')
<1>1. /\ w.from = <<state, Doing>> /\ w.says = <<m>>
      /\ w.to[1] = state' /\ w.to[2] = Doing'
  BY DEF Abstract!Step
<1>2. Abstract!Work(w)
  BY <1>1 DEF Abstract!Work
<1>3. answers' = answers \o Abstract!Final(w.says)
  <2>1. <<>> \o <<>> = <<>> /\ <<>> \o <<m>> = <<m>>
    BY SMT
  <2>2. Head(<<m>>) = m /\ Tail(<<m>>) = <<>>
    BY SMT
  <2> QED
    BY <1>1, <2>1, <2>2 DEF Abstract!Final
<1> QED
  BY <1>2, <1>3 DEF Abstract!SessionNext

(* A step that gives two answers.                                          *)
LEMMA SaysTwo ==
    ASSUME dest \in {"Usb", "Net", "Cmd"}, answers = <<>>, UNCHANGED dest,
           NEW m, NEW n,
           answers' = IF m \in Abstract!Progress THEN <<n>> ELSE <<m, n>>,
           Abstract!Step(state, Doing, <<m, n>>, state', Doing')
               \in Abstract!Steps[dest]
    PROVE  Abstract!SessionNext
<1> DEFINE w == Abstract!Step(state, Doing, <<m, n>>, state', Doing')
<1>1. /\ w.from = <<state, Doing>> /\ w.says = <<m, n>>
      /\ w.to[1] = state' /\ w.to[2] = Doing'
  BY DEF Abstract!Step
<1>2. Abstract!Work(w)
  BY <1>1 DEF Abstract!Work
<1>3. answers' = answers \o Abstract!Final(w.says)
  <2>1. <<>> \o <<n>> = <<n>> /\ <<>> \o <<m, n>> = <<m, n>>
    BY SMT
  <2>2. Head(<<m, n>>) = m /\ Tail(<<m, n>>) = <<n>>
    BY SMT
  <2> QED
    BY <1>1, <2>1, <2>2 DEF Abstract!Final
<1> QED
  BY <1>2, <1>3 DEF Abstract!SessionNext

(* The steps of the dialogue: the calls and their failures.                *)
LEMMA CallSteps ==
    ASSUME NEW t \in {"Usb", "Net", "Cmd"}, NEW v \in Serves
    PROVE  /\ v[3] # "img_open"
                => Abstract!Step(v[1], v[2], <<v[2]>>, v[4], "none")
                       \in Abstract!Steps[t]
           /\ v[3] = "img_open"
                => Abstract!Step(v[1], v[2], <<"Opened">>, v[4], "Read")
                       \in Abstract!Steps[t]
           /\ Abstract!Step(v[1], v[2], <<"Error">>,
                            IF v[1] = "TransferDone" THEN "WaitEnd" ELSE v[1],
                            "none") \in Abstract!Steps[t]
<1> DEFINE s == v[1]
           n == v[2]
           e == Abstract!Step(s, n, <<"Error">>,
                              IF s = "TransferDone" THEN "WaitEnd" ELSE s, "none")
           Ok(m, s2, n2) == Abstract!Step(s, n, <<m>>, s2, n2)
<1>1. /\ v[3] # "img_open" => Ok(n, v[4], "none") \in Abstract!Calls
      /\ v[3] = "img_open" => Ok("Opened", v[4], "Read") \in Abstract!Calls
  BY SMTT(30), ServesRows DEF Abstract!Calls
<1>2. ASSUME NEW m, NEW s2, NEW n2, Ok(m, s2, n2) \in Abstract!Calls
      PROVE  e \in Abstract!CallErrors
  <2> DEFINE c == Ok(m, s2, n2)
  <2>1. c.from[1] = s /\ c.from[2] = n
    BY DEF Abstract!Step
  <2> QED
    BY <1>2, <2>1 DEF Abstract!CallErrors
<1>3. e \in Abstract!CallErrors
  BY <1>1, <1>2
<1>4. Abstract!Calls \cup Abstract!CallErrors \subseteq Abstract!Steps[t]
  BY DEF Abstract!Steps, Abstract!Destinations
<1> QED
  BY <1>1, <1>3, <1>4

(* Those of a transfer, a wipe and a disk image, each of which may fail.   *)
LEMMA OtherSteps ==
    ASSUME NEW t \in {"Usb", "Net", "Cmd"}, NEW s, NEW n, NEW says, NEW s2, NEW n2,
           Abstract!Step(s, n, says, s2, n2)
               \in Abstract!Transfers(t) \cup Abstract!Others
    PROVE  /\ Abstract!Step(s, n, says, s2, n2) \in Abstract!Steps[t]
           /\ Abstract!Step(s, n, <<"Error">>, "WaitEnd", "none")
                  \in Abstract!Steps[t]
<1> DEFINE w == Abstract!Step(s, n, says, s2, n2)
<1>1. w.from[1] = s /\ w.from[2] = n
  BY DEF Abstract!Step
<1>2. Abstract!Step(s, n, <<"Error">>, "WaitEnd", "none") \in Abstract!Aborts(t)
  BY <1>1 DEF Abstract!Aborts
<1>3. Abstract!Transfers(t) \cup Abstract!Others \cup Abstract!Aborts(t)
          \subseteq Abstract!Steps[t]
  <2> HIDE DEF Abstract!Transfers
  <2> QED
    BY DEF Abstract!Steps, Abstract!Destinations
<1> QED
  BY <1>2, <1>3

(* Where run() may return Err.                                             *)
LEMMA AbortSteps ==
    ASSUME NEW t \in {"Usb", "Net", "Cmd"}, NEW s, NEW p, At(s, p, t),
           p \notin {"recv", "end", "wait", "exit"}, \A v \in Serves : p # v[3]
    PROVE  Abstract!Step(s, DoingAt(s, p), <<"Error">>, "WaitEnd", "none")
               \in Abstract!Steps[t]
<1> DEFINE Fails(x, n) == Abstract!Step(x, n, <<"Error">>, "WaitEnd", "none")
                              \in Abstract!Steps[t]
<1>1. /\ Fails("CopyFiles", "Select") /\ Fails("CopyFiles", "Tar")
      /\ Fails("Wipe", "Zero") /\ Fails("Wipe", "Format")
      /\ Fails("ImgDisk", "Read")
      /\ t = "Usb" => /\ Fails("WriteFiles", "Analyze")
                      /\ Fails("WriteFiles", "Fs") /\ Fails("WriteFiles", "Final")
      /\ t # "Usb" => Fails("UploadOrCmd", "Final")
  <2>1. /\ Abstract!Step("CopyFiles", "Select", <<"CopyStart">>, "CopyFiles", "Tar")
               \in Abstract!Transfers(t)
        /\ Abstract!Step("CopyFiles", "Tar", <<"CopyStatus">>, "CopyFiles", "Tar")
               \in Abstract!Transfers(t)
    BY DEF Abstract!Transfers
  <2>2. /\ Abstract!Step("Wipe", "Zero", <<"FinalCopyStatus">>, "Wipe", "Zero")
               \in Abstract!Others
        /\ Abstract!Step("Wipe", "Format", <<"Wipe">>, "WaitEnd", "none")
               \in Abstract!Others
        /\ Abstract!Step("ImgDisk", "Read", <<"ImgDisk">>, "WaitEnd", "none")
               \in Abstract!Others
    BY DEF Abstract!Others
  <2>3. t = "Usb" =>
        /\ Abstract!Step("WriteFiles", "Analyze", <<"AnalyzeStatus">>,
                         "WriteFiles", "Analyze") \in Abstract!Transfers(t)
        /\ Abstract!Step("WriteFiles", "Fs", <<"CopyStatus">>, "WriteFiles", "Fs")
               \in Abstract!Transfers(t)
        /\ Abstract!Step("WriteFiles", "Final", <<"FinalCopyStatus">>,
                         "WriteFiles", "Final") \in Abstract!Transfers(t)
    BY DEF Abstract!Transfers
  <2>4. t # "Usb" =>
        Abstract!Step("UploadOrCmd", "Final", <<"FinalCopyStatus">>,
                      "UploadOrCmd", "Final") \in Abstract!Transfers(t)
    BY DEF Abstract!Transfers
  <2> QED
    BY <2>1, <2>2, <2>3, <2>4, OtherSteps
<1> HIDE DEF Fails
<1>2. CASE s = "CopyFiles"
  <2>1. p \in {"select", "cf_size"} \cup TarPoints
    BY <1>2 DEF At, IdleStates
  <2> QED
    BY <1>1, <1>2, <2>1, DoingTable DEF Fails
<1>3. CASE s = "WriteFiles"
  <2>1. /\ p \in {"analyze"} \cup FilePoints \cup FsPoints \cup FinalPoints
        /\ t = "Usb"
    BY <1>3 DEF At, IdleStates
  <2> QED
    BY SMT, <1>1, <1>3, <2>1, DoingTable DEF Fails
<1>4. CASE s = "Wipe"
  <2>1. p \in {"wipe", "wiping"} \cup FsPoints \cup FinalPoints
    BY <1>4 DEF At, IdleStates
  <2> QED
    BY <1>1, <1>4, <2>1, DoingTable DEF Fails
<1>5. CASE s = "UploadOrCmd"
  <2>1. p \in {"upload", "exec"} /\ t # "Usb"
    BY <1>5 DEF At, IdleStates
  <2> QED
    BY <1>1, <1>5, <2>1, DoingTable DEF Fails
<1>6. CASE s = "ImgDisk"
  <2>1. p \in ImgPoints
    BY <1>6 DEF At, IdleStates
  <2> QED
    BY <1>1, <1>6, <2>1, DoingTable DEF Fails
<1> QED
  BY <1>2, <1>3, <1>4, <1>5, <1>6 DEF At

---------------------------------------------------------------------------
(* A step of usbsas, or the dialogue as it was; the invariant after it.    *)
Conforms == ControlInv' /\ [Abstract!SessionNext]_(Abstract!sessionVars)

Working == ControlInv /\ pc \notin {"recv", "end", "wait", "exit"}
                      /\ \A v \in Serves : pc # v[3]

(* run() returns Err.                                                      *)
LEMMA Aborting ==
    ASSUME Working, RunFails, UNCHANGED dest
    PROVE  Conforms
<1>1. ControlInv'
  BY DEF Working, ControlInv, RunFails, At, IdleStates
<1>2. Doing' = "none"
  BY <1>1, DoingTable DEF RunFails, ControlInv, Doing
<1>3. Abstract!Step(state, Doing, <<"Error">>, state', Doing') \in Abstract!Steps[dest]
  BY <1>2, AbortSteps DEF Working, ControlInv, RunFails, Doing
<1>4. answers = <<>> /\ answers' = <<"Error">>
  BY FirstAnswer DEF Working, ControlInv, RunFails
<1>5. "Error" \notin Abstract!Progress
  BY DEF Abstract!Progress
<1>6. Abstract!SessionNext
  BY <1>3, <1>4, <1>5, SaysOne DEF Working, ControlInv
<1> QED
  BY <1>1, <1>6 DEF Conforms

(* usbsas goes on with what it does.                                       *)
LEMMA GoingOn ==
    ASSUME ControlInv, UNCHANGED <<state, dest, answers>>,
           At(state, pc', dest), pc \notin {"recv", "exit"},
           DoingAt(state, pc') = DoingAt(state, pc)
    PROVE  Conforms
<1>1. state' = state /\ dest' = dest /\ answers' = answers
  OBVIOUS
<1>2. ControlInv'
  BY <1>1 DEF ControlInv
<1>3. Doing' = Doing
  BY <1>1 DEF Doing
<1> QED
  BY <1>1, <1>2, <1>3 DEF Conforms, Abstract!sessionVars

(* usbsas writes response m and goes on with something else.               *)
LEMMA Saying ==
    ASSUME Working, UNCHANGED dest, NEW m, NEW n,
           At(state', pc', dest), DoingAt(state', pc') = n,
           \/ m \in Abstract!Progress /\ answers' = answers
           \/ m \notin Abstract!Progress /\ pc' = "recv"
              /\ answers' = Append(answers, m),
           Abstract!Step(state, Doing, <<m>>, state', n)
               \in Abstract!Transfers(dest) \cup Abstract!Others
    PROVE  Conforms
<1>1. answers = <<>> /\ dest \in {"Usb", "Net", "Cmd"}
  BY DEF Working, ControlInv
<1>2. ControlInv'
  BY <1>1 DEF ControlInv
<1>3. answers' = IF m \in Abstract!Progress THEN <<>> ELSE <<m>>
  BY SMT, <1>1
<1>4. Abstract!Step(state, Doing, <<m>>, state', Doing') \in Abstract!Steps[dest]
  BY <1>1, OtherSteps DEF Doing
<1>5. Abstract!SessionNext
  BY <1>1, <1>3, <1>4, SaysOne
<1> QED
  BY <1>2, <1>5 DEF Conforms

---------------------------------------------------------------------------
(* A request is taken, or answered by an error at once.                    *)
LEMMA Taking ==
    ASSUME ControlInv, pc = "recv", NEW a \in Abstract!Accepts,
           state = a[1], state' = a[3], DoingAt(a[3], pc') = a[4],
           At(a[3], pc', dest'), dest' \in {"Usb", "Net", "Cmd"},
           a[2] # "CopyStart" => dest' = dest, answers' = <<>>
    PROVE  Conforms
<1>1. ControlInv'
  BY DEF ControlInv
<1>2. Doing = "none" /\ Doing' = a[4]
  BY DoingTable DEF ControlInv, Doing
<1>3. Abstract!Take(a, dest')
  BY <1>2 DEF Abstract!Take
<1>4. Abstract!SessionNext
  BY <1>3 DEF Abstract!SessionNext, Abstract!Destinations
<1> QED
  BY <1>1, <1>4 DEF Conforms

(* A request refused where usbsas waits for one.                           *)
LEMMA Refusing ==
    ASSUME ControlInv, pc = "recv", UNCHANGED <<pc, dest>>,
           state' \in {state, "WaitEnd"}, answers' = <<"Error">>
    PROVE  Conforms
<1>1. state \in IdleStates
  BY PointStates DEF ControlInv
<1>2. ControlInv'
  BY <1>1 DEF ControlInv, At, IdleStates
<1>3. Doing = "none" /\ Doing' = "none"
  BY SMT, <1>2, DoingTable DEF ControlInv, Doing
<1>4. Abstract!Refuse
  BY <1>3 DEF Abstract!Refuse
<1>5. Abstract!SessionNext
  BY <1>4 DEF Abstract!SessionNext
<1> QED
  BY <1>2, <1>5 DEF Conforms

(* What usbsas does on a request of the client.                            *)
LEMMA ClientConforms ==
    ASSUME ControlInv, ClientNext
    PROVE  Conforms
<1>0. /\ dest \in {"Usb", "Net", "Cmd"} /\ At(state, pc, dest)
      /\ pc = "recv" => state \in IdleStates
  BY PointStates DEF ControlInv
<1>1. CASE ClientCall
  <2>1. PICK v \in Serves : state = v[1] /\ Asked(v[2]) /\ pc' = v[3]
    BY <1>1 DEF ClientCall
  <2>2. /\ pc = "recv" /\ state' = state /\ answers' = <<>> /\ dest' = dest
    BY <1>1, <2>1 DEF ClientCall, Asked, jobVars
  <2>3. At(state, pc', dest)
    BY <2>1 DEF At
  <2> DEFINE a == <<v[1], v[2], v[1], v[2]>>
  <2>4. a \in Abstract!Accepts
    BY SMTT(30), ServesRows DEF Abstract!Accepts
  <2>5. /\ a[1] = v[1] /\ a[2] = v[2] /\ a[3] = v[1] /\ a[4] = v[2]
    OBVIOUS
  <2>6. DoingAt(state, pc') = v[2]
    BY SMT, <2>1, <2>3, DoingTable
  <2> HIDE DEF a
  <2> QED
    BY <1>0, <2>1, <2>2, <2>3, <2>4, <2>5, <2>6, Taking
<1>2. CASE BadRequest \/ MalformedRequest
  BY <1>2, Refusing DEF BadRequest, MalformedRequest, Asked, jobVars
<1>3. CASE CopyStart
  <2> DEFINE a == <<"PartitionOpened", "CopyStart", "CopyFiles", "Select">>
  <2>1. /\ pc = "recv" /\ state = "PartitionOpened" /\ state' = "CopyFiles"
        /\ pc' = "select" /\ answers' = <<>> /\ dest' \in {"Usb", "Net", "Cmd"}
    BY <1>3, DestsKnown DEF CopyStart, Asked
  <2>2. At("CopyFiles", "select", dest')
    BY DEF At
  <2>3. a \in Abstract!Accepts
    BY DEF Abstract!Accepts
  <2>4. /\ a[1] = "PartitionOpened" /\ a[2] = "CopyStart" /\ a[3] = "CopyFiles"
        /\ a[4] = "Select"
    OBVIOUS
  <2>5. DoingAt("CopyFiles", "select") = "Select"
    BY <2>2, DoingTable
  <2> HIDE DEF a
  <2> QED
    BY <2>1, <2>2, <2>3, <2>4, <2>5, Taking
<1>4. CASE End
  <2> DEFINE a == <<state, "End", state, "End">>
  <2>1. /\ pc = "recv" /\ state' = state /\ pc' = "end" /\ answers' = <<>>
        /\ dest' = dest
    BY <1>4 DEF End, Asked, jobVars
  <2>2. At(state, "end", dest)
    BY <1>0, <2>1 DEF At
  <2>3. a \in Abstract!Accepts
    BY <1>0, <2>1 DEF Abstract!Accepts, IdleStates
  <2>4. a[1] = state /\ a[2] = "End" /\ a[3] = state /\ a[4] = "End"
    OBVIOUS
  <2>5. DoingAt(state, "end") = "End"
    BY <2>2, DoingTable
  <2> HIDE DEF a
  <2> QED
    BY <1>0, <2>1, <2>2, <2>3, <2>4, <2>5, Taking
<1>5. CASE Wipe
  <2>1. /\ pc = "recv" /\ state = "Init" /\ dest' = dest
        /\ \/ state' = "Wipe" /\ pc' \in {"wipe", "fs_size"} /\ answers' = <<>>
           \/ state' = "WaitEnd" /\ answers' = <<"Error">> /\ pc' = pc
    BY <1>5 DEF Wipe, Asked
  <2>2. CASE state' = "WaitEnd"
    BY <2>1, <2>2, Refusing
  <2>3. CASE state' # "WaitEnd"
    <3> DEFINE n == IF pc' = "wipe" THEN "Zero" ELSE "Format"
               a == <<"Init", "Wipe", "Wipe", n>>
    <3>1. At("Wipe", pc', dest)
      BY <2>1, <2>3 DEF At, FsPoints
    <3>2. DoingAt("Wipe", pc') = n
      BY SMT, <2>1, <2>3, <3>1, DoingTable DEF FsPoints
    <3>3. a \in Abstract!Accepts
      BY DEF Abstract!Accepts
    <3>4. a[1] = "Init" /\ a[2] = "Wipe" /\ a[3] = "Wipe" /\ a[4] = n
      OBVIOUS
    <3> HIDE DEF a, n
    <3> QED
      BY <1>0, <2>1, <2>3, <3>1, <3>2, <3>3, <3>4, Taking
  <2> QED
    BY <2>2, <2>3
<1> QED
  BY <1>1, <1>2, <1>3, <1>4, <1>5 DEF ClientNext

---------------------------------------------------------------------------
(* The points at which usbsas works for a request that takes several calls.*)
LEMMA WorkPoints ==
    ASSUME ControlInv,
           pc \in {"select", "cf_size", "analyze", "wipe", "wiping", "upload",
                   "exec"} \cup TarPoints \cup FilePoints \cup FsPoints
                    \cup FinalPoints \cup ImgPoints
    PROVE  Working
<1>1. pc \notin {"recv", "end", "wait", "exit"}
  BY DEF TarPoints, FilePoints, FsPoints, FinalPoints, ImgPoints
<1>2. \A v \in Serves : pc # v[3]
  BY SMT, ServedAt
<1> QED
  BY <1>1, <1>2 DEF Working

(* A request that is one call.                                             *)
LEMMA CallConforms ==
    ASSUME ControlInv, ClientCallOk \/ ClientCallFails
    PROVE  Conforms
<1>1. PICK v \in Serves :
        /\ state = v[1] /\ pc = v[3] /\ dest' = dest
        /\ \/ /\ state' = v[4]
              /\ pc' = IF v[3] = "img_open" THEN "img_start" ELSE "recv"
              /\ answers' = IF v[3] = "img_open" THEN <<>> ELSE <<v[2]>>
           \/ /\ state' = IF v[1] = "TransferDone" THEN "WaitEnd" ELSE v[1]
              /\ pc' = "recv"
              /\ answers' = <<"Error">>
  BY DEF ClientCallOk, ClientCallFails, CallOk, CallFails, jobVars
<1>2. /\ dest \in {"Usb", "Net", "Cmd"} /\ At(state, pc, dest)
      /\ answers = <<>> /\ Doing = v[2]
  <2>1. pc \notin {"recv", "exit"}
    BY <1>1, ServedAt
  <2>2. /\ dest \in {"Usb", "Net", "Cmd"} /\ At(state, pc, dest)
        /\ answers = <<>>
    BY <2>1 DEF ControlInv
  <2>3. DoingAt(state, pc) = v[2]
    BY SMT, <1>1, <2>2, DoingTable
  <2> QED
    BY <2>2, <2>3 DEF Doing
<1>3. ASSUME state' = v[4],
             pc' = IF v[3] = "img_open" THEN "img_start" ELSE "recv",
             answers' = IF v[3] = "img_open" THEN <<>> ELSE <<v[2]>>
      PROVE  Conforms
  <2>1. At(state', pc', dest')
    BY <1>1, <1>3, ServesRows DEF At, IdleStates, ImgPoints
  <2>2. v[3] # "img_open" => Doing' = "none"
    BY <1>3, <2>1, DoingTable DEF Doing
  <2>3. v[3] = "img_open" => Doing' = "Read"
    BY SMT, <1>3, <2>1, DoingTable DEF Doing, ImgPoints
  <2>4. ControlInv'
    BY <1>1, <1>2, <1>3, <2>1 DEF ControlInv
  <2>5. v[2] \notin Abstract!Progress /\ "Opened" \in Abstract!Progress
    BY ServesRows DEF Abstract!Progress
  <2>6. CASE v[3] = "img_open"
    <3>1. Abstract!Step(state, Doing, <<"Opened">>, state', Doing')
              \in Abstract!Steps[dest]
      BY <1>1, <1>2, <1>3, <2>3, <2>6, CallSteps
    <3>2. Abstract!SessionNext
      BY <1>1, <1>2, <1>3, <2>5, <2>6, <3>1, SaysOne
    <3> QED
      BY <2>4, <3>2 DEF Conforms
  <2>7. CASE v[3] # "img_open"
    <3>1. Abstract!Step(state, Doing, <<v[2]>>, state', Doing')
              \in Abstract!Steps[dest]
      BY <1>1, <1>2, <1>3, <2>2, <2>7, CallSteps
    <3>2. Abstract!SessionNext
      BY <1>1, <1>2, <1>3, <2>5, <2>7, <3>1, SaysOne
    <3> QED
      BY <2>4, <3>2 DEF Conforms
  <2> QED
    BY <2>6, <2>7
<1>4. ASSUME state' = IF v[1] = "TransferDone" THEN "WaitEnd" ELSE v[1],
             pc' = "recv", answers' = <<"Error">>
      PROVE  Conforms
  <2>1. At(state', pc', dest')
    BY <1>4, ServedAt DEF At, IdleStates
  <2>2. Doing' = "none"
    BY SMT, <1>4, <2>1, DoingTable DEF Doing
  <2>3. ControlInv'
    BY <1>1, <1>2, <1>4, <2>1 DEF ControlInv
  <2>4. Abstract!Step(state, Doing, <<"Error">>, state', Doing')
            \in Abstract!Steps[dest]
    BY <1>1, <1>2, <1>4, <2>2, CallSteps
  <2>5. "Error" \notin Abstract!Progress
    BY DEF Abstract!Progress
  <2>6. Abstract!SessionNext
    BY <1>1, <1>2, <1>4, <2>4, <2>5, SaysOne
  <2> QED
    BY <2>3, <2>6 DEF Conforms
<1> QED
  BY <1>1, <1>3, <1>4

(* The end of a session: the children are ended, then waited for.          *)
LEMMA EndConforms ==
    ASSUME ControlInv, EndSend \/ EndReturn \/ WaitChild
    PROVE  Conforms
<1>1. /\ pc \in {"end", "wait"} /\ dest' = dest
      /\ \/ pc' \in {"end", "wait"} /\ state' = state /\ answers' = answers
         \/ /\ pc' = "exit" /\ state' = "End"
            /\ answers' = Append(answers, "End")
  BY DEF EndSend, EndReturn, WaitChild, jobVars
<1>2. /\ dest \in {"Usb", "Net", "Cmd"} /\ At(state, pc, dest) /\ answers = <<>>
      /\ state \in IdleStates /\ Doing = "End"
  BY <1>1, PointStates, DoingTable DEF ControlInv, Doing
<1>3. CASE pc' \in {"end", "wait"} /\ state' = state /\ answers' = answers
  <2>1. At(state, pc', dest)
    BY <1>2, <1>3 DEF At
  <2>2. DoingAt(state, pc') = DoingAt(state, pc)
    BY SMT, <1>1, <1>2, <1>3, <2>1, DoingTable
  <2> QED
    BY <1>1, <1>3, <2>1, <2>2, GoingOn
<1>4. CASE pc' = "exit" /\ state' = "End" /\ answers' = Append(answers, "End")
  <2>1. At(state', pc', dest')
    BY <1>4 DEF At
  <2>2. ControlInv' /\ Doing' = "exit"
    BY <1>1, <1>2, <1>4, <2>1, DoingTable DEF ControlInv, Doing
  <2>3. answers' = <<"End">>
    BY <1>2, <1>4, FirstAnswer
  <2>4. "End" \notin Abstract!Progress
    BY DEF Abstract!Progress
  <2>5. Abstract!Step(state, Doing, <<"End">>, state', Doing')
            \in Abstract!EndSteps
    BY <1>2, <1>4, <2>2 DEF Abstract!EndSteps, IdleStates
  <2>6. Abstract!EndSteps \subseteq Abstract!Steps[dest]
    BY <1>2 DEF Abstract!Steps, Abstract!Destinations
  <2>7. Abstract!SessionNext
    BY <1>1, <1>2, <2>3, <2>4, <2>5, <2>6, SaysOne
  <2> QED
    BY <2>2, <2>7 DEF Conforms
<1> QED
  BY <1>1, <1>3, <1>4

---------------------------------------------------------------------------
(* usbsas moves on within what it does.                                    *)
LEMMA Staying ==
    ASSUME ControlInv, UNCHANGED <<state, dest, answers>>,
           \/ pc \in TarPoints /\ pc' \in TarPoints
           \/ pc \in FinalPoints /\ pc' \in FinalPoints
           \/ pc \in ImgPoints /\ pc' \in ImgPoints
           \/ pc \in {"wipe", "wiping"} /\ pc' \in {"wipe", "wiping"}
           \/ /\ pc \in FilePoints \cup FsPoints /\ pc' \in FilePoints \cup FsPoints
              /\ state = "WriteFiles"
           \/ /\ pc \in FsPoints \cup FinalPoints /\ pc' \in FsPoints \cup FinalPoints
              /\ state = "Wipe"
    PROVE  Conforms
<1>0. /\ dest \in {"Usb", "Net", "Cmd"} /\ At(state, pc, dest)
      /\ state' = state /\ dest' = dest /\ answers' = answers
  BY DEF ControlInv
<1>1. pc \notin {"recv", "exit"}
  BY DEF TarPoints, FilePoints, FsPoints, FinalPoints, ImgPoints
<1>2. CASE pc \in TarPoints /\ pc' \in TarPoints
  <2>1. state = "CopyFiles"
    BY <1>0, <1>2, PointStates
  <2>2. At(state, pc', dest)
    BY <1>2, <2>1 DEF At
  <2>3. DoingAt(state, pc') = DoingAt(state, pc)
    BY SMT, <1>0, <1>2, <2>2, DoingTable
  <2> QED
    BY <1>0, <1>1, <2>2, <2>3, GoingOn
<1>3. CASE pc \in FinalPoints /\ pc' \in FinalPoints
  <2>1. state = "Wipe" \/ (state = "WriteFiles" /\ dest = "Usb")
    BY <1>0, <1>3, PointStates
  <2>2. At(state, pc', dest)
    BY <1>3, <2>1 DEF At
  <2>3. DoingAt(state, pc') = DoingAt(state, pc)
    BY SMT, <1>0, <1>3, <2>1, <2>2, DoingTable
  <2> QED
    BY <1>0, <1>1, <2>2, <2>3, GoingOn
<1>4. CASE pc \in ImgPoints /\ pc' \in ImgPoints
  <2>1. state = "ImgDisk"
    BY <1>0, <1>4, PointStates
  <2>2. At(state, pc', dest)
    BY <1>4, <2>1 DEF At
  <2>3. DoingAt(state, pc') = DoingAt(state, pc)
    BY SMT, <1>0, <1>4, <2>2, DoingTable
  <2> QED
    BY <1>0, <1>1, <2>2, <2>3, GoingOn
<1>5. CASE pc \in {"wipe", "wiping"} /\ pc' \in {"wipe", "wiping"}
  <2>1. state = "Wipe"
    BY <1>0, <1>5, PointStates
  <2>2. At(state, pc', dest)
    BY <1>5, <2>1 DEF At
  <2>3. DoingAt(state, pc') = DoingAt(state, pc)
    BY SMT, <1>0, <1>5, <2>2, DoingTable
  <2> QED
    BY <1>0, <1>1, <2>2, <2>3, GoingOn
<1>6. CASE /\ pc \in FilePoints \cup FsPoints /\ pc' \in FilePoints \cup FsPoints
          /\ state = "WriteFiles"
  <2>1. state = "WriteFiles" /\ dest = "Usb"
    BY <1>0, <1>6, PointStates
  <2>2. At(state, pc', dest)
    BY <1>6, <2>1 DEF At
  <2>3. DoingAt(state, pc') = DoingAt(state, pc)
    BY SMT, <1>0, <1>6, <2>1, <2>2, DoingTable
  <2> QED
    BY <1>0, <1>1, <2>2, <2>3, GoingOn
<1>7. CASE /\ pc \in FsPoints \cup FinalPoints /\ pc' \in FsPoints \cup FinalPoints
          /\ state = "Wipe"
  <2>1. state = "Wipe"
    BY <1>7
  <2>2. At(state, pc', dest)
    BY <1>7, <2>1 DEF At
  <2>3. DoingAt(state, pc') = DoingAt(state, pc)
    BY SMT, <1>0, <1>7, <2>1, <2>2, DoingTable
  <2> QED
    BY <1>0, <1>1, <2>2, <2>3, GoingOn
<1> QED
  BY <1>2, <1>3, <1>4, <1>5, <1>6, <1>7

(* usbsas has answered m, the last response of what it did.                *)
LEMMA Answering ==
    ASSUME Working, UNCHANGED dest, NEW m, m \notin Abstract!Progress,
           pc' = "recv", state' \in IdleStates, answers' = Append(answers, m),
           Abstract!Step(state, Doing, <<m>>, state', "none")
               \in Abstract!Transfers(dest) \cup Abstract!Others
    PROVE  Conforms
<1>1. At(state', pc', dest)
  BY DEF At
<1>2. DoingAt(state', pc') = "none"
  BY <1>1, DoingTable
<1> QED
  BY <1>1, <1>2, Saying

(* Writing a request, and the steps of a wipe and of a disk image.         *)
LEMMA OthersConform ==
    ASSUME ControlInv,
           \/ SendRequest \/ WipeStarted \/ WipeZeroed \/ WipeFails
           \/ ImgDisk \/ ImgDiskFails
    PROVE  Conforms
<1>0. /\ dest \in {"Usb", "Net", "Cmd"} /\ At(state, pc, dest)
  BY DEF ControlInv
<1>1. CASE SendRequest
  <2>1. pc' = pc /\ state' = state /\ dest' = dest /\ answers' = answers
    BY <1>1 DEF SendRequest, jobVars
  <2>2. ControlInv' /\ Doing' = Doing
    BY <2>1 DEF ControlInv, Doing
  <2> QED
    BY <2>1, <2>2 DEF Conforms, Abstract!sessionVars
<1>2. CASE WipeStarted
  <2>1. pc = "wipe" /\ pc' = "wiping" /\ UNCHANGED <<state, dest, answers>>
    BY <1>2 DEF WipeStarted, jobVars
  <2> QED
    BY <2>1, Staying
<1>3. CASE WipeZeroed
  <2>1. pc = "wiping" /\ pc' = "fs_size" /\ UNCHANGED <<state, dest, answers>>
    BY <1>3 DEF WipeZeroed, jobVars
  <2>2. state = "Wipe" /\ Doing = "Zero" /\ Working
    BY SMT, <1>0, <2>1, PointStates, DoingTable, WorkPoints DEF Doing
  <2>3. At(state', pc', dest) /\ "fs_size" \in FsPoints
    BY <2>1, <2>2 DEF At, FsPoints
  <2>4. DoingAt(state', pc') = "Format"
    BY <2>1, <2>2, <2>3, DoingTable
  <2>5. /\ Abstract!Step("Wipe", "Zero", <<"FinalCopyStatusDone">>, "Wipe", "Format")
               \in Abstract!Others
        /\ "FinalCopyStatusDone" \in Abstract!Progress
    BY DEF Abstract!Others, Abstract!Progress
  <2> QED
    BY <2>1, <2>2, <2>3, <2>4, <2>5, Saying
<1>4. CASE WipeFails \/ ImgDiskFails
  <2>1. /\ pc \in {"wipe", "wiping"} \cup ImgPoints
        /\ RunFails /\ UNCHANGED dest
    BY <1>4 DEF WipeFails, ImgDiskFails, CallFails, ImgPoints, jobVars
  <2>2. Working
    BY <2>1, WorkPoints
  <2> QED
    BY <2>1, <2>2, Aborting
<1>5. CASE ImgDisk
  <2>1. /\ pc \in ImgPoints /\ dest' = dest
        /\ \/ pc' \in ImgPoints /\ UNCHANGED <<state, answers>>
           \/ RunEnds("ImgDisk", "WaitEnd")
    BY <1>5 DEF ImgDisk, CallOk, ImgPoints, jobVars
  <2>2. CASE RunEnds("ImgDisk", "WaitEnd")
    <3>1. state = "ImgDisk" /\ Doing = "Read" /\ Working
      BY <1>0, <2>1, PointStates, DoingTable, WorkPoints DEF Doing
    <3>2. /\ Abstract!Step("ImgDisk", "Read", <<"ImgDisk">>, "WaitEnd", "none")
                 \in Abstract!Others
          /\ "ImgDisk" \notin Abstract!Progress
      BY DEF Abstract!Others, Abstract!Progress
    <3>3. "WaitEnd" \in IdleStates
      BY DEF IdleStates
    <3> QED
      BY <2>1, <2>2, <3>1, <3>2, <3>3, Answering DEF RunEnds
  <2> QED
    BY <2>1, <2>2, Staying
<1> QED
  BY <1>1, <1>2, <1>3, <1>4, <1>5

---------------------------------------------------------------------------
(* The steps of a transfer: from the selection to the archive.             *)
LEMMA TarConforms ==
    ASSUME ControlInv,
           Select \/ GotDevSize \/ TarNext \/ TarFile \/ TarFileFails \/ TarClosed
    PROVE  Conforms
<1>0. /\ dest \in {"Usb", "Net", "Cmd"} /\ At(state, pc, dest)
      /\ "tar_next" \in TarPoints /\ "WaitEnd" \in IdleStates
  BY DEF ControlInv, TarPoints, IdleStates
<1>1. CASE TarNext \/ TarFile \/ TarFileFails
  <2>1. /\ pc \in TarPoints /\ pc' \in TarPoints
        /\ UNCHANGED <<state, dest, answers>>
    BY <1>1 DEF TarNext, TarFile, TarFileFails, CallOk, CallFails, TarPoints,
       jobVars
  <2> QED
    BY <2>1, Staying
<1>2. CASE Select \/ GotDevSize
  <2>1. /\ pc \in {"select", "cf_size"} /\ dest' = dest
        /\ \/ RunFails
           \/ RunEnds("NothingToCopy", "WaitEnd") /\ pc = "select"
           \/ RunEnds("NotEnoughSpace", "WaitEnd") /\ pc = "cf_size"
           \/ /\ pc = "select" /\ pc' = "cf_size" /\ dest = "Usb"
              /\ state' = state /\ answers' = answers
           \/ pc' = "tar_next" /\ state' = state /\ answers' = answers
    BY <1>2 DEF Select, GotDevSize, GiveUp, StartTar, CallOk, jobVars
  <2>2. /\ state = "CopyFiles" /\ Doing = "Select" /\ Working
        /\ pc = "cf_size" => dest = "Usb"
    BY <1>0, <2>1, PointStates, DoingTable, WorkPoints DEF Doing
  <2>3. CASE RunFails
    BY <2>1, <2>2, <2>3, Aborting
  <2>4. CASE RunEnds("NothingToCopy", "WaitEnd")
    <3>1. /\ Abstract!Step("CopyFiles", "Select", <<"NothingToCopy">>,
                           "WaitEnd", "none") \in Abstract!Transfers(dest)
          /\ "NothingToCopy" \notin Abstract!Progress
      BY DEF Abstract!Transfers, Abstract!Progress
    <3> QED
      BY <1>0, <2>1, <2>2, <2>4, <3>1, Answering DEF RunEnds
  <2>5. CASE RunEnds("NotEnoughSpace", "WaitEnd") /\ pc = "cf_size"
    <3>1. /\ Abstract!Step("CopyFiles", "Select", <<"NotEnoughSpace">>,
                           "WaitEnd", "none") \in Abstract!Transfers(dest)
          /\ "NotEnoughSpace" \notin Abstract!Progress
      BY <2>2, <2>5 DEF Abstract!Transfers, Abstract!Progress
    <3> QED
      BY <1>0, <2>1, <2>2, <2>5, <3>1, Answering DEF RunEnds
  <2>6. CASE /\ pc = "select" /\ pc' = "cf_size" /\ dest = "Usb"
             /\ state' = state /\ answers' = answers
    <3>1. At(state, pc', dest)
      BY <2>2, <2>6 DEF At
    <3>2. DoingAt(state, pc') = DoingAt(state, pc)
      BY SMT, <1>0, <2>6, <3>1, DoingTable
    <3> QED
      BY <2>1, <2>6, <3>1, <3>2, GoingOn
  <2>7. CASE pc' = "tar_next" /\ state' = state /\ answers' = answers
    <3>1. At(state', pc', dest)
      BY <1>0, <2>2, <2>7 DEF At
    <3>2. DoingAt(state', pc') = "Tar"
      BY <1>0, <2>7, <3>1, DoingTable
    <3>3. /\ Abstract!Step("CopyFiles", "Select", <<"CopyStart">>, "CopyFiles", "Tar")
                 \in Abstract!Transfers(dest)
          /\ "CopyStart" \in Abstract!Progress
      BY DEF Abstract!Transfers, Abstract!Progress
    <3> QED
      BY <2>1, <2>2, <2>7, <3>1, <3>2, <3>3, Saying
  <2> QED
    BY <2>1, <2>3, <2>4, <2>5, <2>6, <2>7
<1>3. CASE TarClosed
  <2>1. /\ pc = "tar_close" /\ dest' = dest
        /\ \/ RunFails
           \/ /\ answers' = answers
              /\ state' = IF dest = "Usb" THEN "WriteFiles" ELSE "UploadOrCmd"
              /\ pc' = CASE dest = "Usb" -> IF Analyze THEN "analyze" ELSE "analyzed"
                         [] dest = "Net" -> "upload"
                         [] dest = "Cmd" -> "exec"
    BY <1>3 DEF TarClosed, CallOk, jobVars
  <2>2. pc \in TarPoints
    BY <2>1 DEF TarPoints
  <2>3. state = "CopyFiles" /\ Doing = "Tar" /\ Working
    BY <1>0, <2>2, PointStates, DoingTable, WorkPoints DEF Doing
  <2>4. CASE RunFails
    BY <2>1, <2>3, <2>4, Aborting
  <2>5. ASSUME ~RunFails PROVE Conforms
    <3> DEFINE n == CASE pc' = "analyze" -> "Analyze"
                      [] pc' = "analyzed" -> "Fs"
                      [] OTHER -> "Final"
    <3>0. \/ dest = "Usb" /\ state' = "WriteFiles" /\ pc' \in {"analyze", "analyzed"}
          \/ dest # "Usb" /\ state' = "UploadOrCmd" /\ pc' \in {"upload", "exec"}
      BY <1>0, <2>1, <2>5
    <3>1. At(state', pc', dest)
      BY <3>0 DEF At, FilePoints
    <3>2. DoingAt(state', pc') = n
      BY SMT, <3>0, <3>1, DoingTable DEF FilePoints
    <3>3. "CopyStatusDone" \in Abstract!Progress
      BY DEF Abstract!Progress
    <3>4. Abstract!Step("CopyFiles", "Tar", <<"CopyStatusDone">>, state', n)
              \in Abstract!Transfers(dest)
      BY <3>0 DEF Abstract!Transfers
    <3> HIDE DEF n
    <3> QED
      BY <2>1, <2>3, <2>5, <3>1, <3>2, <3>3, <3>4, Saying
  <2> QED
    BY <2>4, <2>5
<1> QED
  BY <1>1, <1>2, <1>3

(* From the archive to the image.                                          *)
LEMMA WriteConforms ==
    ASSUME ControlInv,
           \/ AnalyzeProgress \/ AnalyzeDone \/ AnalyzeFails \/ Analyzed
           \/ InitFs \/ DirNext \/ WriteDir \/ WriteNext \/ WriteFile
           \/ WriteFileFails
    PROVE  Conforms
<1>0. /\ dest \in {"Usb", "Net", "Cmd"} /\ At(state, pc, dest)
      /\ "analyzed" \in FilePoints /\ "WaitEnd" \in IdleStates
  BY DEF ControlInv, FilePoints, IdleStates
<1>1. CASE AnalyzeProgress
  <2>1. pc' = pc /\ state' = state /\ dest' = dest /\ answers' = answers
    BY <1>1 DEF AnalyzeProgress, orchVars, ctlVars, jobVars
  <2>2. ControlInv' /\ Doing' = Doing
    BY <2>1 DEF ControlInv, Doing
  <2> QED
    BY <2>1, <2>2 DEF Conforms, Abstract!sessionVars
<1>2. CASE AnalyzeDone
  <2>1. pc = "analyze" /\ pc' = "analyzed" /\ UNCHANGED <<state, dest, answers>>
    BY <1>2 DEF AnalyzeDone, CallOk, jobVars
  <2>2. state = "WriteFiles" /\ dest = "Usb" /\ Doing = "Analyze" /\ Working
    BY SMTT(30), <1>0, <2>1, PointStates, DoingTable, WorkPoints DEF Doing
  <2>3. At(state', pc', dest)
    BY <1>0, <2>1, <2>2 DEF At
  <2>4. DoingAt(state', pc') = "Fs"
    BY <1>0, <2>1, <2>2, <2>3, DoingTable
  <2>5. /\ Abstract!Step("WriteFiles", "Analyze", <<"AnalyzeDone">>,
                         "WriteFiles", "Fs") \in Abstract!Transfers(dest)
        /\ "AnalyzeDone" \in Abstract!Progress
    BY <2>2 DEF Abstract!Transfers, Abstract!Progress
  <2> QED
    BY <2>1, <2>2, <2>3, <2>4, <2>5, Saying
<1>3. CASE AnalyzeFails
  <2>1. pc = "analyze" /\ RunFails /\ UNCHANGED dest
    BY <1>3 DEF AnalyzeFails, jobVars
  <2> QED
    BY <2>1, WorkPoints, Aborting
<1>4. CASE Analyzed
  <2>1. /\ pc = "analyzed" /\ dest' = dest
        /\ \/ RunEnds("NothingToCopy", "WaitEnd")
           \/ pc' = "fs_size" /\ state' = state /\ answers' = answers
    BY <1>4 DEF Analyzed, GiveUp, jobVars
  <2>2. state = "WriteFiles" /\ dest = "Usb" /\ Doing = "Fs" /\ Working
    BY SMTT(30), <1>0, <2>1, PointStates, DoingTable, WorkPoints DEF Doing
  <2>3. CASE RunEnds("NothingToCopy", "WaitEnd")
    <3>1. /\ Abstract!Step("WriteFiles", "Fs", <<"NothingToCopy">>,
                           "WaitEnd", "none") \in Abstract!Transfers(dest)
          /\ "NothingToCopy" \notin Abstract!Progress
      BY <2>2 DEF Abstract!Transfers, Abstract!Progress
    <3> QED
      BY <1>0, <2>1, <2>2, <2>3, <3>1, Answering DEF RunEnds
  <2>4. CASE pc' = "fs_size" /\ state' = state /\ answers' = answers
    <3>1. pc' \in FsPoints
      BY <2>4 DEF FsPoints
    <3> QED
      BY <1>0, <2>1, <2>2, <2>4, <3>1, Staying
  <2> QED
    BY <2>1, <2>3, <2>4
<1>5. CASE InitFs
  <2>1. /\ pc \in {"fs_size", "fs_init"}
        /\ pc' \in {"fs_init", "fs_close", "dir_next"}
        /\ pc' = "dir_next" => state # "Wipe"
        /\ UNCHANGED <<state, dest, answers>>
    BY <1>5 DEF InitFs, CallOk, jobVars
  <2>2. /\ pc \in FsPoints /\ pc' \in FilePoints \cup FsPoints
        /\ state = "Wipe" => pc' \in FsPoints
    BY <2>1 DEF FsPoints, FilePoints
  <2>3. state \in {"Wipe", "WriteFiles"}
    BY <1>0, <2>2, PointStates
  <2> QED
    BY <2>1, <2>2, <2>3, Staying
<1>6. CASE DirNext \/ WriteDir \/ WriteNext \/ WriteFile \/ WriteFileFails
  <2>1. /\ pc \in FilePoints /\ pc' \in FilePoints \cup FsPoints
        /\ UNCHANGED <<state, dest, answers>>
    <3>1. CASE DirNext \/ WriteDir \/ WriteNext
      BY <3>1 DEF DirNext, WriteDir, WriteNext, CallOk, FilePoints, FsPoints,
         jobVars
    <3>2. CASE WriteFile
      BY <3>2 DEF WriteFile, CallOk, FilePoints, jobVars
    <3>3. CASE WriteFileFails
      BY <3>3 DEF WriteFileFails, CallFails, FilePoints, jobVars
    <3> QED
      BY <1>6, <3>1, <3>2, <3>3
  <2>2. state = "WriteFiles"
    BY <1>0, <2>1, PointStates
  <2> QED
    BY <2>1, <2>2, Staying
<1> QED
  BY <1>1, <1>2, <1>3, <1>4, <1>5, <1>6

(* From the image to the device, and the delivery of an archive.           *)
LEMMA CopyConforms ==
    ASSUME ControlInv,
           \/ ForwardBitVec \/ StartCopy \/ CopyProgress \/ CopyDone
           \/ CopyRefused \/ CopyBroken \/ UploadProgress \/ Delivered
           \/ UploadFails \/ TransferAborts
    PROVE  Conforms
<1>0. /\ dest \in {"Usb", "Net", "Cmd"} /\ At(state, pc, dest)
      /\ "WaitEnd" \in IdleStates /\ "TransferDone" \in IdleStates
      /\ "copying" \in FinalPoints
  BY DEF ControlInv, IdleStates, FinalPoints
<1>1. CASE ForwardBitVec
  <2>1. /\ pc \in {"fs_close", "bv_get", "bv_load"}
        /\ pc' \in FinalPoints
        /\ UNCHANGED <<state, dest, answers>>
    BY <1>1 DEF ForwardBitVec, CallOk, FinalPoints
  <2>2. pc = "fs_close" \/ pc \in FinalPoints
    BY <2>1 DEF FinalPoints
  <2>3. "fs_close" \in FsPoints
    BY DEF FsPoints
  <2>4. CASE pc \in FinalPoints \/ state = "Wipe"
    BY <2>1, <2>2, <2>3, <2>4, Staying
  <2>5. CASE pc = "fs_close" /\ state # "Wipe"
    <3>1. state = "WriteFiles" /\ dest = "Usb" /\ Doing = "Fs" /\ Working
      BY SMTT(30), <1>0, <2>3, <2>5, PointStates, DoingTable, WorkPoints DEF
         Doing
    <3>2. At(state', pc', dest)
      BY <2>1, <3>1 DEF At
    <3>3. DoingAt(state', pc') = "Final"
      BY <2>1, <3>1, <3>2, DoingTable
    <3>4. /\ Abstract!Step("WriteFiles", "Fs", <<"CopyStatusDone">>,
                           "WriteFiles", "Final") \in Abstract!Transfers(dest)
          /\ "CopyStatusDone" \in Abstract!Progress
      BY <3>1 DEF Abstract!Transfers, Abstract!Progress
    <3> QED
      BY <2>1, <3>1, <3>2, <3>3, <3>4, Saying
  <2> QED
    BY <2>2, <2>4, <2>5
<1>2. CASE StartCopy
  <2>1. /\ pc \in FinalPoints /\ pc' \in FinalPoints
        /\ UNCHANGED <<state, dest, answers>>
    BY <1>2 DEF StartCopy, FinalPoints, jobVars
  <2> QED
    BY <2>1, Staying
<1>3. CASE CopyProgress \/ UploadProgress
  <2>1. pc' = pc /\ state' = state /\ dest' = dest /\ answers' = answers
    BY <1>3 DEF CopyProgress, UploadProgress, orchVars, ctlVars, jobVars
  <2>2. ControlInv' /\ Doing' = Doing
    BY <2>1 DEF ControlInv, Doing
  <2> QED
    BY <2>1, <2>2 DEF Conforms, Abstract!sessionVars
<1>4. CASE CopyBroken \/ UploadFails
  <2>1. pc \in {"copying", "upload"} /\ RunFails /\ UNCHANGED dest
    BY <1>4 DEF CopyBroken, UploadFails, jobVars
  <2>2. Working
    BY <1>0, <2>1, WorkPoints
  <2> QED
    BY <2>1, <2>2, Aborting
<1>5. CASE TransferAborts
  <2>1. /\ pc \in {"cf_size", "tar_close", "fs_size", "fs_init", "dir_attr",
                   "dir_new", "fs_close", "bv_get", "bv_load", "startcopy", "exec"}
        /\ RunFails /\ UNCHANGED dest
    BY <1>5 DEF TransferAborts, CallFails, jobVars
  <2>2. pc \in {"cf_size", "exec"} \cup TarPoints \cup FilePoints \cup FsPoints
                   \cup FinalPoints
    BY <2>1 DEF TarPoints, FilePoints, FsPoints, FinalPoints
  <2>3. Working
    BY <2>2, WorkPoints
  <2> QED
    BY <2>1, <2>3, Aborting
<1>6. CASE CopyDone \/ CopyRefused
  <2>1. /\ pc = "copying" /\ dest' = dest /\ pc' = "recv"
        /\ \/ /\ state = "Wipe" /\ state' = "WaitEnd"
              /\ \/ answers' = Append(answers, "Wipe")
                 \/ answers' = Append(answers, "Error")
           \/ /\ state # "Wipe" /\ state' = "TransferDone"
              /\ \/ answers' = Append(answers, "CopyDone")
                 \/ answers' = answers \o <<"Error", "CopyDone">>
    BY <1>6 DEF CopyDone, CopyRefused, RunEnds, jobVars
  <2>2. Working /\ answers = <<>>
    BY <1>0, <2>1, WorkPoints DEF Working, ControlInv
  <2>3. CASE state = "Wipe"
    <3>1. Doing = "Format"
      BY <1>0, <2>1, <2>3, DoingTable DEF Doing
    <3>2. CASE answers' = Append(answers, "Wipe")
      <4>1. /\ Abstract!Step("Wipe", "Format", <<"Wipe">>, "WaitEnd", "none")
                   \in Abstract!Others
            /\ "Wipe" \notin Abstract!Progress
        BY DEF Abstract!Others, Abstract!Progress
      <4> QED
        BY <1>0, <2>1, <2>2, <2>3, <3>1, <3>2, <4>1, Answering
    <3>3. CASE answers' = Append(answers, "Error")
      BY <2>1, <2>2, <2>3, <3>3, Aborting DEF RunFails
    <3> QED
      BY <2>1, <2>3, <3>2, <3>3
  <2>4. CASE state # "Wipe"
    <3>1. state = "WriteFiles" /\ dest = "Usb" /\ Doing = "Final"
      BY SMTT(30), <1>0, <2>1, <2>4, PointStates, DoingTable DEF Doing
    <3>2. At(state', pc', dest')
      BY <1>0, <2>1, <2>4 DEF At
    <3>3. ControlInv' /\ Doing' = "none"
      BY SMTT(30), <1>0, <2>1, <3>2, DoingTable DEF ControlInv, Doing
    <3>4. /\ "FinalCopyStatusDone" \in Abstract!Progress
          /\ "Error" \notin Abstract!Progress
      BY DEF Abstract!Progress
    <3>5. /\ Abstract!Step("WriteFiles", "Final", <<"FinalCopyStatusDone", "CopyDone">>,
                           "TransferDone", "none") \in Abstract!Transfers(dest)
          /\ Abstract!Step("WriteFiles", "Final", <<"Error", "CopyDone">>,
                           "TransferDone", "none") \in Abstract!Transfers(dest)
      BY <3>1 DEF Abstract!Transfers
    <3>6. Abstract!SessionNext
      <4>1. CASE answers' = Append(answers, "CopyDone")
        <5>1. Abstract!Step(state, Doing, <<"FinalCopyStatusDone", "CopyDone">>,
                            state', Doing') \in Abstract!Steps[dest]
          BY <1>0, <2>1, <2>4, <3>1, <3>3, <3>5, OtherSteps
        <5>2. answers' = <<"CopyDone">>
          BY <2>2, <4>1, FirstAnswer
        <5> QED
          BY <1>0, <2>1, <2>2, <3>4, <5>1, <5>2, SaysTwo
      <4>2. CASE answers' = answers \o <<"Error", "CopyDone">>
        <5>1. Abstract!Step(state, Doing, <<"Error", "CopyDone">>,
                            state', Doing') \in Abstract!Steps[dest]
          BY <1>0, <2>1, <2>4, <3>1, <3>3, <3>5, OtherSteps
        <5>2. answers' = <<"Error", "CopyDone">>
          BY SMT, <2>2, <4>2
        <5> QED
          BY <1>0, <2>1, <2>2, <3>4, <5>1, <5>2, SaysTwo
      <4> QED
        BY <2>1, <2>4, <4>1, <4>2
    <3> QED
      BY <3>3, <3>6 DEF Conforms
  <2> QED
    BY <2>3, <2>4
<1>7. CASE Delivered
  <2>1. /\ pc \in {"upload", "exec"} /\ dest' = dest
        /\ RunFails \/ RunEnds("CopyDone", "TransferDone")
    BY <1>7 DEF Delivered, CallOk, jobVars
  <2>2. /\ state = "UploadOrCmd" /\ dest # "Usb" /\ Doing = "Final"
        /\ Working /\ answers = <<>>
    BY SMTT(30), <1>0, <2>1, PointStates, DoingTable, WorkPoints DEF Doing,
       Working, ControlInv
  <2>3. CASE RunFails
    BY <2>1, <2>2, <2>3, Aborting
  <2>4. CASE RunEnds("CopyDone", "TransferDone")
    <3>1. At(state', pc', dest')
      BY <1>0, <2>1, <2>4 DEF At, RunEnds
    <3>2. ControlInv' /\ Doing' = "none"
      BY SMTT(30), <1>0, <2>1, <2>4, <3>1, DoingTable DEF ControlInv, Doing,
         RunEnds
    <3>3. Abstract!Step("UploadOrCmd", "Final", <<"FinalCopyStatusDone", "CopyDone">>,
                        "TransferDone", "none") \in Abstract!Transfers(dest)
      BY <2>2 DEF Abstract!Transfers
    <3>4. Abstract!Step(state, Doing, <<"FinalCopyStatusDone", "CopyDone">>,
                        state', Doing') \in Abstract!Steps[dest]
      BY <1>0, <2>2, <2>4, <3>2, <3>3, OtherSteps DEF RunEnds
    <3>5. answers' = <<"CopyDone">>
      BY <2>2, <2>4, FirstAnswer DEF RunEnds
    <3>6. "FinalCopyStatusDone" \in Abstract!Progress
      BY DEF Abstract!Progress
    <3>7. Abstract!SessionNext
      BY <1>0, <2>1, <2>2, <3>4, <3>5, <3>6, SaysTwo
    <3> QED
      BY <3>2, <3>7 DEF Conforms
  <2> QED
    BY <2>1, <2>3, <2>4
<1> QED
  BY <1>1, <1>2, <1>3, <1>4, <1>5, <1>6, <1>7

---------------------------------------------------------------------------
(* A step of anyone.                                                       *)
LEMMA StepConforms ==
    ASSUME ControlInv, [Next]_vars
    PROVE  Conforms
<1>1. CASE ClientStep
  BY <1>1, ClientConforms DEF ClientStep
<1>2. CASE UsbsasStep
  <2>1. CASE ClientCallOk \/ ClientCallFails
    BY <2>1, CallConforms
  <2>2. CASE EndSend \/ EndReturn \/ WaitChild
    BY <2>2, EndConforms
  <2>3. CASE \/ SendRequest \/ WipeStarted \/ WipeZeroed \/ WipeFails
             \/ ImgDisk \/ ImgDiskFails
    BY <2>3, OthersConform
  <2>4. CASE CopyFilesNext
    BY <2>4, TarConforms, WriteConforms, CopyConforms DEF CopyFilesNext
  <2> QED
    BY <1>2, <2>1, <2>2, <2>3, <2>4 DEF UsbsasStep, UsbsasNext
<1>3. CASE ChildNext \/ Crash \/ Exited \/ UNCHANGED vars
  <2>1. UNCHANGED orchVars
    BY <1>3 DEF ChildNext, Files2TarStep, Tar2FilesStep, Files2FsStep,
       Fs2DevStep, Scsi2FilesStep, Dev2ScsiStep, ServicesStep, Crash, Exited,
       vars
  <2>2. pc' = pc /\ state' = state /\ dest' = dest /\ answers' = answers
    BY <2>1 DEF orchVars, ctlVars, jobVars
  <2>3. ControlInv' /\ Doing' = Doing
    BY <2>2 DEF ControlInv, Doing
  <2> QED
    BY <2>2, <2>3 DEF Conforms, Abstract!sessionVars
<1> QED
  BY <1>1, <1>2, <1>3 DEF Next

(* usbsas is at a point of its state and, until it waits for the next      *)
(* request, has not given the final answer to the last one (main_loop and  *)
(* the run() of each State of usbsas-usbsas/src/main.rs).                  *)
THEOREM SessionControl == Spec => []ControlInv
<1>1. Init => ControlInv
  BY DEF Init, ControlInv, At, IdleStates
<1>2. ControlInv /\ [Next]_vars => ControlInv'
  BY StepConforms DEF Conforms
<1> QED
  BY <1>1, <1>2, PTL DEF Spec

(* Whatever its children do, and whichever of them die, usbsas leads one   *)
(* of the dialogues of Session with its client: the orchestrator of        *)
(* usbsas-usbsas/src/main.rs refines the abstract specification.           *)
THEOREM SessionRefinement == Spec => ImplementsSession
<1>1. Init => Abstract!Started /\ answers = <<>>
  <2>1. ASSUME Init PROVE At(state, pc, dest) /\ pc = "recv"
    BY <2>1 DEF Init, At, IdleStates
  <2>2. ASSUME Init PROVE Doing = "none"
    BY <2>1, <2>2, DoingTable DEF Doing
  <2> QED
    BY <2>2 DEF Init, Abstract!Started
<1>2. ControlInv /\ [Next]_vars => [Abstract!SessionNext]_(Abstract!sessionVars)
  BY StepConforms DEF Conforms
<1> QED
  BY <1>1, <1>2, SessionControl, PTL DEF Spec, ImplementsSession,
     Abstract!SessionSpec

---------------------------------------------------------------------------
(* Two messages in a pipe.                                               *)
LEMMA SecondAnswer ==
    ASSUME NEW l, NEW m
    PROVE  Append(<<l>>, m) = <<l, m>>
<1> DEFINE a == Append(<<l>>, m)
           b == <<l, m>>
<1>1. <<l>> \in Seq({l, m}) /\ Len(<<l>>) = 1 /\ <<l>>[1] = l /\ m \in {l, m}
  BY SMT
<1>2. a \in Seq({l, m}) /\ Len(a) = 2 /\ a[1] = l /\ a[2] = m
  BY SMT, <1>1, AppendToShort
<1>3. b \in Seq({l, m}) /\ Len(b) = 2 /\ b[1] = l /\ b[2] = m
  BY SMT
<1> HIDE DEF a, b
<1>4. \A i \in 1 .. Len(a) : a[i] = b[i]
  BY SMT, <1>2, <1>3
<1>5. a = b
  BY <1>2, <1>3, <1>4, SameSeq
<1> QED
  BY <1>5 DEF a, b

(* analyzer takes the archive and gives its verdict, announced or not.     *)
LEMMA AnalyzerAnswer ==
    ASSUME NEW Q, NEW R, NEW s, NEW q \in Seq(Q), NEW r \in Seq(R), NEW w \in BOOLEAN,
           NEW p, NEW rs \in Seq(R), q # <<>>, s \notin Parked,
           AnalyzerOK(s, q, r, w, p), Head(q).type = "Analyze",
           \/ Len(rs) = 1 /\ rs[1].type # "UploadStatus"
           \/ (Len(rs) = 2 /\ rs[1].type = "UploadStatus"
                          /\ rs[2].type # "UploadStatus")
    PROVE  AnalyzerOK("Drained", Tail(q), r \o rs, w, p)
<1>1. w /\ Len(q) = 1 /\ r = <<>> /\ p # "end"
  BY SMT DEF AnalyzerOK, Quiet
<1>2. Tail(q) = <<>> /\ r \o rs = rs
  BY SMT, <1>1, TailOfOne
<1> QED
  BY <1>1, <1>2 DEF AnalyzerOK, Quiet, Parked

(* The steps of the analyzer, the uploader and the other services.         *)
LEMMA ServicesPipes ==
    ASSUME TypeInv, PipeInv, UNCHANGED orchVars, ServicesNext
    PROVE  PipeInv'
<1>1. CASE CmdExecRun \/ IdentificatorId \/ UsbDevDevices
  <2>1. {"Exec", "PostCopyExec", "Id", "Devices"} \subseteq RspTypes
    BY DEF RspTypes, ReqTypes
  <2> QED
    BY ZenonT(30), <1>1, <2>1, Names, ReplyStep DEF CmdExecRun, IdentificatorId,
       UsbDevDevices, Receives, AtWork
<1>2. CASE UploaderUpload \/ ServiceEnd \/ ServiceWaitEnd
  BY ZenonT(30), <1>2, Names, ParkStep, EndStep DEF UploaderUpload, ServiceEnd,
     ServiceWaitEnd, Receives
<1>3. CASE AnalyzerAnalyze \/ AnalyzerAgain
  <2> DEFINE c == "analyzer"
  <2>1. /\ c \in Procs /\ c \in Children /\ c \notin WaitOnStartup /\ IpcTypeOK
        /\ "scsi2files" \in Procs /\ "dev2scsi" \in Procs
    BY DEF Procs, Children, WaitOnStartup, TypeInv
  <2>2. /\ wait' = wait /\ pc' = pc /\ (wait = c) \in BOOLEAN
        /\ req[c] \in Seq(Reqs) /\ rsp[c] \in Seq(Rsps)
        /\ AnalyzerOK(st[c], req[c], rsp[c], wait = c, pc)
    BY <2>1 DEF IpcTypeOK, orchVars, ctlVars, PipeInv, ChildOK, PipesOK, Plain
  <2>3. /\ req[c] # <<>> /\ st[c] \notin Parked /\ Head(req[c]).type = "Analyze"
    BY <1>3 DEF AnalyzerAnalyze, AnalyzerAgain, Receives, Parked
  <2>4. PICK rs \in Seq(Rsps) :
           /\ Answer(c, rs, "Drained")
           /\ \/ Len(rs) = 1 /\ rs[1].type # "UploadStatus"
              \/ (Len(rs) = 2 /\ rs[1].type = "UploadStatus"
                             /\ rs[2].type # "UploadStatus")
    <3>1. CASE Answer(c, <<Error>>, "Drained")
      <4>1. Len(<<Error>>) = 1 /\ <<Error>>[1].type # "UploadStatus"
        BY DEF Error, Msg
      <4> QED
        BY <3>1, <4>1, SmallAnswers
    <3>2. ASSUME NEW clean \in SUBSET {f \in Files : InTar(f)},
                 NEW progress \in {<<>>, <<Msg("UploadStatus")>>},
                 Answer(c, Append(progress,
                                  [type |-> "Analyze", clean |-> clean,
                                   dirty |-> {f \in Files : InTar(f)} \ clean]),
                        "Drained")
          PROVE  \E rs \in Seq(Rsps) :
                    /\ Answer(c, rs, "Drained")
                    /\ \/ Len(rs) = 1 /\ rs[1].type # "UploadStatus"
                       \/ (Len(rs) = 2 /\ rs[1].type = "UploadStatus"
                                      /\ rs[2].type # "UploadStatus")
      <4> DEFINE v == [type |-> "Analyze", clean |-> clean,
                       dirty |-> {f \in Files : InTar(f)} \ clean]
                 u == Msg("UploadStatus")
      <4>1. v \in Rsps /\ v.type # "UploadStatus"
        BY DEF Rsps
      <4>2. u \in Rsps /\ u.type = "UploadStatus"
        BY Names DEF RspTypes, Msg
      <4> HIDE DEF v, u
      <4>3. /\ Append(<<>>, v) = <<v>> /\ Append(<<u>>, v) = <<u, v>>
            /\ <<v>> \in Seq(Rsps) /\ <<u, v>> \in Seq(Rsps)
        BY SMT, <4>1, <4>2, FirstAnswer, SecondAnswer
      <4>4. /\ Len(<<v>>) = 1 /\ <<v>>[1].type # "UploadStatus"
            /\ Len(<<u, v>>) = 2 /\ <<u, v>>[1].type = "UploadStatus"
            /\ <<u, v>>[2].type # "UploadStatus"
        BY <4>1, <4>2
      <4>5. Answer(c, <<v>>, "Drained") \/ Answer(c, <<u, v>>, "Drained")
        BY <3>2, <4>3 DEF v, u
      <4> QED
        BY <4>3, <4>4, <4>5
    <3> QED
      BY <1>3, <3>1, <3>2 DEF AnalyzerAnalyze, AnalyzerAgain
  <2>5. AnalyzerOK("Drained", Tail(req[c]), rsp[c] \o rs, wait = c, pc)
    BY <2>2, <2>3, <2>4, AnalyzerAnswer
  <2>6. /\ st'[c] = "Drained" /\ req'[c] = Tail(req[c]) /\ rsp'[c] = rsp[c] \o rs
        /\ \A d \in Procs \ {c} : Untouched(d)
    BY SMT, <2>1, <2>4, Touches
  <2>7. ChildOK(c)'
    BY <2>2, <2>5, <2>6 DEF ChildOK, PipesOK, Plain
  <2>8. GhostOK'
    BY <2>1, <2>6 DEF PipeInv, GhostOK, MassStorageDropped, Untouched
  <2> QED
    BY <2>1, <2>6, <2>7, <2>8, OneChildOK
<1> QED
  BY <1>1, <1>2, <1>3 DEF ServicesNext

---------------------------------------------------------------------------
(* fs2dev: what its steps do to its pipes.                                 *)
LEMMA Fs2DevUnlocked ==
    ASSUME NEW Q, NEW q \in Seq(Q), NEW r, NEW w \in BOOLEAN, NEW p, q # <<>>,
           Fs2DevOK("Locked", q, r, w, p)
    PROVE  Fs2DevOK("DevOpened", Tail(q), r, w, p)
<1>1. r = <<>> /\ Len(q) = IF w THEN 2 ELSE 1
  BY EmptyIsZero DEF Fs2DevOK, Starting
<1>2. CASE w
  <2>1. Len(Tail(q)) = 1
    BY SMT, <1>1, <1>2, TailFacts
  <2>2. \A j : j = 1 + 1 => Tail(q)[1] = q[j]
    BY SMT, <2>1, TailFacts
  <2>3. p \in DOMAIN DevAsks /\ q[2].type = DevAsks[p]
    BY <1>2 DEF Fs2DevOK
  <2>4. 2 = 1 + 1
    BY SMT
  <2>5. Tail(q)[1] = q[2]
    BY <2>2, <2>4
  <2> HIDE DEF DevAsks
  <2> QED
    BY <1>1, <1>2, <2>1, <2>3, <2>5 DEF Fs2DevOK, Starting, Quiet, Parked
<1>3. CASE ~w
  <2>1. Tail(q) = <<>>
    BY <1>1, <1>3, TailOfOne
  <2> QED
    BY <1>1, <1>3, <2>1 DEF Fs2DevOK, Starting, Quiet, Parked
<1> QED
  BY <1>2, <1>3

(* A first answer of fs2dev, by the point usbsas is at.                    *)
LEMMA Fs2DevReplies ==
    ASSUME NEW m, NEW p
    PROVE  /\ p \in {"cf_size", "fs_size", "bv_load"} =>
                \A s \in {"DevOpened", "LoadBitVec", "BitVecLoaded"} :
                    Fs2DevOK(s, <<>>, <<m>>, TRUE, p)
           /\ p = "startcopy" /\ m.type = "StartCopy" =>
                Fs2DevOK("Copying", <<>>, <<m>>, TRUE, p)
           /\ p = "wipe" /\ m.type = "Wipe" => Fs2DevOK("Wiping", <<>>, <<m>>, TRUE, p)
<1>1. Len(<<m>>) = 1 /\ <<m>>[1] = m /\ <<m>> # <<>> /\ DOMAIN <<m>> = 1 .. 1
  BY SMT
<1>2. p \in {"cf_size", "fs_size", "bv_load"} =>
                \A s \in {"DevOpened", "LoadBitVec", "BitVecLoaded"} :
                    Fs2DevOK(s, <<>>, <<m>>, TRUE, p)
  BY <1>1 DEF Fs2DevOK, Starting, Quiet, Parked
<1>3. p = "startcopy" /\ m.type = "StartCopy" =>
                Fs2DevOK("Copying", <<>>, <<m>>, TRUE, p)
  BY SMT, <1>1 DEF Fs2DevOK, Starting, Quiet, Parked, Reporting
<1>4. p = "wipe" /\ m.type = "Wipe" => Fs2DevOK("Wiping", <<>>, <<m>>, TRUE, p)
  BY SMT, <1>1 DEF Fs2DevOK, Starting, Quiet, Parked, Reporting
<1> QED
  BY <1>2, <1>3, <1>4

(* A group is written, or the last one was.                                *)
LEMMA Fs2DevReports ==
    ASSUME NEW R, NEW s \in {"Copying", "Wiping"}, NEW q, NEW r \in Seq(R),
           NEW w \in BOOLEAN, NEW p, NEW m \in R, Fs2DevOK(s, q, r, w, p)
    PROVE  /\ m.type = "CopyStatus" => Fs2DevOK(s, q, Append(r, m), w, p)
           /\ m.type = "CopyStatusDone" /\ s = "Wiping" =>
                Fs2DevOK("DevOpened", q, Append(r, m), w, p)
<1> DEFINE a == Append(r, m)
<1>1. /\ a \in Seq(R) /\ a # <<>> /\ Len(a) = Len(r) + 1 /\ Len(r) \in Nat
      /\ DOMAIN r = 1 .. Len(r) /\ DOMAIN a = 1 .. (Len(r) + 1)
  BY SMT, AppendFacts
<1>2. a[Len(r) + 1] = m /\ \A i \in DOMAIN r : a[i] = r[i]
  BY SMT, AppendFacts
<1>3. r # <<>> => Len(r) >= 1
  BY SMT
<1> HIDE DEF a
<1>4. w /\ q = <<>>
  BY DEF Fs2DevOK
<1>5. ASSUME m.type = "CopyStatus", NEW p1, NEW t, NEW p2, Reporting(r, p, p1, t, p2)
      PROVE  Reporting(a, p, p1, t, p2)
  <2>1. CASE /\ p = p1 /\ r # <<>> /\ r[1].type = t
             /\ \A i \in DOMAIN r : i > 1 => r[i].type = "CopyStatus"
    <3>1. a[1].type = t
      BY SMT, <1>1, <1>2, <1>3, <2>1
    <3>2. ASSUME NEW i \in DOMAIN a, i > 1
          PROVE  a[i].type = "CopyStatus"
      BY SMT, <1>1, <1>2, <1>5, <2>1, <3>2
    <3> QED
      BY <1>1, <2>1, <3>1, <3>2 DEF Reporting
  <2>2. CASE p = p2 /\ \A i \in DOMAIN r : r[i].type = "CopyStatus"
    <3>1. ASSUME NEW i \in DOMAIN a
          PROVE  a[i].type = "CopyStatus"
      BY SMT, <1>1, <1>2, <1>5, <2>2
    <3> QED
      BY <2>2, <3>1 DEF Reporting
  <2> QED
    BY <1>5, <2>1, <2>2 DEF Reporting
<1>6. ASSUME m.type = "CopyStatus" PROVE Fs2DevOK(s, q, a, w, p)
  BY <1>4, <1>5, <1>6 DEF Fs2DevOK, Starting, Quiet, Parked
<1>7. ASSUME m.type = "CopyStatusDone", s = "Wiping"
      PROVE  Fs2DevOK("DevOpened", q, a, w, p)
  <2>1. Reporting(r, p, "wipe", "Wipe", "wiping")
    BY <1>7 DEF Fs2DevOK
  <2>2. a[Len(a)].type = "CopyStatusDone"
    BY <1>1, <1>2, <1>7
  <2>3. ASSUME p = "wipe" PROVE Reported(a, p, "wipe", "Wipe", "wiping")
    <3>1. r # <<>> /\ r[1].type = "Wipe"
          /\ \A i \in DOMAIN r : i > 1 => r[i].type = "CopyStatus"
      BY <2>1, <2>3 DEF Reporting
    <3>2. Len(a) > 1 /\ a[1].type = "Wipe"
      BY SMT, <1>1, <1>2, <1>3, <3>1
    <3>3. ASSUME NEW i \in DOMAIN a, i > 1, i < Len(a)
          PROVE  a[i].type = "CopyStatus"
      BY SMT, <1>1, <1>2, <3>1, <3>3
    <3> QED
      BY <1>1, <2>2, <2>3, <3>2, <3>3 DEF Reported
  <2>4. ASSUME p # "wipe" PROVE Reported(a, p, "wipe", "Wipe", "wiping")
    <3>1. p = "wiping" /\ \A i \in DOMAIN r : r[i].type = "CopyStatus"
      BY <2>1, <2>4 DEF Reporting
    <3>2. ASSUME NEW i \in DOMAIN a, i < Len(a)
          PROVE  a[i].type = "CopyStatus"
      BY SMT, <1>1, <1>2, <3>1, <3>2
    <3> QED
      BY <1>1, <2>2, <3>1, <3>2 DEF Reported
  <2> QED
    BY <1>4, <2>3, <2>4 DEF Fs2DevOK, Starting, Quiet, Parked
<1> QED
  BY <1>6, <1>7 DEF a

(* The steps of fs2dev.                                                    *)
LEMMA Fs2DevPipes ==
    ASSUME TypeInv, PipeInv, UNCHANGED orchVars, Fs2DevNext
    PROVE  PipeInv'
<1> DEFINE c == "fs2dev"
<1>1. /\ c \in Procs /\ c \in Children /\ c \in WaitOnStartup /\ IpcTypeOK
      /\ "scsi2files" \in Procs /\ "dev2scsi" \in Procs
  BY DEF Procs, Children, WaitOnStartup, TypeInv
<1>2. /\ wait' = wait /\ pc' = pc /\ (wait = c) \in BOOLEAN
      /\ req[c] \in Seq(Reqs) /\ rsp[c] \in Seq(Rsps)
      /\ Fs2DevOK(st[c], req[c], rsp[c], wait = c, pc)
  BY <1>1 DEF IpcTypeOK, orchVars, ctlVars, PipeInv, ChildOK, PipesOK, Plain

(* What is left to show of a step that answers, and of one that reports.   *)
<1>3. ASSUME NEW rs, NEW s2, Answer(c, rs, s2), req[c] # <<>>, st[c] # "End",
             s2 # "Locked", Fs2DevOK(s2, Tail(req[c]), rsp[c] \o rs, wait = c, pc)
      PROVE  PipeInv'
  <2>1. /\ st'[c] = s2 /\ req'[c] = Tail(req[c]) /\ rsp'[c] = rsp[c] \o rs
        /\ \A d \in Procs \ {c} : Untouched(d)
    BY <1>1, <1>3, Touches
  <2>2. ChildOK(c)'
    BY <1>2, <1>3, <2>1 DEF ChildOK, PipesOK, Plain
  <2>3. FlagOK(c)'
    BY <1>1, <1>3, FlagAnswer
  <2>4. GhostOK'
    BY <1>1, <2>1 DEF PipeInv, GhostOK, MassStorageDropped, Untouched
  <2> QED
    BY <1>1, <2>1, <2>2, <2>3, <2>4, OneChildOK
<1>4. ASSUME NEW m \in Rsps, NEW s2, Emit(c, <<m>>, s2), st[c] \in {"Copying", "Wiping"},
             s2 # "Locked", Fs2DevOK(s2, req[c], Append(rsp[c], m), wait = c, pc)
      PROVE  PipeInv'
  <2>1. /\ st'[c] = s2 /\ req'[c] = req[c] /\ rsp'[c] = rsp[c] \o <<m>>
        /\ \A d \in Procs \ {c} : Untouched(d)
    BY <1>1, <1>4, Touches
  <2>2. rsp[c] \o <<m>> = Append(rsp[c], m)
    BY SMT, <1>2, AppendFacts
  <2>3. ChildOK(c)'
    BY <1>2, <1>4, <2>1, <2>2 DEF ChildOK, PipesOK, Plain
  <2>4. FlagOK(c)'
    BY <1>1, <1>4, FlagEmit
  <2>5. GhostOK'
    BY <1>1, <2>1 DEF PipeInv, GhostOK, MassStorageDropped, Untouched
  <2> QED
    BY <1>1, <2>1, <2>3, <2>4, <2>5, OneChildOK
(* The request that a working fs2dev finds is the one usbsas waits on.     *)
<1>asked. ASSUME st[c] \in {"DevOpened", "LoadBitVec", "BitVecLoaded"}, req[c] # <<>>
       PROVE  /\ wait = c /\ rsp[c] = <<>> /\ Tail(req[c]) = <<>>
              /\ pc \in DOMAIN DevAsks /\ Head(req[c]).type = DevAsks[pc]
  <2>1. st[c] \notin Parked \cup {"Copying", "Wiping"}
    BY <1>asked DEF Parked
  <2>2. wait = c
    BY <1>2, <1>asked, <2>1 DEF Fs2DevOK, Quiet
  <2>3. /\ Len(req[c]) = 1 /\ rsp[c] = <<>>
        /\ pc \in DOMAIN DevAsks /\ req[c][1].type = DevAsks[pc]
    BY <1>2, <1>asked, <2>1, <2>2 DEF Fs2DevOK
  <2>4. Tail(req[c]) = <<>> /\ Head(req[c]) = req[c][1]
    BY <1>2, <2>3, TailOfOne
  <2> QED
    BY <2>2, <2>3, <2>4
(* A request that is answered in a working state.                          *)
<1>5. ASSUME NEW m \in Rsps, NEW s2, Answer(c, <<m>>, s2), req[c] # <<>>, s2 # "Locked",
             st[c] \in {"DevOpened", "LoadBitVec", "BitVecLoaded"},
             Fs2DevOK(s2, <<>>, <<m>>, TRUE, pc)
      PROVE  PipeInv'
  <2>1. (wait = c) = TRUE /\ rsp[c] = <<>> /\ Tail(req[c]) = <<>>
    BY <1>5, <1>asked
  <2>2. <<>> \o <<m>> = <<m>>
    BY SMT
  <2>3. Fs2DevOK(s2, Tail(req[c]), rsp[c] \o <<m>>, wait = c, pc)
    BY <1>5, <2>1, <2>2
  <2>4. st[c] # "End"
    BY <1>5
  <2> QED
    BY <1>3, <1>5, <2>3, <2>4
<1>6. ASSUME NEW t, req[c] # <<>>, Head(req[c]).type = t,
             st[c] \in {"DevOpened", "LoadBitVec", "BitVecLoaded"}
      PROVE  /\ t \in {"DevSize", "LoadBitVec"} => pc \in {"cf_size", "fs_size", "bv_load"}
             /\ t = "StartCopy" => pc = "startcopy"
             /\ t = "Wipe" => pc = "wipe"
  <2>1. pc \in DOMAIN DevAsks /\ t = DevAsks[pc]
    BY <1>6, <1>asked
  <2> QED
    BY SMT, <2>1 DEF DevAsks
<1>7. CASE F2DUnlock
  <2>1. st[c] = "Locked" /\ req[c] # <<>>
    BY <1>7 DEF F2DUnlock, Receives
  <2>2. CASE Answer(c, <<>>, "DevOpened")
    <3>1. Fs2DevOK("DevOpened", Tail(req[c]), rsp[c], wait = c, pc)
      BY <1>2, <2>1, Fs2DevUnlocked
    <3>2. rsp[c] \o <<>> = rsp[c]
      BY SMT, <1>2
    <3> QED
      BY <1>3, <2>1, <2>2, <3>1, <3>2
  <2> QED
    BY <1>1, <1>7, <2>1, <2>2, ParkStep, EndStep DEF F2DUnlock
<1>8. CASE F2DDevSize \/ F2DLoadBitVec
  <2>1. /\ req[c] # <<>> /\ st[c] \in {"DevOpened", "LoadBitVec"}
        /\ Head(req[c]).type \in {"DevSize", "LoadBitVec"}
    BY <1>8 DEF F2DDevSize, F2DLoadBitVec, Receives
  <2>2. pc \in {"cf_size", "fs_size", "bv_load"}
    BY <1>6, <2>1
  <2>3. Msg("DevSize") \in Rsps /\ Msg("LoadBitVec") \in Rsps
    BY Names DEF RspTypes, ReqTypes
  <2>4. PICK m \in Rsps, s2 \in {"DevOpened", "LoadBitVec", "BitVecLoaded"} :
           Answer(c, <<m>>, s2)
    BY <1>8, <2>3 DEF F2DDevSize, F2DLoadBitVec
  <2>5. Fs2DevOK(s2, <<>>, <<m>>, TRUE, pc)
    BY <2>2, Fs2DevReplies
  <2> QED
    BY <1>5, <2>1, <2>4, <2>5
<1>9. CASE F2DStartCopy \/ F2DWipe
  <2>1. PICK t \in {"StartCopy", "Wipe"} :
           /\ req[c] # <<>> /\ st[c] \in {"DevOpened", "BitVecLoaded"}
           /\ Head(req[c]).type = t
           /\ Answer(c, <<Msg(t)>>, IF t = "StartCopy" THEN "Copying" ELSE "Wiping")
    BY <1>9 DEF F2DStartCopy, F2DWipe, Receives
  <2>2. pc = IF t = "StartCopy" THEN "startcopy" ELSE "wipe"
    BY <1>6, <2>1
  <2>3. Msg(t) \in Rsps /\ Msg(t).type = t
    BY Names DEF RspTypes, ReqTypes, Msg
  <2>4. Fs2DevOK(IF t = "StartCopy" THEN "Copying" ELSE "Wiping", <<>>, <<Msg(t)>>, TRUE,
                 pc)
    BY <2>2, <2>3, Fs2DevReplies
  <2> QED
    BY <1>5, <2>1, <2>3, <2>4
<1>10. CASE F2DWriteGroup
  <2>1. st[c] \in {"Copying", "Wiping"} /\ Emit(c, <<Msg("CopyStatus")>>, st[c])
    BY <1>10 DEF F2DWriteGroup
  <2>2. Msg("CopyStatus") \in Rsps /\ Msg("CopyStatus").type = "CopyStatus"
    BY Names DEF RspTypes, Msg
  <2>3. Fs2DevOK(st[c], req[c], Append(rsp[c], Msg("CopyStatus")), wait = c, pc)
    BY <1>2, <2>1, <2>2, Fs2DevReports
  <2> QED
    BY <1>4, <2>1, <2>2, <2>3
<1>11. CASE F2DStatusDone
  <2>1. /\ st[c] \in {"Copying", "Wiping"}
        /\ Emit(c, <<Msg("CopyStatusDone")>>,
                IF st[c] = "Copying" THEN "WaitEnd" ELSE "DevOpened")
    BY <1>11 DEF F2DStatusDone
  <2>2. Msg("CopyStatusDone") \in Rsps /\ Msg("CopyStatusDone").type = "CopyStatusDone"
    BY Names DEF RspTypes, Msg
  <2>3. CASE st[c] = "Copying"
    BY <1>1, <2>1, <2>3, ParkStep
  <2>4. CASE st[c] = "Wiping"
    <3>1. Fs2DevOK("DevOpened", req[c], Append(rsp[c], Msg("CopyStatusDone")), wait = c, pc)
      BY <1>2, <2>2, <2>4, Fs2DevReports
    <3> QED
      BY <1>4, <2>1, <2>2, <2>4, <3>1
  <2> QED
    BY <2>1, <2>3, <2>4
<1>12. CASE F2DWriteFails \/ F2DEnd \/ F2DUnexpected \/ F2DWaitEnd
  BY ZenonT(30), <1>1, <1>12, ParkStep, EndStep DEF F2DWriteFails, F2DEnd,
     F2DUnexpected, F2DWaitEnd, Receives, ReceivesOther
<1> QED
  BY <1>7, <1>8, <1>9, <1>10, <1>11, <1>12 DEF Fs2DevNext

(* A child that dies leaves its pipes as they are.                         *)
LEMMA CrashPipes ==
    ASSUME TypeInv, PipeInv, UNCHANGED orchVars, NEW c \in Procs, Die(c)
    PROVE  PipeInv'
<1>1. /\ st'[c] = "End" /\ req'[c] = req[c] /\ rsp'[c] = rsp[c]
      /\ \A d \in Procs \ {c} : Untouched(d)
  BY DEF Die, TypeInv, IpcTypeOK, Untouched
<1>2. c \in Children => ChildOK(c)'
  BY <1>1, ParkedOK DEF ChildOK, PipesOK, Plain
<1>3. c \in WaitOnStartup => FlagOK(c)'
  BY <1>1 DEF PipeInv, FlagOK
<1>4. GhostOK'
  <2>1. "scsi2files" \in Procs /\ "dev2scsi" \in Procs
    BY DEF Procs, Children
  <2> QED
    BY <1>1, <2>1 DEF PipeInv, GhostOK, MassStorageDropped, Untouched
<1> QED
  BY <1>1, <1>2, <1>3, <1>4, OneChildOK

(* A step of any child, or the death of one.                               *)
LEMMA ChildPipes ==
    ASSUME TypeInv, PipeInv, ChildNext \/ Crash
    PROVE  PipeInv'
<1>1. UNCHANGED orchVars
  BY DEF ChildNext, Crash, Files2TarStep, Tar2FilesStep, Files2FsStep,
     Fs2DevStep, Scsi2FilesStep, Dev2ScsiStep, ServicesStep
<1>2. CASE ChildNext
  BY <1>1, <1>2, Files2TarPipes, Tar2FilesPipes, Files2FsPipes, Fs2DevPipes,
     Scsi2FilesPipes, Dev2ScsiPipes, ServicesPipes DEF ChildNext, Files2TarStep,
     Tar2FilesStep, Files2FsStep, Fs2DevStep, Scsi2FilesStep, Dev2ScsiStep,
     ServicesStep
<1>3. CASE Crash
  BY <1>1, <1>3, CrashPipes, CrashableAreProcs DEF Crash
<1> QED
  BY <1>2, <1>3

---------------------------------------------------------------------------
(* Only the children spawned with wait_on_startup are ever locked.         *)
LEMMA MovesOn ==
    ASSUME IpcTypeOK, NEW c \in Procs, NEW rs, NEW s, s # "Locked",
           Answer(c, rs, s) \/ Emit(c, rs, s)
    PROVE  st'[c] # "Locked"
  BY DEF IpcTypeOK, Answer, Emit

(* No end of a child takes it back to where it waits for its byte.         *)
LEMMA ErrorMovesOn ==
    ASSUME IpcTypeOK, NEW c \in Procs,
           RunError(c) \/ BadRequestTwice(c) \/ WaitEndOnce(c) \/ WaitEndLoop(c)
    PROVE  st'[c] # "Locked"
  BY MovesOn DEF RunError, BadRequestTwice, WaitEndOnce, WaitEndLoop

(* No child goes back to waiting for its unlock byte.                      *)
LEMMA ChildrenNeverLocked ==
    ASSUME TypeInv, NeverLocked, ChildNext \/ Crash
    PROVE  NeverLocked'
<1>1. /\ IpcTypeOK /\ "files2fs" \in Procs /\ "scsi2files" \in Procs
      /\ "dev2scsi" \in Procs /\ ServiceNames \subseteq Procs
      /\ Children \ WaitOnStartup = ServiceNames \cup {"files2fs", "scsi2files"}
      /\ "dev2scsi" \notin Children /\ Children \subseteq Procs
  BY DEF TypeInv, Procs, Children, ServiceNames, WaitOnStartup
<1>2. ASSUME NEW C, Leaves(C), \A c \in C \ (WaitOnStartup \cup {"dev2scsi"}) : st'[c] # "Locked"
      PROVE  NeverLocked'
  BY <1>1, <1>2 DEF NeverLocked, Leaves
<1>3. CASE Files2TarStep \/ Tar2FilesStep \/ Fs2DevStep
  <2>1. PICK c \in WaitOnStartup : Leaves({c})
    BY <1>1, <1>3, Frame DEF Files2TarStep, Tar2FilesStep, Fs2DevStep,
       WaitOnStartup
  <2> QED
    BY <1>2, <2>1
<1>4. CASE Files2FsStep
  <2>1. Files2FsNext /\ Leaves({"files2fs"})
    BY <1>1, <1>4, Frame DEF Files2FsStep
  <2>2. st'["files2fs"] # "Locked"
    <3>1. CASE F2FSetFsInfos \/ F2FNewFile \/ F2FWriteFile \/ F2FEndFile
      BY <1>1, <3>1, MovesOn, ErrorMovesOn DEF F2FSetFsInfos, F2FNewFile,
         F2FWriteFile, F2FEndFile
    <3>2. CASE F2FClose \/ F2FBitVec \/ F2FImgDisk \/ F2FWriteData \/ F2FEnd
      BY <1>1, <3>2, MovesOn, ErrorMovesOn DEF F2FClose, F2FBitVec, F2FImgDisk,
         F2FWriteData, F2FEnd
    <3>3. CASE F2FUnexpected \/ F2FWaitEnd
      BY <1>1, <3>3, ErrorMovesOn DEF F2FUnexpected, F2FWaitEnd
    <3> QED
      BY <2>1, <3>1, <3>2, <3>3 DEF Files2FsNext
  <2> QED
    BY <1>2, <2>1, <2>2
<1>5. CASE Scsi2FilesStep
  <2>1. Scsi2FilesNext /\ Leaves({"scsi2files", "dev2scsi"})
    BY <1>1, <1>5, Frame DEF Scsi2FilesStep
  <2>2. ASSUME NEW x, NEW s, Forward(x, s) \/ Relay(x, s), s # "Locked"
        PROVE  st'["scsi2files"] # "Locked"
    BY <1>1, <2>2 DEF IpcTypeOK, Forward, Relay
  <2>3. st'["scsi2files"] # "Locked"
    <3>1. CASE S2FOpenDevice \/ S2FOpened \/ S2FPartitions \/ S2FListed \/ S2FEnd \/ S2FEnded
      BY <2>2, <3>1 DEF S2FOpenDevice, S2FOpened, S2FPartitions, S2FListed,
         S2FEnd, S2FEnded
    <3>2. CASE S2FReadSectors \/ S2FOpenPartition \/ S2FRead \/ S2FBrokenPipe
      BY <1>1, <3>2, MovesOn, ErrorMovesOn DEF S2FReadSectors, S2FOpenPartition,
         S2FRead, S2FBrokenPipe
    <3>3. CASE S2FEndFails \/ S2FUnexpected \/ S2FWaitEnd
      BY <1>1, <3>3, MovesOn, ErrorMovesOn DEF S2FEndFails, S2FUnexpected,
         S2FWaitEnd
    <3> QED
      BY <2>1, <3>1, <3>2, <3>3 DEF Scsi2FilesNext
  <2> QED
    BY <1>2, <2>1, <2>3
<1>6. CASE Dev2ScsiStep
  <2>1. Dev2ScsiNext
    BY <1>6 DEF Dev2ScsiStep
  <2>2. CASE D2SReturnsIntoParent \/ D2SGhostWaitEnd
    BY <1>1, <2>2 DEF D2SReturnsIntoParent, D2SGhostWaitEnd, NeverLocked,
       IpcTypeOK
  <2>3. CASE D2SUnlock \/ D2SPartitions \/ D2SEnd \/ D2SKilled
    <3>1. Leaves({"dev2scsi"})
      BY <1>1, <2>3, AnswerLeaves DEF D2SUnlock, D2SPartitions, D2SEnd,
         D2SKilled
    <3> QED
      BY <1>2, <3>1
  <2> QED
    BY <2>1, <2>2, <2>3 DEF Dev2ScsiNext
<1>7. CASE ServicesStep
  <2>1. ServicesNext
    BY <1>7 DEF ServicesStep
  <2>2. PICK c \in ServiceNames : Leaves({c}) /\ st'[c] # "Locked"
    <3> USE DEF ServiceNames
    <3>1. CASE AnalyzerAnalyze \/ AnalyzerAgain \/ UploaderUpload
      BY <1>1, <3>1, MovesOn, AnswerLeaves DEF AnalyzerAnalyze, AnalyzerAgain,
         UploaderUpload
    <3>2. CASE CmdExecRun \/ IdentificatorId \/ UsbDevDevices
      BY <1>1, <3>2, MovesOn, AnswerLeaves DEF CmdExecRun, IdentificatorId,
         UsbDevDevices
    <3> HIDE DEF ServiceNames
    <3>3. CASE ServiceEnd
      BY <1>1, <3>3, MovesOn, AnswerLeaves DEF ServiceEnd
    <3>4. CASE ServiceWaitEnd
      BY <1>1, <3>4, ErrorMovesOn, ErrorLeaves DEF ServiceWaitEnd
    <3> QED
      BY <2>1, <3>1, <3>2, <3>3, <3>4 DEF ServicesNext
  <2> QED
    BY <1>2, <2>2
<1>8. CASE Crash
  <2>1. PICK c \in Crashable : Die(c)
    BY <1>8 DEF Crash
  <2>2. c \in Procs
    BY CrashableAreProcs
  <2> QED
    BY <1>1, <2>1, <2>2 DEF Die, NeverLocked, IpcTypeOK
<1> QED
  BY <1>3, <1>4, <1>5, <1>6, <1>7, <1>8 DEF ChildNext

=============================================================================
