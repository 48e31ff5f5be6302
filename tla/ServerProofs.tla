---------------------------- MODULE ServerProofs ----------------------------
(***************************************************************************)
(* The web server and usbsas stay in step, and a transfer goes to the      *)
(* destination chosen in its session, for every browser, every pipe size   *)
(* and every death of usbsas, as long as a failed write to the device is   *)
(* not answered twice (~DeviceFails).                                      *)
(***************************************************************************)
EXTENDS ServerInvariants, TLAPS

(* A leaf that names no prover is for Zenon.                               *)
USE Zenon

(* No response: the thread stays in its loop.                              *)
LEMMA LeadsNothing ==
    ASSUME NEW d, NEW l \in Loops
    PROVE  Leads(d, l, <<>>, l)
<1> DEFINE p == [i \in 1..1 |-> l]
<1>1. p \in [1..1 -> Loops] /\ p[1] = l
  BY SMT
<1> HIDE DEF p
<1>2. Len(<<>>) = 0
  OBVIOUS
<1> QED
  BY SMT, <1>1, <1>2 DEF Leads

(* With no response in the pipe the loop is the last one already.          *)
LEMMA LeadsNowhere ==
    ASSUME NEW d, NEW l, NEW e, Leads(d, l, <<>>, e)
    PROVE  l = e /\ l \in Loops
<1>1. Len(<<>>) + 1 = 1
  BY SMT
<1> QED
  BY SMT, <1>1 DEF Leads

(* The first response leads to the loop from which the others lead on.     *)
LEMMA LeadsOn ==
    ASSUME NEW d, NEW l, NEW e, NEW s \in Seq(Words), s # <<>>, Leads(d, l, s, e)
    PROVE  \E k \in Loops : /\ Follows(d, l, Head(s), k)
                            /\ Leads(d, k, Tail(s), e)
                            /\ Tail(s) # <<>> => k # "Post"
<1>1. PICK p \in [1..(Len(s) + 1) -> Loops] :
        /\ p[1] = l
        /\ p[Len(s) + 1] = e
        /\ \A i \in 1..Len(s) : Follows(d, p[i], s[i], p[i + 1])
        /\ \A i \in 2..Len(s) : p[i] # "Post"
  BY DEF Leads
<1> DEFINE t == Tail(s)
           q == [i \in 1..(Len(t) + 1) |-> p[i + 1]]
<1>2. /\ Len(s) \in Nat \ {0} /\ Len(t) = Len(s) - 1 /\ Head(s) = s[1]
      /\ t \in Seq(Words) /\ \A i \in 1..Len(t) : t[i] = s[i + 1]
      /\ t # <<>> => Len(s) >= 2
  BY SMT
<1>3. /\ q \in [1..(Len(t) + 1) -> Loops] /\ q[1] = p[2] /\ q[Len(t) + 1] = e
      /\ \A i \in 1..(Len(t) + 1) : q[i] = p[i + 1]
  BY SMT, <1>1, <1>2
<1> HIDE DEF q, t
<1>4. Leads(d, p[2], t, e)
  <2>1. \A i \in 1..Len(t) : Follows(d, q[i], t[i], q[i + 1])
    <3> TAKE i \in 1..Len(t)
    <3>1. i + 1 \in 1..Len(s) /\ q[i] = p[i + 1] /\ q[i + 1] = p[i + 1 + 1] /\ t[i] = s[i + 1]
      BY SMT, <1>2, <1>3
    <3> QED
      BY <1>1, <3>1
  <2>2. \A i \in 2..Len(t) : q[i] # "Post"
    BY SMT, <1>1, <1>2, <1>3
  <2> QED
    BY <1>3, <2>1, <2>2 DEF Leads
<1>5. /\ Follows(d, l, Head(s), p[2]) /\ p[2] \in Loops
      /\ t # <<>> => p[2] # "Post"
  <2>1. 1 \in 1..Len(s) /\ 1 + 1 = 2 /\ 2 \in 1..(Len(s) + 1) /\ (t # <<>> => 2 \in 2..Len(s))
    BY SMT, <1>2
  <2> QED
    BY <1>1, <1>2, <2>1
<1> QED
  BY <1>4, <1>5 DEF t

(* One response more.                                                      *)
LEMMA LeadsFurther ==
    ASSUME NEW d, NEW l, NEW e, NEW s \in Seq(Words), NEW m, NEW k \in Loops,
           Leads(d, l, s, e), Follows(d, e, m, k), s = <<>> \/ e # "Post"
    PROVE  Leads(d, l, s \o <<m>>, k)
<1>1. PICK p \in [1..(Len(s) + 1) -> Loops] :
        /\ p[1] = l
        /\ p[Len(s) + 1] = e
        /\ \A i \in 1..Len(s) : Follows(d, p[i], s[i], p[i + 1])
        /\ \A i \in 2..Len(s) : p[i] # "Post"
  BY DEF Leads
<1> DEFINE t == s \o <<m>>
           q == [i \in 1..(Len(s) + 2) |-> IF i = Len(s) + 2 THEN k ELSE p[i]]
<1>2. /\ Len(s) \in Nat /\ Len(t) = Len(s) + 1 /\ t[Len(s) + 1] = m
      /\ \A i \in 1..Len(s) : t[i] = s[i]
  BY SMT
<1>3. /\ q \in [1..(Len(t) + 1) -> Loops] /\ q[1] = l /\ q[Len(t) + 1] = k
      /\ q[Len(s) + 1] = e /\ \A i \in 1..(Len(s) + 1) : q[i] = p[i]
  BY SMT, <1>1, <1>2
<1> HIDE DEF q, t
<1>4. ASSUME NEW i \in 1..Len(t) PROVE Follows(d, q[i], t[i], q[i + 1])
  <2>1. CASE i = Len(s) + 1
    BY <1>2, <1>3, <2>1
  <2>2. CASE i # Len(s) + 1
    <3>1. i \in 1..Len(s) /\ q[i] = p[i] /\ q[i + 1] = p[i + 1] /\ t[i] = s[i]
      BY SMT, <1>2, <1>3, <1>4, <2>2
    <3> QED
      BY <1>1, <3>1
  <2> QED
    BY <2>1, <2>2
<1>5. ASSUME NEW i \in 2..Len(t) PROVE q[i] # "Post"
  <2>1. CASE i = Len(s) + 1
    BY SMT, <1>2, <1>3, <1>5, <2>1
  <2>2. CASE i # Len(s) + 1
    BY SMT, <1>1, <1>2, <1>3, <1>5, <2>2
  <2> QED
    BY <2>1, <2>2
<1> QED
  BY <1>3, <1>4, <1>5 DEF Leads, t

---------------------------------------------------------------------------
(* What usbsas says, by what it does.                                      *)
CallNames == {"Devices", "Id", "OpenDevice", "Partitions", "OpenPartition",
              "ReadDir", "End"}

Transferring == {"CopyFiles", "WriteFiles", "UploadOrCmd"}

(* A call of a handler has one response, and PostCopyCmd too.              *)
LEMMA CallSteps ==
    ASSUME NEW d \in Destinations, NEW w \in Steps[d],
           w.from[2] \in CallNames \cup {"PostCopyCmd"}
    PROVE  /\ w.from[2] = "End" => w.says = <<"End">> /\ w.to = <<"End", "exit">>
           /\ w.from[2] # "End" =>
                 /\ w.says \in {<<w.from[2]>>, <<"Error">>}
                 /\ w.to[1] \in IdleStates /\ w.to[2] = "none"
                 /\ w.says = <<"OpenDevice">> => w.to[1] = "DevOpened"
                 /\ w.to[1] = "DevOpened" => \/ w.from[1] = "DevOpened"
                                            \/ w.says = <<"OpenDevice">>
                 /\ w.to[1] = "PartitionOpened" =>
                       \/ w.from[1] = "PartitionOpened"
                       \/ w.from = <<"DevOpened", "OpenPartition">>
<1>1. w \in Calls \cup CallErrors \cup Transfers(d) \cup Others \cup Aborts(d) \cup EndSteps
  BY DEF Steps
<1>2. ASSUME NEW v \in Transfers(d) \cup Others
      PROVE  v.from[2] \notin CallNames \cup {"PostCopyCmd"}
  BY SMT, <1>2 DEF Transfers, Others, Step, CallNames
<1>3. w \in Calls \cup CallErrors \cup EndSteps
  <2>1. CASE w \in Aborts(d)
    <3>1. PICK v \in Transfers(d) \cup Others : w.from[2] = v.from[2]
      BY SMT, <2>1 DEF Aborts, Step
    <3> QED
      BY <1>2, <3>1
  <2> QED
    BY <1>1, <1>2, <2>1
<1>4. CASE w \in Calls
  BY SMT, <1>4 DEF Calls, Step, CallNames, IdleStates
<1>5. CASE w \in CallErrors
  <2>1. PICK c \in Calls : w = Step(c.from[1], c.from[2], <<"Error">>,
          IF c.from[1] = "TransferDone" THEN "WaitEnd" ELSE c.from[1], "none")
    BY <1>5 DEF CallErrors
  <2>2. c.from[1] \in IdleStates /\ c.from[2] # "End"
    BY SMT DEF Calls, Step, IdleStates
  <2> QED
    BY <2>1, <2>2 DEF Step, IdleStates
<1>6. CASE w \in EndSteps
  BY SMT, <1>6 DEF EndSteps, Step
<1> QED
  BY <1>3, <1>4, <1>5, <1>6

(* A step of a transfer says what its thread, in loop e, waits for, and    *)
(* goes on with what it then waits for.                                    *)
(* One response.                                                           *)
One(s) == s = <<s[1]>> /\ s[1] \in Words

Says(d, w, e) ==
    \/ \E k \in Loops \ {"Post"} :
          /\ One(w.says) /\ Follows(d, e, w.says[1], k)
          /\ \/ <<w.to[1], w.to[2], k>> \in Works
             \/ k = "return" /\ w.to[1] \in {"Init", "WaitEnd"} /\ w.to[2] = "none"
    \/ /\ w.says = <<"FinalCopyStatusDone", "CopyDone">>
       /\ e = "Final" /\ w.to[1] = "TransferDone" /\ w.to[2] = "none"

(* What is common to all the loops.                                        *)
LEMMA FollowTable ==
    ASSUME NEW d
    PROVE  /\ \A e \in DOMAIN Again : Follows(d, e, "Error", "return")
           /\ \A e \in DOMAIN Again : \A m \in Again[e] : Follows(d, e, m, e)
           /\ \A e \in DOMAIN Again : \A m \in Finish[e] : Follows(d, e, m, "return")
           /\ DOMAIN Again = {"Tar", "Analyze", "Fs", "Final", "Post", "wipe", "imagedisk"}
<1>1. DOMAIN Again = {"Tar", "Analyze", "Fs", "Final", "Post", "wipe", "imagedisk"}
  BY DEF Again
<1>2. ASSUME NEW e \in DOMAIN Again PROVE Follows(d, e, "Error", "return")
  BY SMT, <1>1, <1>2 DEF Follows, Finish
<1> QED
  BY <1>1, <1>2 DEF Follows

(* What usbsas writes while it works for a transfer is what the loop of the *)
(* thread expects, and takes it to the loop that goes with the next step.  *)
LEMMA WorkSteps ==
    ASSUME NEW d \in Destinations, NEW w \in Steps[d], NEW e, Possible(w), ~DeviceFails,
           <<w.from[1], w.from[2], e>> \in Works
    PROVE  /\ Says(d, w, e)
           /\ w.to[1] \in Transferring => w.from[1] \in Transferring
           /\ w.to[1] \notin {"DevOpened", "PartitionOpened"}
<1>1. w \in Calls \cup CallErrors \cup Transfers(d) \cup Others \cup Aborts(d) \cup EndSteps
  BY DEF Steps
<1>2. e \in Loops \ {"Post", "return"} /\ e \in DOMAIN Again
  BY FollowTable DEF Works, Loops
<1>A. ASSUME NEW k \in Loops \ {"Post"}, One(w.says),
             Follows(d, e, w.says[1], k), <<w.to[1], w.to[2], k>> \in Works
      PROVE  Says(d, w, e)
  BY <1>A DEF Says
<1>B. One(w.says) /\ Follows(d, e, w.says[1], "return") /\ w.to[1] \in {"Init", "WaitEnd"}
      /\ w.to[2] = "none" => Says(d, w, e)
  <2>1. "return" \in Loops \ {"Post"}
    BY DEF Loops
  <2> QED
    BY <2>1 DEF Says
<1>C. One(w.says) /\ w.says[1] \in Again[e] /\ <<w.to[1], w.to[2], e>> \in Works
        => Says(d, w, e)
  BY <1>2, <1>A, FollowTable
<1>D. One(w.says) /\ w.says[1] \in Finish[e] /\ w.to[1] \in {"Init", "WaitEnd"}
      /\ w.to[2] = "none" => Says(d, w, e)
  BY <1>2, <1>B, FollowTable
<1>3. w.says = <<"Error">> /\ w.to[1] \in {"Init", "WaitEnd"} /\ w.to[2] = "none"
        => Says(d, w, e)
  <2>1. w.says = <<"Error">> => One(w.says) /\ w.says[1] = "Error"
    BY SMT DEF One, Words
  <2> QED
    BY <1>2, <1>B, <2>1, FollowTable
<1>4. CASE w \in Calls
  <2>1. /\ e = "imagedisk" /\ w.says = <<"Opened">>
        /\ w.to[1] = "ImgDisk" /\ w.to[2] = "Read"
    BY SMT, <1>4 DEF Calls, Step, Works
  <2>2. "Opened" \in Again[e]
    BY <2>1 DEF Again
  <2>3. <<w.to[1], w.to[2], e>> \in Works
    BY <2>1 DEF Works
  <2> QED
    BY SMT, <1>C, <2>1, <2>2, <2>3 DEF Transferring, One, Words
<1>5. CASE w \in CallErrors
  <2>1. PICK c \in Calls : w = Step(c.from[1], c.from[2], <<"Error">>,
          IF c.from[1] = "TransferDone" THEN "WaitEnd" ELSE c.from[1], "none")
    BY <1>5 DEF CallErrors
  <2>2. w.from[1] = c.from[1] /\ w.from[2] = c.from[2]
    BY <2>1 DEF Step
  <2>3. c.from[1] = "Init"
    BY SMT, <2>2 DEF Calls, Step, Works
  <2>4. w.says = <<"Error">> /\ w.to[1] = "Init" /\ w.to[2] = "none"
    BY <2>1, <2>3 DEF Step
  <2> QED
    BY <1>3, <2>4 DEF Transferring
<1>6. CASE w \in Others
  <2>1. \/ /\ e = "wipe" /\ w.says \in {<<"FinalCopyStatus">>, <<"FinalCopyStatusDone">>}
           /\ w.to[1] = "Wipe" /\ w.to[2] \in {"Zero", "Format"}
        \/ e = "wipe" /\ w.says = <<"Wipe">> /\ w.to[1] = "WaitEnd" /\ w.to[2] = "none"
        \/ /\ e = "imagedisk" /\ w.says = <<"FinalCopyStatus">>
           /\ w.to[1] = "ImgDisk" /\ w.to[2] = "Read"
        \/ e = "imagedisk" /\ w.says = <<"ImgDisk">> /\ w.to[1] = "WaitEnd" /\ w.to[2] = "none"
    BY SMT, <1>6 DEF Others, Step, Works
  <2>2. /\ {"FinalCopyStatus", "FinalCopyStatusDone"} \subseteq Again["wipe"]
        /\ "Wipe" \in Finish["wipe"] /\ "ImgDisk" \in Finish["imagedisk"]
        /\ "FinalCopyStatus" \in Again["imagedisk"]
    BY DEF Again, Finish
  <2>3. CASE w.to[1] = "WaitEnd"
    <3>1. w.to[2] = "none" /\ One(w.says) /\ w.says[1] \in Finish[e]
      BY SMT, <2>1, <2>2, <2>3 DEF One, Words
    <3> QED
      BY <1>D, <2>3, <3>1 DEF Transferring
  <2>4. CASE w.to[1] # "WaitEnd"
    <3>1. One(w.says) /\ w.says[1] \in Again[e]
      BY SMT, <2>1, <2>2, <2>4 DEF One, Words
    <3>2. <<w.to[1], w.to[2], e>> \in Works
      BY <2>1, <2>4 DEF Works
    <3> QED
      BY <1>C, <2>1, <2>4, <3>1, <3>2 DEF Transferring
  <2> QED
    BY <2>3, <2>4
<1>7. CASE w \in Transfers(d)
  <2>1. CASE e = "Tar"
    <3>1. \/ /\ w.says \in {<<"CopyStart">>, <<"CopyStatus">>}
             /\ w.to[1] = "CopyFiles" /\ w.to[2] = "Tar"
          \/ /\ w.says \in {<<"NothingToCopy">>, <<"NotEnoughSpace">>}
             /\ w.to[1] = "WaitEnd" /\ w.to[2] = "none"
          \/ /\ w.says = <<"CopyStatusDone">> /\ d = "Usb"
             /\ w.to[1] = "WriteFiles" /\ w.to[2] = IF Analyzer THEN "Analyze" ELSE "Fs"
          \/ /\ w.says = <<"CopyStatusDone">> /\ d # "Usb"
             /\ w.to[1] = "UploadOrCmd" /\ w.to[2] = "Final"
      BY SMT, <1>7, <2>1 DEF Transfers, Step, Works, Possible
    <3>2. /\ {"CopyStart", "CopyStatus"} \subseteq Again["Tar"]
          /\ {"NothingToCopy", "NotEnoughSpace"} \subseteq Finish["Tar"]
      BY DEF Again, Finish
    <3>3. w.from[1] = "CopyFiles"
      BY <2>1 DEF Works
    <3>4. Follows(d, "Tar", "CopyStatusDone",
                  IF d # "Usb" THEN "Final" ELSE IF Analyzer THEN "Analyze" ELSE "Fs")
      BY DEF Follows
    <3> QED
      <4>1. One(w.says)
        BY SMT, <3>1 DEF One, Words
      <4>2. CASE w.says[1] \in {"CopyStart", "CopyStatus"}
        BY SMT, <1>C, <2>1, <3>1, <3>2, <3>3, <4>1, <4>2 DEF Works, Transferring
      <4>3. CASE w.says[1] \in {"NothingToCopy", "NotEnoughSpace"}
        BY SMT, <1>D, <2>1, <3>1, <3>2, <3>3, <4>1, <4>3 DEF Transferring
      <4>4. CASE w.says[1] = "CopyStatusDone"
        <5> DEFINE k == IF d # "Usb" THEN "Final" ELSE IF Analyzer THEN "Analyze" ELSE "Fs"
        <5>1. k \in Loops \ {"Post"} /\ <<w.to[1], w.to[2], k>> \in Works
          BY SMT, <3>1, <4>4, FollowTable DEF Works, Loops
        <5>2. Says(d, w, e)
          BY <1>A, <2>1, <3>4, <4>1, <4>4, <5>1
        <5> QED
          BY <3>1, <3>3, <4>4, <5>2 DEF Transferring
      <4> QED
        BY SMT, <3>1, <4>2, <4>3, <4>4
  <2>2. CASE e \in {"Analyze", "Fs"}
    <3>1. \/ /\ e = "Analyze" /\ w.says = <<"AnalyzeStatus">>
             /\ w.to[1] = "WriteFiles" /\ w.to[2] = "Analyze"
          \/ /\ e = "Analyze" /\ w.says = <<"AnalyzeDone">>
             /\ w.to[1] = "WriteFiles" /\ w.to[2] = "Fs"
          \/ /\ e = "Fs" /\ w.says = <<"NothingToCopy">>
             /\ w.to[1] = "WaitEnd" /\ w.to[2] = "none"
          \/ /\ e = "Fs" /\ w.says = <<"CopyStatus">>
             /\ w.to[1] = "WriteFiles" /\ w.to[2] = "Fs"
          \/ /\ e = "Fs" /\ w.says = <<"CopyStatusDone">>
             /\ w.to[1] = "WriteFiles" /\ w.to[2] = "Final"
      BY SMT, <1>7, <2>2 DEF Transfers, Step, Works
    <3>2. /\ "AnalyzeStatus" \in Again["Analyze"] /\ "CopyStatus" \in Again["Fs"]
          /\ "NothingToCopy" \in Finish["Fs"]
          /\ Follows(d, "Analyze", "AnalyzeDone", "Fs")
          /\ Follows(d, "Fs", "CopyStatusDone", "Final")
      BY DEF Again, Finish, Follows
    <3>3. w.from[1] = "WriteFiles"
      BY <2>2 DEF Works
    <3> QED
      <4>1. One(w.says)
        BY SMT, <3>1 DEF One, Words
      <4>2. CASE w.says[1] \in {"AnalyzeStatus", "CopyStatus"}
        BY SMT, <1>C, <3>1, <3>2, <3>3, <4>1, <4>2 DEF Works, Transferring
      <4>3. CASE w.says[1] = "NothingToCopy"
        BY SMT, <1>D, <3>1, <3>2, <3>3, <4>1, <4>3 DEF Transferring
      <4>4. CASE w.says[1] \in {"AnalyzeDone", "CopyStatusDone"}
        <5> DEFINE k == IF e = "Analyze" THEN "Fs" ELSE "Final"
        <5>1. /\ k \in Loops \ {"Post"} /\ <<w.to[1], w.to[2], k>> \in Works
              /\ Follows(d, e, w.says[1], k)
          BY SMT, <3>1, <3>2, <4>4, FollowTable DEF Works, Loops
        <5>2. Says(d, w, e)
          BY <1>A, <4>1, <5>1
        <5> QED
          BY <3>1, <3>3, <4>4, <5>2 DEF Transferring
      <4> QED
        BY SMT, <3>1, <4>2, <4>3, <4>4
  <2>3. CASE e = "Final"
    <3>1. \/ /\ w.says = <<"FinalCopyStatus">> /\ w.to[1] = w.from[1] /\ w.to[2] = "Final"
          \/ /\ w.says = <<"FinalCopyStatusDone", "CopyDone">>
             /\ w.to[1] = "TransferDone" /\ w.to[2] = "none"
      BY SMT, <1>7, <2>3 DEF Transfers, Step, Works, Possible
    <3>2. "FinalCopyStatus" \in Again["Final"]
      BY DEF Again
    <3>3. w.from[1] \in {"WriteFiles", "UploadOrCmd"}
      BY <2>3 DEF Works
    <3> QED
      <4>1. CASE w.says = <<"FinalCopyStatus">>
        BY SMT, <1>C, <2>3, <3>1, <3>2, <3>3, <4>1 DEF Works, Transferring, One,
           Words
      <4>2. CASE w.says = <<"FinalCopyStatusDone", "CopyDone">>
        BY SMT, <2>3, <3>1, <4>2 DEF Says, Transferring
      <4> QED
        BY <3>1, <4>1, <4>2
  <2>4. e \in {"Tar", "Analyze", "Fs", "Final"}
    BY SMT, <1>7 DEF Transfers, Step, Works
  <2> QED
    BY <2>1, <2>2, <2>3, <2>4
<1>8. CASE w \in Aborts(d)
  <2>1. w.says = <<"Error">> /\ w.to[1] = "WaitEnd" /\ w.to[2] = "none"
    BY SMT, <1>8 DEF Aborts, Step
  <2> QED
    BY <1>3, <2>1 DEF Transferring
<1>9. w \notin EndSteps
  BY SMT DEF EndSteps, Step, Works
<1> QED
  BY <1>1, <1>4, <1>5, <1>6, <1>7, <1>8, <1>9

---------------------------------------------------------------------------
(* Requests.                                                               *)
LEMMA AcceptTable ==
    ASSUME NEW a \in Accepts
    PROVE  /\ a[2] \in CallNames => a[3] = a[1] /\ a[4] = a[2]
           /\ a[2] = "CopyStart" => /\ a[1] = "PartitionOpened" /\ a[3] = "CopyFiles"
                                    /\ a[4] = "Select"
           /\ a[2] = "Wipe" => /\ a[1] = "Init" /\ a[3] = "Wipe"
                               /\ a[4] \in {"Zero", "Format"}
           /\ a[2] = "ImgDisk" => a[1] = "Init" /\ a[3] = "Init" /\ a[4] = "ImgDisk"
           /\ a[2] = "PostCopyCmd" => /\ a[1] = "TransferDone" /\ a[3] = "TransferDone"
                                      /\ a[4] = "PostCopyCmd"
  BY SMT DEF Accepts, CallNames

(* A reset finds usbsas ready to end, whatever it is waiting for.          *)
LEMMA EndAccepted ==
    ASSUME NEW s \in IdleStates
    PROVE  \E a \in Accepts : a[1] = s /\ a[2] = "End"
<1>1. <<s, "End", s, "End">> \in Accepts
  BY DEF Accepts, IdleStates
<1> QED
  BY <1>1

(* What a handler calls.                                                   *)
LEMMA HandlerCallsOf ==
    ASSUME HandlerInv, calls # <<>>
    PROVE  /\ Head(calls) \in CallNames
           /\ page # "none"
           /\ Head(calls) = "End" <=> page = "reset"
           /\ Head(calls) = "OpenDevice" <=> (page = "select" /\ calls = <<"OpenDevice">>)
           /\ Head(calls) = "OpenPartition" => page = "open"
           /\ page = "reset" => Tail(calls) = <<>>
           /\ page # "select" => Tail(calls) = <<>>
           /\ page = "select" => Tail(calls) \in {<<>>, <<"OpenDevice">>}
           /\ page = "select" /\ Head(calls) # "OpenDevice" => Tail(calls) # <<>>
<1>1. page \in DOMAIN Plan /\ page # "none"
  BY DEF HandlerInv
<1>2. \A m : <<m>> # <<>> /\ Head(<<m>>) = m /\ Tail(<<m>>) = <<>>
  BY SMT
<1>3. \A m, n : Head(<<m, n>>) = m /\ Tail(<<m, n>>) = <<n>>
  BY SMT
<1>4. CASE page = "select"
  <2>1. CASE calls = <<"Devices", "OpenDevice">>
    BY SMT, <1>2, <1>3, <1>4, <2>1 DEF CallNames
  <2>2. CASE calls = <<"OpenDevice">>
    BY <1>2, <1>4, <2>2 DEF CallNames
  <2> QED
    BY <1>4, <2>1, <2>2 DEF HandlerInv
<1>5. CASE page # "select"
  <2>1. calls = Plan[page]
    BY <1>1, <1>5 DEF HandlerInv
  <2>2. \/ page \in {"devices", "wipe", "imagedisk"} /\ calls = <<"Devices">>
        \/ page = "id" /\ calls = <<"Id">>
        \/ page = "partitions" /\ calls = <<"Partitions">>
        \/ page = "open" /\ calls = <<"OpenPartition">>
        \/ page = "read_dir" /\ calls = <<"ReadDir">>
        \/ page = "reset" /\ calls = <<"End">>
    BY SMT, <1>1, <1>5, <2>1 DEF Plan
  <2>3. Tail(calls) = <<>>
    BY <1>2, <2>2
  <2> QED
    BY <1>1, <1>2, <1>5, <2>2, <2>3 DEF CallNames
<1> QED
  BY <1>4, <1>5

---------------------------------------------------------------------------
(* Steps that none of the invariants looks at.                             *)
LEMMA Aside ==
    ASSUME ServerInv, UNCHANGED <<usbsas, pipes, comm, outDev, httpVars, selected, job, loop>>
    PROVE  ServerInv'
<1>1. UNCHANGED <<state, doing, dest, toUsbsas, fromUsbsas, comm, outDev, page, calls, choice,
                  selected, job, loop>>
  BY DEF usbsas, pipes, httpVars
<1>2. HandlerInv' /\ UsbsasInv' /\ ThreadInv' /\ SelectInv' /\ ChosenDestination'
  BY SMT, <1>1 DEF ServerInv, HandlerInv, UsbsasInv, ThreadInv, SelectInv,
     ChosenDestination
<1>3. Gone' = Gone /\ (FreeInv => FreeInv') /\ (CallInv => CallInv')
  BY <1>1 DEF FreeInv, CallInv, Responses, Gone
<1>4. JobInv => JobInv'
  BY <1>1 DEF JobInv, Serving, Asked, Gone
<1> QED
  BY <1>1, <1>2, <1>3, <1>4 DEF ServerInv, PipesInv

(* usbsas dies: what is in the pipes stays.                                *)
LEMMA DiesKeeps ==
    ASSUME ServerInv, UsbsasDies
    PROVE  ServerInv'
<1>1. doing' = "exit" /\ UNCHANGED <<state, dest, toUsbsas, fromUsbsas, comm, outDev, page, calls,
                                  choice, selected, job, loop>>
  BY DEF UsbsasDies, pipes, httpVars, jobVars
<1>2. Gone'
  BY <1>1 DEF Gone
<1>3. HandlerInv' /\ UsbsasInv' /\ ThreadInv' /\ SelectInv' /\ ChosenDestination'
  BY <1>1 DEF ServerInv, HandlerInv, UsbsasInv, ThreadInv, SelectInv,
     ChosenDestination
<1>4. comm = "none" => FreeInv'
  BY <1>1, <1>2 DEF ServerInv, PipesInv, FreeInv
<1>5. comm = "handler" => CallInv'
  BY <1>1, <1>2 DEF ServerInv, PipesInv, CallInv, Responses
<1>6. comm = "job" => JobInv'
  BY <1>1, <1>2 DEF ServerInv, PipesInv, JobInv
<1> QED
  BY <1>1, <1>3, <1>4, <1>5, <1>6 DEF ServerInv, PipesInv

---------------------------------------------------------------------------
(* The browser and the handlers.                                           *)

(* A handler that has calls left or right to make holds the mutex, or      *)
(* nobody's responses are in its way.                                      *)
LEMMA BrowseKeeps ==
    ASSUME ServerInv, NEW p \in Pages, Browse(p)
    PROVE  ServerInv'
<1>1. /\ page = "none" /\ page' = p /\ calls' = Plan[p] /\ p \in DOMAIN Plan
      /\ UNCHANGED <<state, doing, dest, toUsbsas, fromUsbsas, comm, outDev, selected, job, loop>>
      /\ p = "select" => choice' \in Destinations
      /\ p \in Jobs => job = "none"
  BY PagesArePlanned, TargetsAreDests DEF Browse, usbsas, pipes, jobVars
<1>2. calls = <<>> /\ comm # "handler"
  BY <1>1 DEF ServerInv, HandlerInv, PipesInv, CallInv
<1>3. p # "none" /\ (p = "select" => calls' = <<"Devices", "OpenDevice">> /\ calls' # <<>>)
  BY SMT, <1>1 DEF Plan
<1>4. HandlerInv'
  BY <1>1, <1>3 DEF HandlerInv
<1>5. UsbsasInv' /\ ThreadInv' /\ ChosenDestination'
  BY <1>1 DEF ServerInv, UsbsasInv, ThreadInv, ChosenDestination
<1>6. SelectInv'
  BY <1>1, <1>2, <1>3 DEF ServerInv, SelectInv
<1>7. FreeInv => FreeInv'
  BY <1>1 DEF FreeInv, Gone
<1>8. JobInv => JobInv'
  BY <1>1 DEF JobInv, Serving, Asked, Gone
<1> QED
  BY <1>1, <1>2, <1>4, <1>5, <1>6, <1>7, <1>8 DEF ServerInv, PipesInv

(* The response of a handler: it leaves nothing behind.                    *)
LEMMA AnswerKeeps ==
    ASSUME ServerInv, Answer, UNCHANGED <<state, doing, dest, outDev, selected, job, loop>>,
           calls # <<>>, comm' = "none", fromUsbsas' = <<>>,
           Gone \/ (toUsbsas' = <<>> /\ doing = "none"),
           comm = "handler" => fromUsbsas # <<"OpenDevice">>
    PROVE  ServerInv'
<1>1. page' = "none" /\ calls' = <<>> /\ choice' = "none"
  BY DEF Answer
<1>2. HandlerInv' /\ ChosenDestination'
  BY <1>1 DEF ServerInv, HandlerInv, ChosenDestination
<1>3. <<>> \in Seq(Words)
  BY SMT
<1>4. UsbsasInv' /\ ThreadInv'
  BY <1>1, <1>3 DEF ServerInv, UsbsasInv, ThreadInv, Jobs
<1>5. SelectInv'
  BY <1>1 DEF ServerInv, SelectInv
<1>6. PipesInv'
  BY DEF PipesInv, FreeInv, Gone
<1> QED
  BY <1>2, <1>4, <1>5, <1>6 DEF ServerInv

(* So does its refusal, before it asks anything.                           *)
LEMMA HandlerRefusesKeeps ==
    ASSUME ServerInv, HandlerRefuses
    PROVE  ServerInv'
<1>1. /\ page' = "none" /\ calls' = <<>> /\ comm # "handler"
      /\ UNCHANGED <<state, doing, dest, toUsbsas, fromUsbsas, comm, outDev, selected,
                     job, loop>>
  BY DEF HandlerRefuses, Answer, usbsas, pipes, jobVars
<1>2. page = "select" => calls # <<>>
  <2>1. page = "select" => calls \in {<<"Devices", "OpenDevice">>, <<"OpenDevice">>}
    BY SMT DEF HandlerRefuses, Refusals, Plan
  <2>2. <<"Devices", "OpenDevice">> # <<>> /\ <<"OpenDevice">> # <<>>
    BY SMT
  <2> QED
    BY <2>1, <2>2
<1>3. HandlerInv' /\ UsbsasInv' /\ ThreadInv' /\ ChosenDestination'
  BY <1>1 DEF ServerInv, HandlerInv, UsbsasInv, ThreadInv, ChosenDestination,
     Jobs
<1>4. SelectInv'
  BY <1>1, <1>2 DEF ServerInv, SelectInv
<1>5. FreeInv => FreeInv'
  BY <1>1 DEF FreeInv, Gone
<1>6. JobInv => JobInv'
  BY <1>1 DEF JobInv, Serving, Asked, Gone
<1> QED
  BY <1>1, <1>3, <1>4, <1>5, <1>6 DEF ServerInv, PipesInv

(* A handler takes the mutex and writes its request.                       *)
LEMMA CallsKeeps ==
    ASSUME ServerInv, HandlerCalls
    PROVE  ServerInv'
<1>1. /\ calls # <<>> /\ comm = "none" /\ FreeInv
      /\ UNCHANGED <<state, doing, dest, fromUsbsas, outDev, selected, job, loop>>
  BY DEF HandlerCalls, ServerInv, PipesInv, usbsas, jobVars
<1>2. CASE Gone /\ Answer /\ UNCHANGED <<comm, toUsbsas>>
  BY <1>1, <1>2, AnswerKeeps DEF FreeInv
<1>3. CASE ~Gone /\ comm' = "handler" /\ Asks(Head(calls), "Usb") /\ UNCHANGED httpVars
  <2>1. UNCHANGED <<page, calls, choice>>
    BY <1>3 DEF httpVars
  <2>2. HandlerInv' /\ UsbsasInv' /\ ThreadInv' /\ SelectInv' /\ ChosenDestination'
    BY <1>1, <1>3, <2>1 DEF ServerInv, HandlerInv, UsbsasInv, ThreadInv,
       SelectInv, ChosenDestination
  <2>3. fromUsbsas = <<>> /\ toUsbsas = <<>> /\ doing = "none"
    BY <1>1, <1>3 DEF FreeInv
  <2>4. toUsbsas' = <<[type |-> Head(calls), dest |-> "Usb"]>>
    BY SMT, <1>3, <2>3 DEF Asks
  <2>5. CallInv'
    BY <1>1, <2>1, <2>3, <2>4 DEF CallInv
  <2> QED
    BY <1>3, <2>2, <2>5 DEF ServerInv, PipesInv
<1> QED
  BY <1>2, <1>3 DEF HandlerCalls

(* A handler reads the response to it and gives the mutex back.            *)
LEMMA ReadsKeeps ==
    ASSUME ServerInv, HandlerReads
    PROVE  ServerInv'
<1>1. /\ calls # <<>> /\ comm = "handler" /\ CallInv /\ HandlerInv
      /\ UNCHANGED <<state, doing, dest, toUsbsas, outDev, selected, job, loop>>
  BY DEF HandlerReads, ServerInv, PipesInv, usbsas, jobVars
<1>2. CASE fromUsbsas = <<>> /\ Gone /\ Answer /\ comm' = "none" /\ UNCHANGED fromUsbsas
  <2>1. fromUsbsas # <<"OpenDevice">>
    BY <1>2
  <2> QED
    BY <1>1, <1>2, <2>1, AnswerKeeps
<1>3. ASSUME fromUsbsas # <<>>, fromUsbsas' = Tail(fromUsbsas)
      PROVE  /\ fromUsbsas' = <<>> /\ fromUsbsas \in Responses
             /\ Gone \/ (toUsbsas = <<>> /\ doing = "none" /\ page # "reset")
             /\ fromUsbsas = <<"OpenDevice">> => state = "DevOpened"
  <2>1. fromUsbsas \in Responses
    BY <1>1, <1>3 DEF CallInv
  <2>2. Tail(fromUsbsas) = <<>>
    <3>1. \A m : Tail(<<m>>) = <<>>
      BY SMT
    <3>2. fromUsbsas = <<Head(calls)>> \/ fromUsbsas = <<"Error">>
      BY <2>1 DEF Responses
    <3> QED
      BY <3>1, <3>2
  <2> QED
    BY <1>1, <1>3, <2>1, <2>2 DEF CallInv
<1>4. CASE /\ fromUsbsas # <<>> /\ fromUsbsas' = Tail(fromUsbsas)
           /\ Head(fromUsbsas) # Head(calls) /\ Answer /\ comm' = "none"
  <2>1. fromUsbsas # <<"OpenDevice">>
    BY SMT, <1>3, <1>4 DEF Responses
  <2> QED
    BY <1>1, <1>3, <1>4, <2>1, AnswerKeeps
<1>5. CASE /\ fromUsbsas # <<>> /\ fromUsbsas' = Tail(fromUsbsas)
           /\ Head(fromUsbsas) = Head(calls)
           /\ calls' = Tail(calls) /\ comm' = IF page = "reset" THEN comm ELSE "none"
           /\ UNCHANGED <<page, choice>>
  <2>1. fromUsbsas' = <<>> /\ (Gone \/ (toUsbsas = <<>> /\ doing = "none" /\ page # "reset"))
    BY <1>3, <1>5
  <2>2. HandlerInv'
    BY <1>1, <1>5, HandlerCallsOf DEF HandlerInv
  <2>3. <<>> \in Seq(Words)
    BY SMT
  <2>4. UsbsasInv' /\ ThreadInv' /\ ChosenDestination'
    BY <1>1, <1>5, <2>1, <2>3 DEF ServerInv, UsbsasInv, ThreadInv,
       ChosenDestination
  <2>5. page = "select" /\ Head(calls) = "OpenDevice" => state = "DevOpened"
    <3>1. fromUsbsas = <<Head(calls)>> \/ Head(calls) = "Error"
      BY SMT, <1>3, <1>5 DEF Responses
    <3> QED
      BY <1>3, <1>5, <3>1
  <2>6. page = "select" /\ calls' = <<>> => /\ state = "DevOpened" /\ doing \in {"none", "exit"}
                                           /\ fromUsbsas' = <<>>
    BY <1>1, <1>5, <2>1, <2>5, HandlerCallsOf DEF Gone
  <2>7. fromUsbsas = <<"OpenDevice">> /\ page = "select" => calls' = <<>>
    BY SMT, <1>1, <1>5, HandlerCallsOf
  <2>8. SelectInv'
    BY <1>1, <1>5, <2>6, <2>7 DEF ServerInv, SelectInv
  <2>9. CASE page = "reset"
    <3>1. CallInv'
      BY <1>1, <1>5, <2>1, <2>9, HandlerCallsOf DEF CallInv, Gone
    <3> QED
      BY <1>1, <1>5, <2>2, <2>4, <2>8, <2>9, <3>1 DEF ServerInv, PipesInv
  <2>10. CASE page # "reset"
    <3>1. FreeInv'
      BY <1>1, <2>1 DEF FreeInv, Gone
    <3> QED
      BY <1>1, <1>5, <2>2, <2>4, <2>8, <2>10, <3>1 DEF ServerInv, PipesInv
  <2> QED
    BY <2>9, <2>10
<1> QED
  BY <1>2, <1>4, <1>5 DEF HandlerReads

(* A handler whose calls are over returns.                                 *)
LEMMA EndsKeeps ==
    ASSUME ServerInv, HandlerEnds
    PROVE  ServerInv'
<1>1. /\ page \notin {"none", "reset"} /\ calls = <<>> /\ Answer
      /\ UNCHANGED <<state, doing, dest, toUsbsas, fromUsbsas, comm>>
      /\ page' = "none" /\ calls' = <<>>
  BY DEF HandlerEnds, usbsas, pipes, Answer
<1>2. comm # "handler" /\ UNCHANGED Gone /\ "none" \notin Jobs
  BY <1>1 DEF ServerInv, PipesInv, CallInv, Gone, Jobs
<1>3. HandlerInv'
  BY <1>1 DEF HandlerInv
<1>4. FreeInv => FreeInv'
  BY <1>1, <1>2 DEF FreeInv
<1>5. CASE page = "select" /\ outDev' = choice /\ selected' = choice /\ UNCHANGED jobVars
  <2>1. UNCHANGED <<job, loop>> /\ choice \in Destinations
    BY <1>5 DEF jobVars, ServerInv, HandlerInv
  <2>2. state \in {"DevOpened", "WaitEnd"} /\ fromUsbsas \in {<<>>, <<"Error">>}
    BY <1>1, <1>5 DEF ServerInv, SelectInv
  <2>3. UsbsasInv' /\ ThreadInv' /\ SelectInv' /\ ChosenDestination'
    BY <1>1, <1>2, <1>5, <2>1, <2>2 DEF ServerInv, UsbsasInv, ThreadInv,
       SelectInv, ChosenDestination
  <2>4. \A e : Serving(e) => Serving(e)'
    BY <1>1, <1>2, <2>2 DEF Serving, Asked
  <2>5. JobInv => JobInv'
    BY <1>1, <1>2, <2>1, <2>2, <2>4 DEF JobInv
  <2> QED
    BY <1>1, <1>2, <1>3, <1>4, <2>3, <2>5 DEF ServerInv, PipesInv
<1>6. ASSUME page # "select", UNCHANGED <<outDev, selected>>
      PROVE  /\ UsbsasInv' /\ SelectInv' /\ ChosenDestination'
             /\ JobInv /\ loop' = loop => JobInv'
  <2>1. UsbsasInv' /\ SelectInv' /\ ChosenDestination'
    BY <1>1, <1>2, <1>6 DEF ServerInv, UsbsasInv, SelectInv, ChosenDestination
  <2>2. JobInv /\ loop' = loop => JobInv'
    BY <1>1, <1>2, <1>6 DEF JobInv, Serving, Asked, Gone
  <2> QED
    BY <2>1, <2>2
<1>7. CASE page \in Jobs /\ job' = page /\ loop' = "start" /\ UNCHANGED <<outDev, selected>>
  <2>1. page # "select" /\ comm # "job"
    BY <1>7 DEF Jobs, ServerInv, ThreadInv
  <2>2. ThreadInv'
    BY <1>1, <1>2, <1>7, <2>1 DEF ThreadInv
  <2> QED
    BY <1>1, <1>2, <1>3, <1>4, <1>6, <1>7, <2>1, <2>2 DEF ServerInv, PipesInv
<1>8. CASE page \notin Jobs \cup {"select"} /\ UNCHANGED <<outDev, selected, jobVars>>
  <2>1. UNCHANGED <<job, loop>>
    BY <1>8 DEF jobVars
  <2>2. ThreadInv'
    BY <1>1, <1>2, <2>1 DEF ServerInv, ThreadInv
  <2> QED
    BY <1>1, <1>2, <1>3, <1>4, <1>6, <1>8, <2>1, <2>2 DEF ServerInv, PipesInv
<1> QED
  BY <1>5, <1>7, <1>8 DEF HandlerEnds

(* A reset starts a new usbsas, with new pipes.                            *)
LEMMA RestartKeeps ==
    ASSUME ServerInv, ResetRestarts
    PROVE  ServerInv'
<1>1. /\ state' = "Init" /\ doing' = "none" /\ dest' = "Usb" /\ toUsbsas' = <<>>
      /\ fromUsbsas' = <<>> /\ comm' = "none" /\ page' = "none" /\ calls' = <<>>
      /\ UNCHANGED <<outDev, job, loop>>
  BY DEF ResetRestarts, Answer, jobVars
<1>2. <<>> \in Seq(Words)
  BY SMT
<1>3. HandlerInv' /\ UsbsasInv' /\ SelectInv' /\ ChosenDestination'
  BY <1>1, <1>2 DEF ServerInv, HandlerInv, UsbsasInv, SelectInv,
     ChosenDestination, Destinations, IdleStates
<1>4. PipesInv' /\ ThreadInv'
  BY <1>1 DEF ServerInv, PipesInv, FreeInv, ThreadInv, Jobs
<1> QED
  BY <1>3, <1>4 DEF ServerInv

(* A reset that fails leaves the pipes of a usbsas that is gone.           *)
LEMMA ResetFailsKeeps ==
    ASSUME ServerInv, ResetFails
    PROVE  ServerInv'
<1>1. /\ page = "reset" /\ calls = <<>> /\ comm = "handler" /\ Gone
      /\ comm' = "none" /\ page' = "none" /\ calls' = <<>>
      /\ UNCHANGED <<state, doing, dest, toUsbsas, fromUsbsas, outDev, selected, job, loop>>
  BY DEF ResetFails, Answer, usbsas, pipes, jobVars
<1>2. fromUsbsas = <<>>
  BY <1>1 DEF ServerInv, PipesInv, CallInv
<1>3. HandlerInv' /\ UsbsasInv' /\ ThreadInv' /\ ChosenDestination'
  BY <1>1 DEF ServerInv, HandlerInv, UsbsasInv, ThreadInv, ChosenDestination,
     Jobs
<1>4. SelectInv' /\ FreeInv'
  BY <1>1, <1>2 DEF ServerInv, SelectInv, FreeInv, Gone
<1> QED
  BY <1>1, <1>3, <1>4 DEF ServerInv, PipesInv

---------------------------------------------------------------------------
(* The thread of a transfer.                                               *)

(* It returns: if it holds the mutex, nothing is left in the pipes.        *)
LEMMA JobEndsKeeps ==
    ASSUME ServerInv, JobEnds,
           UNCHANGED <<state, doing, dest, toUsbsas, outDev, page, calls, choice, selected>>,
           IF comm = "job" THEN /\ fromUsbsas' = <<>>
                                /\ Gone \/ (toUsbsas = <<>> /\ doing = "none")
                           ELSE UNCHANGED fromUsbsas
    PROVE  ServerInv'
<1>1. job' = "none" /\ loop' = "none" /\ comm' = IF comm = "job" THEN "none" ELSE comm
  BY DEF JobEnds
<1>2. HandlerInv' /\ ChosenDestination' /\ ThreadInv' /\ (Gone => Gone')
  BY <1>1 DEF ServerInv, HandlerInv, ChosenDestination, ThreadInv, Gone,
     PipesInv
<1>3. <<>> \in Seq(Words)
  BY SMT
<1>4. UsbsasInv' /\ SelectInv'
  BY <1>1, <1>3 DEF ServerInv, UsbsasInv, SelectInv
<1>5. CASE comm = "job"
  <2>1. FreeInv'
    BY <1>2, <1>5 DEF FreeInv
  <2> QED
    BY <1>1, <1>2, <1>4, <1>5, <2>1 DEF ServerInv, PipesInv
<1>6. CASE comm # "job"
  <2>1. (FreeInv => FreeInv') /\ (CallInv => CallInv')
    BY <1>2, <1>6 DEF FreeInv, CallInv, Responses, Gone
  <2> QED
    BY <1>1, <1>2, <1>4, <1>6, <2>1 DEF ServerInv, PipesInv
<1> QED
  BY <1>5, <1>6

(* It holds the mutex from its first request on.                           *)
LEMMA HoldersLoop ==
    ASSUME ServerInv, comm = "job"
    PROVE  JobInv /\ loop \in Loops /\ loop \notin {"start", "lock", "none"}
<1>1. PICK e \in Loops : Leads(dest, loop, fromUsbsas, e)
  BY DEF ServerInv, PipesInv, JobInv
<1>2. loop \in Loops
  <2>1. PICK p \in [1..(Len(fromUsbsas) + 1) -> Loops] : p[1] = loop
    BY <1>1 DEF Leads
  <2>2. 1 \in 1..(Len(fromUsbsas) + 1)
    BY SMT DEF ServerInv, UsbsasInv
  <2> QED
    BY <2>1, <2>2
<1> QED
  BY <1>2, FollowTable DEF ServerInv, PipesInv, Loops

(* What the thread does before it takes the mutex.                         *)
LEMMA BeforeKeeps ==
    ASSUME ServerInv, JobRefused \/ JobAnnounces
    PROVE  ServerInv'
<1>1. /\ loop = "start" /\ UNCHANGED <<state, doing, dest, toUsbsas, fromUsbsas, outDev, page,
                                      calls, choice, selected>>
  BY DEF JobRefused, JobAnnounces, usbsas, pipes, httpVars
<1>2. comm # "job"
  BY <1>1, HoldersLoop
<1>3. CASE JobEnds
  BY <1>1, <1>2, <1>3, JobEndsKeeps
<1>4. CASE Reports(<<"progress">>, "return") \/ Reports(<<"progress">>, "lock")
  <2>1. UNCHANGED <<job, comm>>
    BY <1>4 DEF Reports
  <2>2. HandlerInv' /\ UsbsasInv' /\ ThreadInv' /\ SelectInv' /\ ChosenDestination'
    BY <1>1, <1>2, <2>1 DEF ServerInv, HandlerInv, UsbsasInv, ThreadInv,
       SelectInv, ChosenDestination
  <2>3. (FreeInv => FreeInv') /\ (CallInv => CallInv')
    BY <1>1 DEF FreeInv, CallInv, Responses, Gone
  <2> QED
    BY <1>2, <2>1, <2>2, <2>3 DEF ServerInv, PipesInv
<1> QED
  BY <1>3, <1>4 DEF JobRefused, JobAnnounces

(* The thread of a transfer takes the mutex and writes its request.        *)
LEMMA StartsKeeps ==
    ASSUME ServerInv, JobStarts
    PROVE  ServerInv'
<1>1. /\ loop \in {"start", "lock"} /\ comm = "none" /\ FreeInv /\ comm' = "job"
      /\ UNCHANGED job
      /\ UNCHANGED <<state, doing, dest, fromUsbsas, outDev, page, calls, choice, selected>>
  BY DEF JobStarts, usbsas, httpVars, ServerInv, PipesInv
<1>2. fromUsbsas = <<>> /\ (Gone \/ (toUsbsas = <<>> /\ doing = "none"))
  BY <1>1 DEF FreeInv
<1>3. HandlerInv' /\ UsbsasInv' /\ ThreadInv' /\ SelectInv' /\ ChosenDestination'
  BY <1>1 DEF ServerInv, HandlerInv, UsbsasInv, ThreadInv, SelectInv,
     ChosenDestination
<1>4. SUFFICES JobInv'
  BY <1>1, <1>3 DEF ServerInv, PipesInv
<1>5. \A l \in Loops : Leads(dest', l, fromUsbsas', l)
  BY <1>1, <1>2, LeadsNothing
<1>6. CASE ~Gone /\ job = "copy" /\ outDev # "none" /\ Asks("CopyStart", outDev) /\ loop' = "Tar"
  <2>0. toUsbsas = <<>> /\ doing = "none"
    BY <1>2, <1>6
  <2>1. toUsbsas' = <<[type |-> "CopyStart", dest |-> outDev]>> /\ doing = "none"
    BY SMT, <1>6, <2>0 DEF Asks
  <2>2. outDev \in Destinations /\ state # "CopyFiles" /\ "Tar" \in Loops
    BY <1>6, <2>1, FollowTable DEF ServerInv, UsbsasInv, IdleStates, Loops
  <2>3. Asked("Tar")'
    BY <1>1, <1>2, <2>1, <2>2 DEF Asked
  <2> QED
    BY <1>1, <1>2, <1>5, <1>6, <2>2, <2>3 DEF JobInv, Serving
<1>7. CASE /\ ~Gone /\ job \in {"wipe", "imagedisk"} /\ loop' = job
           /\ Asks(IF job = "wipe" THEN "Wipe" ELSE "ImgDisk", "Usb")
  <2>1. /\ doing = "none" /\ loop' \in Loops /\ loop' # "Tar"
        /\ toUsbsas' = <<[type |-> IF job = "wipe" THEN "Wipe" ELSE "ImgDisk", dest |-> "Usb"]>>
    <3>1. toUsbsas = <<>> /\ doing = "none"
      BY <1>2, <1>7
    <3>2. toUsbsas' = <<[type |-> IF job = "wipe" THEN "Wipe" ELSE "ImgDisk", dest |-> "Usb"]>>
      BY SMT, <1>7, <3>1 DEF Asks
    <3> QED
      BY <1>7, <3>1, <3>2, FollowTable DEF Loops
  <2>2. Asked(loop)'
    BY <1>1, <1>2, <1>7, <2>1 DEF Asked
  <2> QED
    BY <1>5, <2>1, <2>2 DEF JobInv, Serving
<1>8. CASE loop' = "return" /\ UNCHANGED toUsbsas
  <2>1. "return" \in Loops /\ (Gone' \/ Serving("return")')
    BY <1>1, <1>2, <1>8 DEF Loops, Serving, Gone
  <2> QED
    BY <1>5, <1>8, <2>1 DEF JobInv
<1> QED
  BY <1>6, <1>7, <1>8 DEF JobStarts

(* A thread that returns has read everything.                              *)
LEMMA ReturnIsLast ==
    ASSUME NEW d, NEW s \in Seq(Words), NEW e, Leads(d, "return", s, e)
    PROVE  s = <<>> /\ e = "return"
<1>1. ASSUME NEW m, NEW k, Follows(d, "return", m, k) PROVE FALSE
  BY <1>1, FollowTable DEF Follows
<1>2. s = <<>>
  BY <1>1, LeadsOn
<1> QED
  BY SMT, <1>2, LeadsNowhere

(* An error is the last response in the first loop.                        *)
LEMMA ErrorIsLast ==
    ASSUME NEW d, NEW e, Leads(d, "Tar", <<"Error">>, e)
    PROVE  e = "return"
<1>1. /\ <<"Error">> \in Seq(Words) /\ <<"Error">> # <<>> /\ Head(<<"Error">>) = "Error"
      /\ Tail(<<"Error">>) = <<>>
  <2>1. "Error" \in Words
    BY DEF Words
  <2>2. \A m \in Words : /\ <<m>> \in Seq(Words) /\ <<m>> # <<>> /\ Head(<<m>>) = m
                         /\ Tail(<<m>>) = <<>>
    BY SMT
  <2> QED
    BY <2>1, <2>2
<1>2. PICK k \in Loops : Follows(d, "Tar", "Error", k) /\ Leads(d, k, <<>>, e)
  BY <1>1, LeadsOn
<1>3. k = "return"
  BY <1>2 DEF Follows, Again
<1> QED
  BY SMT, <1>2, <1>3, LeadsNowhere

(* usbsas is gone and has left no response to read.                        *)
LEMMA EofKeeps ==
    ASSUME ServerInv, JobEof
    PROVE  ServerInv'
<1>1. /\ Gone /\ fromUsbsas = <<>> /\ comm = "job" /\ JobEnds
      /\ UNCHANGED <<state, doing, dest, toUsbsas, fromUsbsas, outDev, page, calls, choice,
                     selected>>
  BY DEF JobEof, usbsas, pipes, httpVars
<1> QED
  BY <1>1, JobEndsKeeps

(* The thread has read the last response, and returns.                     *)
LEMMA ReturnsKeeps ==
    ASSUME ServerInv, JobReturns
    PROVE  ServerInv'
<1>1. /\ loop = "return" /\ JobEnds
      /\ UNCHANGED <<state, doing, dest, toUsbsas, fromUsbsas, outDev, page, calls, choice,
                     selected>>
  BY DEF JobReturns, usbsas, pipes, httpVars
<1>2. CASE comm = "job"
  <2>1. PICK e \in Loops : Leads(dest, "return", fromUsbsas, e) /\ (Gone \/ Serving(e))
    BY <1>1, <1>2 DEF ServerInv, PipesInv, JobInv
  <2>2. fromUsbsas = <<>> /\ e = "return"
    BY <2>1, ReturnIsLast DEF ServerInv, UsbsasInv
  <2>3. Gone \/ (toUsbsas = <<>> /\ doing = "none")
    BY <2>1, <2>2 DEF Serving, Asked, Works
  <2> QED
    BY <1>1, <1>2, <2>2, <2>3, JobEndsKeeps
<1> QED
  BY <1>1, <1>2, JobEndsKeeps

(* A response has one consequence.                                         *)
LEMMA FollowsOne ==
    ASSUME NEW d, NEW l \in DOMAIN Again, NEW m, NEW k, Follows(d, l, m, k)
    PROVE  /\ m \in Again[l] => k = l
           /\ m \in Finish[l] => k = "return"
           /\ m \in Onward[l] =>
                 k = CASE l = "Tar" -> (IF d # "Usb" THEN "Final"
                                        ELSE IF Analyzer THEN "Analyze" ELSE "Fs")
                       [] l = "Analyze" -> "Fs"
                       [] l = "Fs" -> "Final"
                       [] l = "Final" -> (IF PostCopy THEN "Post" ELSE "return")
           /\ m \in Onward[l] => l \in {"Tar", "Analyze", "Fs", "Final"}
           /\ m \notin Again[l] \cup Onward[l] \cup Finish[l] =>
                 l = "Post" /\ m = "Error" /\ k = "return"
           /\ k = "Tar" => l = "Tar"
           /\ k = "Post" => l = "Final" /\ m = "CopyDone"
<1>1. l \in {"Tar", "Analyze", "Fs", "Final", "Post", "wipe", "imagedisk"}
  BY FollowTable
<1> QED
  BY SMT, <1>1 DEF Follows, Again, Onward, Finish

(* The thread reads a response and goes on in loop k.                      *)
LEMMA GoesOn ==
    ASSUME ServerInv, comm = "job", UNCHANGED <<comm, job>>, fromUsbsas # <<>>,
           fromUsbsas' = Tail(fromUsbsas),
           UNCHANGED <<state, doing, dest, outDev, page, calls, choice, selected>>,
           NEW e \in Loops, Gone \/ Serving(e), Leads(dest, loop', fromUsbsas', e),
           loop' = "Tar" => loop = "Tar",
           \/ loop' # "Post" /\ UNCHANGED toUsbsas
           \/ loop' = "Post" /\ fromUsbsas' = <<>> /\ Asks("PostCopyCmd", "Usb")
    PROVE  ServerInv'
<1>1. /\ fromUsbsas' \in Seq(Words)
      /\ fromUsbsas = <<"Error">> => fromUsbsas' = <<>>
  <2>1. \A m : Tail(<<m>>) = <<>>
    BY SMT
  <2>2. Tail(fromUsbsas) \in Seq(Words)
    BY SMT DEF ServerInv, UsbsasInv
  <2> QED
    BY <2>1, <2>2
<1>2. HandlerInv' /\ UsbsasInv' /\ ChosenDestination'
  BY <1>1 DEF ServerInv, HandlerInv, UsbsasInv, ChosenDestination
<1>3. ThreadInv' /\ SelectInv'
  BY <1>1 DEF ServerInv, ThreadInv, SelectInv
<1>4. loop' = "Tar" => \/ outDev = dest
                       \/ fromUsbsas' \in {<<>>, <<"Error">>} /\ state # "CopyFiles"
  BY <1>1 DEF ServerInv, PipesInv, JobInv
<1>5. ASSUME fromUsbsas' = <<>> PROVE loop' = e
  <2>1. Leads(dest, loop', <<>>, e)
    BY <1>5
  <2> QED
    BY <2>1, LeadsNowhere
<1>6. Gone' \/ Serving(e)'
  <2>1. CASE Gone
    BY <2>1 DEF Gone
  <2>2. CASE Serving(e) /\ loop' # "Post"
    <3>1. e = "Post" => fromUsbsas' # <<>>
      BY <1>5, <2>2
    <3> QED
      BY <2>2, <3>1 DEF Serving, Asked
  <2>3. CASE Serving(e) /\ loop' = "Post"
    <3>1. e = "Post"
      BY <1>5, <2>3
    <3>2. toUsbsas = <<>> /\ state = "TransferDone" /\ doing = "none"
      BY <2>3, <3>1 DEF Serving, Asked, Works
    <3>3. toUsbsas' = <<[type |-> "PostCopyCmd", dest |-> "Usb"]>>
      BY SMT, <2>3, <3>2 DEF Asks
    <3> QED
      BY <2>3, <3>1, <3>2, <3>3 DEF Serving, Asked
  <2> QED
    BY <2>1, <2>2, <2>3
<1>7. JobInv'
  BY <1>4, <1>6 DEF JobInv
<1> QED
  BY <1>2, <1>3, <1>7 DEF ServerInv, PipesInv

(* The thread reads a response.                                            *)
LEMMA JobReadsKeeps ==
    ASSUME ServerInv, JobReads
    PROVE  ServerInv'
<1> DEFINE m == Head(fromUsbsas)
<1>1. /\ comm = "job" /\ JobInv /\ loop \in DOMAIN Again /\ fromUsbsas # <<>>
      /\ fromUsbsas' = Tail(fromUsbsas) /\ fromUsbsas \in Seq(Words)
      /\ UNCHANGED <<state, doing, dest, outDev, page, calls, choice, selected>>
  BY DEF JobReads, usbsas, httpVars, ServerInv, PipesInv, UsbsasInv
<1>2. PICK e \in Loops : Leads(dest, loop, fromUsbsas, e) /\ (Gone \/ Serving(e))
  BY <1>1 DEF JobInv
<1>3. PICK k \in Loops : /\ Follows(dest, loop, m, k) /\ Leads(dest, k, Tail(fromUsbsas), e)
                         /\ Tail(fromUsbsas) # <<>> => k # "Post"
  BY <1>1, <1>2, LeadsOn
<1>4. loop = "Tar" /\ m \in Onward["Tar"] => outDev = dest
  <2>1. "Error" \notin Onward["Tar"] /\ \A n : Head(<<n>>) = n
    BY SMT DEF Onward
  <2> QED
    BY <1>1, <2>1 DEF JobInv
<1> HIDE DEF m
<1>5. ASSUME UNCHANGED <<comm, job>>, loop' = k, k # "Post", UNCHANGED toUsbsas
      PROVE  ServerInv'
  BY <1>1, <1>2, <1>3, <1>5, GoesOn, FollowsOne
<1>6. CASE m \in Again[loop] /\ Reports(<<"progress">>, loop) /\ UNCHANGED toUsbsas
  <2>1. k = loop /\ loop' = loop /\ UNCHANGED <<comm, job>>
    BY SMT, <1>1, <1>3, <1>6, FollowsOne DEF Reports
  <2>2. k # "Post"
    BY <1>1, <1>3, <1>6, <2>1, FollowsOne
  <2> QED
    BY <1>5, <1>6, <2>1, <2>2
<1>7. CASE m \in Finish[loop] /\ Finishes /\ UNCHANGED toUsbsas
  <2>1. k = "return" /\ loop' = "return" /\ UNCHANGED <<comm, job>>
    BY <1>1, <1>3, <1>7, FollowsOne DEF Finishes, Reports
  <2> QED
    BY <1>5, <1>7, <2>1
<1>8. CASE /\ m \in Onward[loop] /\ NextLoop # "Post" /\ Reports(<<"progress">>, NextLoop)
           /\ UNCHANGED toUsbsas
  <2>1. loop \in {"Tar", "Analyze", "Fs"} /\ k = NextLoop
    BY SMT, <1>1, <1>3, <1>4, <1>8, FollowsOne DEF NextLoop
  <2>2. loop' = k /\ UNCHANGED <<comm, job>>
    BY <1>8, <2>1 DEF Reports
  <2> QED
    BY <1>5, <1>8, <2>1, <2>2
<1>9. CASE /\ m \in Onward[loop] /\ NextLoop = "Post"
           /\ IF PostCopy THEN Reports(<<"progress">>, "Post") /\ Asks("PostCopyCmd", "Usb")
                          ELSE Finishes /\ UNCHANGED toUsbsas
  <2>1. loop = "Final" /\ k = IF PostCopy THEN "Post" ELSE "return"
    BY <1>1, <1>3, <1>9, FollowsOne DEF NextLoop
  <2>2. CASE PostCopy
    <3>1. /\ loop' = "Post" /\ k = "Post" /\ fromUsbsas' = <<>> /\ UNCHANGED <<comm, job>>
          /\ Asks("PostCopyCmd", "Usb")
      BY <1>1, <1>3, <1>9, <2>1, <2>2 DEF Reports
    <3> QED
      BY <1>1, <1>2, <1>3, <3>1, GoesOn
  <2>3. CASE ~PostCopy
    <3>1. loop' = "return" /\ k = "return" /\ UNCHANGED <<comm, job, toUsbsas>>
      BY <1>9, <2>1, <2>3 DEF Finishes, Reports
    <3> QED
      BY <1>5, <3>1
  <2> QED
    BY <2>2, <2>3
<1>10. ASSUME k = "return", JobEnds, UNCHANGED toUsbsas PROVE ServerInv'
  <2>1. Tail(fromUsbsas) \in Seq(Words)
    BY SMT, <1>1
  <2>2. fromUsbsas' = <<>> /\ e = "return"
    BY <1>1, <1>3, <1>10, <2>1, ReturnIsLast
  <2>3. Gone \/ (toUsbsas = <<>> /\ doing = "none")
    BY <1>2, <2>2 DEF Serving, Asked, Works
  <2> QED
    BY <1>1, <1>10, <2>2, <2>3, JobEndsKeeps
<1>11. CASE m = "ImgDisk" /\ loop = "imagedisk" /\ JobEnds /\ UNCHANGED toUsbsas
  <2>1. m \in Finish[loop]
    BY <1>11 DEF Finish
  <2> QED
    BY <1>1, <1>3, <1>10, <1>11, <2>1, FollowsOne
<1>12. CASE /\ m \notin Again[loop] \cup Onward[loop] \cup Finish[loop]
            /\ IF loop = "Post" THEN JobEnds ELSE Finishes
            /\ UNCHANGED toUsbsas
  <2>1. loop = "Post" /\ k = "return"
    BY <1>1, <1>3, <1>12, FollowsOne
  <2> QED
    BY <1>10, <1>12, <2>1
<1> QED
  BY <1>6, <1>7, <1>8, <1>9, <1>11, <1>12 DEF JobReads, m

---------------------------------------------------------------------------
(* usbsas.                                                                 *)
LEMMA TakesKeeps ==
    ASSUME ServerInv, UsbsasTakes
    PROVE  ServerInv'
<1> DEFINE q == Head(toUsbsas)
           Taken == /\ \E a \in Accepts : a[2] = q.type /\ Take(a, q.dest)
                    /\ UNCHANGED fromUsbsas
           Refused == /\ \A a \in Accepts : a[1] = state => a[2] # q.type
                      /\ Refuse
                      /\ fromUsbsas' = Append(fromUsbsas, "Error")
<1>1. /\ toUsbsas # <<>> /\ doing = "none" /\ toUsbsas' = Tail(toUsbsas) /\ (Taken \/ Refused)
      /\ UNCHANGED <<comm, outDev, page, calls, choice, selected, job, loop>>
      /\ state \in IdleStates
  BY DEF UsbsasTakes, httpVars, jobVars, ServerInv, UsbsasInv
<1>2. /\ \A x : Head(<<x>>) = x /\ Tail(<<x>>) = <<>>
      /\ Append(<<>>, "Error") = <<"Error">> /\ <<"Error">> \in Seq(Words)
  <2>1. "Error" \in Words
    BY DEF Words
  <2> QED
    BY SMT, <2>1
<1>3. HandlerInv' /\ ThreadInv'
  BY <1>1 DEF ServerInv, HandlerInv, ThreadInv
<1>4. Refused => state' \in {state, "WaitEnd"} /\ UNCHANGED <<doing, dest>>
  BY DEF Refuse
<1>5. comm # "none"
  BY <1>1 DEF ServerInv, PipesInv, FreeInv, Gone
<1>6. CASE comm = "handler"
  <2>1. /\ toUsbsas = <<[type |-> Head(calls), dest |-> "Usb"]>>
        /\ fromUsbsas = <<>> /\ calls # <<>>
    BY <1>1, <1>6 DEF ServerInv, PipesInv, CallInv, Gone
  <2>2. q.type = Head(calls) /\ toUsbsas' = <<>>
    BY SMT, <1>1, <1>2, <2>1
  <2>3. Head(calls) \in CallNames /\ (Head(calls) = "End" <=> page = "reset")
    BY <2>1, HandlerCallsOf DEF ServerInv
  <2> HIDE DEF q
  <2>4. CASE Taken
    <3>1. PICK a \in Accepts : a[2] = Head(calls) /\ Take(a, q.dest)
      BY <2>2, <2>4
    <3>2. a[3] = a[1] /\ a[4] = Head(calls) /\ a[2] # "CopyStart"
      BY <2>3, <3>1, AcceptTable DEF CallNames
    <3>3. /\ state' = state /\ doing' = Head(calls) /\ dest' = dest /\ doing' # "none"
          /\ fromUsbsas' = <<>>
      BY <2>1, <2>3, <2>4, <3>1, <3>2 DEF Take, CallNames
    <3>4. UsbsasInv' /\ SelectInv' /\ ChosenDestination'
      BY <1>1, <2>1, <3>3 DEF ServerInv, UsbsasInv, SelectInv, ChosenDestination
    <3>5. CallInv'
      BY <1>1, <2>1, <2>2, <3>3 DEF CallInv
    <3> QED
      BY <1>1, <1>3, <1>6, <3>4, <3>5 DEF ServerInv, PipesInv
  <2>5. CASE Refused
    <3>1. page # "reset"
      BY SMT, <1>1, <2>2, <2>3, <2>5, EndAccepted
    <3>2. fromUsbsas' = <<"Error">> /\ fromUsbsas' # <<"OpenDevice">> /\ fromUsbsas' # <<>>
      BY SMT, <1>2, <2>1, <2>5
    <3>3. UsbsasInv' /\ ChosenDestination'
      BY <1>1, <1>2, <1>4, <2>5, <3>2 DEF ServerInv, UsbsasInv,
         ChosenDestination, IdleStates
    <3>4. SelectInv'
      BY <1>1, <1>4, <2>1, <2>5, <3>2 DEF ServerInv, SelectInv
    <3>5. CallInv'
      BY <1>1, <1>4, <2>1, <2>2, <2>5, <3>1, <3>2 DEF CallInv, Responses
    <3> QED
      BY <1>1, <1>3, <1>6, <3>3, <3>4, <3>5 DEF ServerInv, PipesInv
  <2> QED
    BY <1>1, <2>4, <2>5
<1>7. CASE comm = "job"
  <2>1. PICK e \in Loops : Leads(dest, loop, fromUsbsas, e) /\ Serving(e)
    BY <1>1, <1>7 DEF ServerInv, PipesInv, JobInv, Gone
  <2>2. Asked(e)
    BY <1>1, <2>1 DEF Serving
  <2>3. loop = e /\ fromUsbsas = <<>>
    BY <2>1, <2>2, LeadsNowhere DEF Asked
  <2>4. /\ toUsbsas' = <<>>
        /\ q.type \in {"CopyStart", "Wipe", "ImgDisk", "PostCopyCmd"}
        /\ q.type = "CopyStart" => /\ e = "Tar" /\ q.dest \in Destinations
                                   /\ q.dest = outDev \/ state \in {"DevOpened", "WaitEnd"}
        /\ q.type = "Wipe" => e = "wipe"
        /\ q.type = "ImgDisk" => e = "imagedisk"
        /\ q.type = "PostCopyCmd" => e = "Post"
    <3>1. PICK x : toUsbsas = <<x>>
      BY <2>2 DEF Asked
    <3>2. q = x /\ toUsbsas' = <<>> /\ \A y, z : <<y>> = <<z>> => y = z
      BY <1>1, <1>2, <3>1
    <3> HIDE DEF q
    <3>3. /\ x.type \in {"CopyStart", "Wipe", "ImgDisk", "PostCopyCmd"}
          /\ x.type = "CopyStart" => /\ e = "Tar" /\ x.dest \in Destinations
                                     /\ x.dest = outDev \/ state \in {"DevOpened", "WaitEnd"}
          /\ x.type = "Wipe" => e = "wipe"
          /\ x.type = "ImgDisk" => e = "imagedisk"
          /\ x.type = "PostCopyCmd" => e = "Post"
      BY SMT, <2>2, <3>1, <3>2 DEF Asked
    <3> QED
      BY <3>2, <3>3
  <2> HIDE DEF q
  <2>5. CASE Taken
    <3>1. PICK a \in Accepts : a[2] = q.type /\ Take(a, q.dest)
      BY <2>5
    <3>2. /\ state = a[1] /\ state' = a[3] /\ doing' = a[4]
          /\ dest' = IF q.type = "CopyStart" THEN q.dest ELSE dest
      BY <3>1 DEF Take
    <3>3. \/ /\ e = "Tar" /\ state = "PartitionOpened" /\ dest' = outDev /\ dest' \in Destinations
             /\ state' = "CopyFiles" /\ doing' = "Select"
          \/ /\ e = "wipe" /\ state = "Init" /\ dest' = dest
             /\ state' = "Wipe" /\ doing' \in {"Zero", "Format"}
          \/ /\ e = "imagedisk" /\ state = "Init" /\ dest' = dest
             /\ state' = "Init" /\ doing' = "ImgDisk"
          \/ /\ e = "Post" /\ state = "TransferDone" /\ dest' = dest
             /\ state' = "TransferDone" /\ doing' = "PostCopyCmd"
      BY <2>4, <3>1, <3>2, AcceptTable
    <3>4. fromUsbsas' = <<>>
      BY <2>3, <2>5
    <3>5. UsbsasInv' /\ SelectInv' /\ ChosenDestination'
      BY <1>1, <2>3, <3>3, <3>4 DEF ServerInv, UsbsasInv, SelectInv,
         ChosenDestination
    <3>6. Serving(e)'
      BY <2>4, <3>3, <3>4 DEF Serving, Works
    <3>7. Leads(dest', loop', fromUsbsas', e)
      BY <1>1, <2>3, <3>4, LeadsNothing
    <3>8. JobInv'
      BY <1>1, <2>3, <3>3, <3>4, <3>6, <3>7 DEF JobInv
    <3> QED
      BY <1>1, <1>3, <1>7, <3>5, <3>8 DEF ServerInv, PipesInv
  <2>6. CASE Refused
    <3>1. fromUsbsas' = <<"Error">>
      BY <1>2, <2>3, <2>6
    <3>2. UsbsasInv' /\ SelectInv' /\ ChosenDestination'
      BY <1>1, <1>2, <1>4, <1>7, <2>6, <3>1 DEF ServerInv, UsbsasInv, SelectInv,
         ChosenDestination, IdleStates
    <3>3. Leads(dest', loop', fromUsbsas', "return") /\ "return" \in Loops
      <4>1. Follows(dest, e, "Error", "return") /\ "return" \in Loops
        BY <2>2, FollowTable DEF Asked, Loops
      <4>2. <<>> \in Seq(Words) /\ <<>> \o <<"Error">> = <<"Error">>
        BY SMT
      <4>3. Leads(dest, loop, <<>> \o <<"Error">>, "return")
        BY <2>1, <2>3, <4>1, <4>2, LeadsFurther
      <4> QED
        BY <1>1, <1>4, <2>6, <3>1, <4>1, <4>2, <4>3
    <3>4. Serving("return")'
      BY <1>1, <1>4, <2>4, <2>6 DEF Serving
    <3>5. state' # "CopyFiles"
      BY <1>1, <1>4, <2>6 DEF IdleStates
    <3>6. JobInv'
      BY <3>1, <3>3, <3>4, <3>5 DEF JobInv
    <3> QED
      BY <1>1, <1>3, <1>7, <3>2, <3>6 DEF ServerInv, PipesInv
  <2> QED
    BY <1>1, <2>5, <2>6
<1> QED
  BY <1>5, <1>6, <1>7 DEF ServerInv, PipesInv


(* usbsas goes on with what it does, and says what its holder expects.     *)
LEMMA WorksKeeps ==
    ASSUME ServerInv, UsbsasWorks, ~DeviceFails
    PROVE  ServerInv'
<1>1. PICK w \in Steps[dest] :
          Possible(w) /\ Work(w) /\ fromUsbsas' = fromUsbsas \o w.says
  BY DEF UsbsasWorks
<1>2. /\ doing \notin {"none", "exit"}
      /\ UNCHANGED <<dest, toUsbsas, comm, outDev, page, calls, choice, selected, job, loop>>
      /\ w.from = <<state, doing>> /\ state' = w.to[1] /\ doing' = w.to[2]
  BY <1>1 DEF UsbsasWorks, Work, httpVars, jobVars
<1>3. w.from[1] = state /\ w.from[2] = doing /\ dest \in Destinations
  BY SMT, <1>2 DEF ServerInv, UsbsasInv
<1>4. HandlerInv' /\ ThreadInv'
  BY <1>2 DEF ServerInv, HandlerInv, ThreadInv
<1>5. /\ \A m : <<>> \o <<m>> = <<m>> /\ <<m>> # <<>>
      /\ \A m, n : <<m>> = <<n>> => m = n
      /\ \A m \in Words : <<m>> \in Seq(Words)
      /\ \A m \in Words, s \in Seq(Words) : s \o <<m>> \in Seq(Words) /\ s \o <<m>> # <<>>
  BY SMT
<1>6. comm # "none"
  BY <1>2 DEF ServerInv, PipesInv, FreeInv, Gone
<1>7. CASE comm = "handler"
  <2>1. /\ toUsbsas = <<>> /\ doing = Head(calls) /\ fromUsbsas = <<>> /\ calls # <<>>
    BY <1>2, <1>7 DEF ServerInv, PipesInv, CallInv, Gone
  <2>2. /\ doing \in CallNames /\ (doing = "End" <=> page = "reset")
        /\ doing = "OpenDevice" => page = "select"
        /\ doing = "OpenPartition" => page = "open"
    BY <2>1, HandlerCallsOf DEF ServerInv
  <2>3. CASE doing = "End"
    <3>1. /\ w.says = <<"End">> /\ state' = "End" /\ doing' = "exit"
      BY SMT, <1>2, <1>3, <2>2, <2>3, CallSteps
    <3>2. fromUsbsas' = <<"End">>
      BY <1>1, <1>5, <2>1, <3>1
    <3>3. CallInv'
      BY <1>2, <2>1, <2>3, <3>1, <3>2 DEF CallInv, Responses, Gone
    <3>4. UsbsasInv' /\ ChosenDestination' /\ SelectInv'
      <4>1. "End" \in Words
        BY DEF Words
      <4>2. fromUsbsas' \in Seq(Words)
        BY <1>5, <3>2, <4>1
      <4> QED
        BY <1>2, <2>2, <2>3, <3>1, <4>2 DEF ServerInv, UsbsasInv,
           ChosenDestination, SelectInv
    <3> QED
      BY <1>2, <1>4, <1>7, <3>3, <3>4 DEF ServerInv, PipesInv
  <2>4. CASE doing # "End"
    <3>1. /\ w.says \in {<<doing>>, <<"Error">>} /\ w.to[1] \in IdleStates /\ w.to[2] = "none"
          /\ w.says = <<"OpenDevice">> => w.to[1] = "DevOpened"
          /\ w.to[1] = "DevOpened" => state = "DevOpened" \/ w.says = <<"OpenDevice">>
          /\ w.to[1] = "PartitionOpened" =>
                \/ state = "PartitionOpened"
                \/ state = "DevOpened" /\ doing = "OpenPartition"
      <4>1. w.from = <<"DevOpened", "OpenPartition">> =>
                state = "DevOpened" /\ doing = "OpenPartition"
        BY SMT, <1>3
      <4> QED
        BY <1>3, <2>2, <2>4, <4>1, CallSteps
    <3>2. fromUsbsas' = w.says
      <4>1. \A m : m \in {<<doing>>, <<"Error">>} => <<>> \o m = m
        BY <1>5
      <4> QED
        BY <1>1, <2>1, <3>1, <4>1
    <3>3. fromUsbsas' \in {<<Head(calls)>>, <<"Error">>} /\ fromUsbsas' # <<>>
      BY <1>5, <2>1, <3>1, <3>2
    <3>4. CallInv'
      BY <1>2, <2>1, <2>2, <2>4, <3>1, <3>2, <3>3 DEF CallInv, Responses
    <3>5. UsbsasInv' /\ ChosenDestination'
      <4>1. doing \in Words /\ "Error" \in Words
        BY <2>2 DEF Words, CallNames
      <4>2. fromUsbsas' \in Seq(Words)
        BY <1>5, <2>1, <3>3, <4>1
      <4> QED
        BY <1>2, <3>1, <4>2 DEF ServerInv, UsbsasInv, ChosenDestination,
           IdleStates
    <3>6. fromUsbsas' = <<"OpenDevice">> => page = "select"
      BY <1>5, <2>1, <2>2, <3>3
    <3>7. SelectInv'
      BY <1>2, <1>7, <2>1, <2>2, <3>1, <3>2, <3>6 DEF ServerInv, SelectInv
    <3> QED
      BY <1>2, <1>4, <1>7, <3>4, <3>5, <3>7 DEF ServerInv, PipesInv
  <2> QED
    BY <2>3, <2>4
<1>8. CASE comm = "job"
  <2>1. PICK e \in Loops : Leads(dest, loop, fromUsbsas, e) /\ Serving(e)
    BY <1>2, <1>8 DEF ServerInv, PipesInv, JobInv, Gone
  <2>2. ~(page = "select" /\ calls = <<>>) /\ toUsbsas = <<>> /\ fromUsbsas \in Seq(Words)
    BY <1>2, <2>1 DEF ServerInv, SelectInv, UsbsasInv, Serving, Asked
  <2>3. CASE <<state, doing, e>> \in Works
    <3>1. /\ Says(dest, w, e)
          /\ state' \in Transferring => state \in Transferring
          /\ state' \notin {"DevOpened", "PartitionOpened"}
      BY <1>1, <1>2, <1>3, <2>3, WorkSteps
    <3>2. e \in DOMAIN Again /\ e \notin {"Post", "return"} /\ (e = "Tar" => state = "CopyFiles")
      BY <2>3, FollowTable DEF Works
    <3>3. SelectInv' /\ ChosenDestination'
      BY <1>2, <2>2, <3>1 DEF ServerInv, SelectInv, ChosenDestination,
         Transferring
    <3>4. loop = "Tar" => outDev = dest
      <4>1. fromUsbsas = <<>> => loop = e
        BY SMT, <2>1, LeadsNowhere
      <4>2. loop = "Tar" => fromUsbsas # <<"Error">>
        BY <2>1, <3>2, ErrorIsLast
      <4> QED
        BY <1>8, <3>2, <4>1, <4>2 DEF ServerInv, PipesInv, JobInv
    <3>5. \E k \in Loops : Leads(dest, loop, fromUsbsas', k) /\ Serving(k)'
      <4>1. ASSUME NEW k \in Loops \ {"Post"}, One(w.says), Follows(dest, e, w.says[1], k),
                   \/ <<w.to[1], w.to[2], k>> \in Works
                   \/ k = "return" /\ w.to[1] \in {"Init", "WaitEnd"} /\ w.to[2] = "none"
            PROVE  Leads(dest, loop, fromUsbsas', k) /\ Serving(k)'
        <5>1. Leads(dest, loop, fromUsbsas', k)
          BY <1>1, <2>1, <2>2, <3>2, <4>1, LeadsFurther DEF One
        <5>2. Serving(k)'
          BY <1>2, <2>2, <4>1 DEF Serving
        <5> QED
          BY <5>1, <5>2
      <4>2. ASSUME w.says = <<"FinalCopyStatusDone", "CopyDone">>, e = "Final",
                   w.to[1] = "TransferDone", w.to[2] = "none"
            PROVE  \E k \in Loops : Leads(dest, loop, fromUsbsas', k) /\ Serving(k)'
        <5> DEFINE k == IF PostCopy THEN "Post" ELSE "return"
                   s == fromUsbsas \o <<"FinalCopyStatusDone">>
        <5>1. "FinalCopyStatusDone" \in Words /\ "CopyDone" \in Words
          BY DEF Words
        <5>2. s \in Seq(Words) /\ fromUsbsas' = s \o <<"CopyDone">> /\ fromUsbsas' # <<>>
          BY SMT, <1>1, <2>2, <4>2, <5>1
        <5>3. "FinalCopyStatusDone" \in Again["Final"] /\ k \in Loops
          BY DEF Again, Loops
        <5>4. Follows(dest, e, "FinalCopyStatusDone", e) /\ Follows(dest, e, "CopyDone", k)
          <6>1. Follows(dest, e, "FinalCopyStatusDone", e)
            BY <3>2, <4>2, <5>3, FollowTable
          <6>2. Follows(dest, e, "CopyDone", k)
            BY <4>2 DEF Follows
          <6> QED
            BY <6>1, <6>2
        <5>5. Leads(dest, loop, s, e)
          BY <2>1, <2>2, <3>2, <5>4, LeadsFurther
        <5> HIDE DEF s
        <5>6. Leads(dest, loop, s \o <<"CopyDone">>, k)
          BY <3>2, <5>2, <5>3, <5>4, <5>5, LeadsFurther
        <5>7. Serving(k)'
          BY <1>2, <2>2, <4>2, <5>2 DEF Serving
        <5> QED
          BY <5>2, <5>3, <5>6, <5>7
      <4> QED
        BY <3>1, <4>1, <4>2 DEF Says
    <3>6. fromUsbsas' \in Seq(Words)
      <4>1. \A m, n \in Words : fromUsbsas \o <<m, n>> \in Seq(Words)
        BY SMT, <2>2
      <4>2. "FinalCopyStatusDone" \in Words /\ "CopyDone" \in Words
        BY DEF Words
      <4> QED
        BY <1>1, <1>5, <2>2, <3>1, <4>1, <4>2 DEF Says, One
    <3>7. UsbsasInv'
      <4>1. doing' = "none" => state' \in IdleStates
        BY <1>2, <3>1 DEF Says, Works, IdleStates
      <4> QED
        BY <1>2, <3>6, <4>1 DEF ServerInv, UsbsasInv
    <3>8. JobInv'
      BY <1>2, <3>4, <3>5 DEF JobInv
    <3> QED
      BY <1>2, <1>4, <1>8, <3>3, <3>7, <3>8 DEF ServerInv, PipesInv
  <2>4. CASE e = "Post" /\ fromUsbsas = <<>> /\ state = "TransferDone" /\ doing = "PostCopyCmd"
    <3>1. /\ w.says \in {<<"PostCopyCmd">>, <<"Error">>}
          /\ state' \in IdleStates /\ doing' = "none"
          /\ state' \notin {"DevOpened", "PartitionOpened"}
      <4>1. w.from # <<"DevOpened", "OpenPartition">>
        BY SMT, <1>3, <2>4
      <4> QED
        BY SMT, <1>2, <1>3, <2>4, <4>1, CallSteps
    <3>2. PICK m \in {"PostCopyCmd", "Error"} : w.says = <<m>>
      BY <3>1
    <3>3. fromUsbsas' = <<m>> /\ m \in Words
      BY <1>1, <1>5, <2>4, <3>2 DEF Words
    <3>4. Follows(dest, e, m, "return") /\ "return" \in Loops
      BY <2>4 DEF Follows, Loops, Finish, Again
    <3>5. Leads(dest, loop, <<>> \o <<m>>, "return")
      BY <2>1, <2>2, <2>4, <3>4, LeadsFurther
    <3>6. Leads(dest, loop, fromUsbsas', "return")
      BY <1>5, <3>3, <3>5
    <3>7. Serving("return")'
      BY <1>2, <2>2, <3>1 DEF Serving
    <3>8. loop = "Post"
      BY <2>1, <2>4, LeadsNowhere
    <3>9. JobInv'
      BY <1>2, <3>4, <3>6, <3>7, <3>8 DEF JobInv
    <3>10. UsbsasInv' /\ SelectInv' /\ ChosenDestination'
      <4>1. fromUsbsas' \in Seq(Words)
        BY <1>5, <3>3
      <4> QED
        BY <1>2, <2>2, <3>1, <4>1 DEF ServerInv, UsbsasInv, SelectInv,
           ChosenDestination, IdleStates
    <3> QED
      BY <1>2, <1>4, <1>8, <3>9, <3>10 DEF ServerInv, PipesInv
  <2> QED
    BY <1>2, <2>1, <2>3, <2>4 DEF Serving, Asked
<1> QED
  BY <1>6, <1>7, <1>8 DEF ServerInv, PipesInv


---------------------------------------------------------------------------
(* The theorems.                                                           *)
LEMMA InitServer == Init => ServerInv
<1> SUFFICES ASSUME Init PROVE ServerInv
  OBVIOUS
<1>1. HandlerInv /\ ThreadInv
  BY DEF Init, HandlerInv, ThreadInv, Jobs
<1>2. UsbsasInv
  <2>1. <<>> \in Seq(Words)
    BY SMT
  <2> QED
    BY <2>1 DEF Init, Started, UsbsasInv, IdleStates, Destinations
<1>3. PipesInv
  BY DEF Init, Started, PipesInv, FreeInv
<1>4. SelectInv /\ ChosenDestination
  BY DEF Init, Started, SelectInv, ChosenDestination
<1> QED
  BY <1>1, <1>2, <1>3, <1>4 DEF ServerInv

(* Every step keeps the invariant.                                         *)
LEMMA NextServer ==
    ASSUME ~DeviceFails, ServerInv, [Next]_vars
    PROVE  ServerInv'
<1>1. ASSUME Poll \/ Puts \/ Wakes \/ vars' = vars PROVE ServerInv'
  <2>1. UNCHANGED <<usbsas, pipes, comm, outDev, httpVars, selected, job, loop>>
    BY <1>1 DEF Poll, Puts, Wakes, vars, jobVars
  <2> QED
    BY <2>1, Aside
<1>2. CASE HandlerNext
  BY <1>2, CallsKeeps, HandlerRefusesKeeps, ReadsKeeps, EndsKeeps, RestartKeeps,
     ResetFailsKeeps DEF HandlerNext
<1>3. CASE JobNext
  BY <1>1, <1>3, BeforeKeeps, StartsKeeps, JobReadsKeeps, EofKeeps,
     ReturnsKeeps DEF JobNext
<1> QED
  BY <1>1, <1>2, <1>3, BrowseKeeps, TakesKeeps, WorksKeeps, DiesKeeps DEF Next

(* Whatever the browser asks, in whatever order the threads of the server  *)
(* take the mutex of comm and whenever usbsas dies, what is in the pipes   *)
(* is what the holder of the mutex waits for, now and after each response. *)
THEOREM ServerSound ==
    ASSUME ~DeviceFails
    PROVE  Spec => []ServerInv
<1>1. ServerInv /\ [Next]_vars => ServerInv'
  BY NextServer
<1> QED
  BY <1>1, InitServer, PTL DEF Spec

(* The reader of the next response expects it.                             *)
LEMMA InStepHolds == ServerInv => InStep
<1> SUFFICES ASSUME ServerInv, fromUsbsas # <<>>
             PROVE  InStep
  BY DEF InStep
<1>1. comm # "none"
  BY DEF ServerInv, PipesInv, FreeInv
<1>2. CASE comm = "handler"
  <2>1. \A m : Head(<<m>>) = m
    BY SMT
  <2>2. calls # <<>> /\ fromUsbsas \in Responses
    BY <1>2 DEF ServerInv, PipesInv, CallInv
  <2>3. Head(fromUsbsas) = Head(calls) \/ (Head(fromUsbsas) = "Error" /\ page # "reset")
    BY <2>1, <2>2 DEF Responses
  <2> QED
    BY <1>2, <2>2, <2>3 DEF InStep
<1>3. CASE comm = "job"
  <2>1. PICK e \in Loops : Leads(dest, loop, fromUsbsas, e)
    BY <1>3 DEF ServerInv, PipesInv, JobInv
  <2>2. PICK k \in Loops : Follows(dest, loop, Head(fromUsbsas), k)
    BY <2>1, LeadsOn DEF ServerInv, UsbsasInv
  <2>3. loop \in DOMAIN Again
    BY <2>2, FollowTable DEF Follows
  <2>4. Head(fromUsbsas) \in Again[loop] \cup Onward[loop] \cup Finish[loop]
                                \cup (IF loop = "Post" THEN {"Error"} ELSE {})
    BY SMT, <2>2 DEF Follows, Onward
  <2> QED
    BY <1>3, <2>3, <2>4 DEF InStep
<1> QED
  BY <1>1, <1>2, <1>3 DEF ServerInv, PipesInv

(* The next response in the pipe is always one that its reader, a handler  *)
(* or the thread of a transfer, matches on; what a reset reads first is    *)
(* the End it waits for.                                                   *)
THEOREM ServerInStep ==
    ASSUME ~DeviceFails
    PROVE  Spec => []InStep
<1> QED
  BY ServerSound, InStepHolds, PTL

(* usbsas copies to the destination that device_select was given in the    *)
(* same session, although the server keeps out_dev over a reset.           *)
THEOREM ServerDestination ==
    ASSUME ~DeviceFails
    PROVE  Spec => []ChosenDestination
<1>1. ServerInv => ChosenDestination
  BY DEF ServerInv
<1> QED
  BY <1>1, ServerSound, PTL
============================================================================
