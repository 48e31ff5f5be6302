-------------------------- MODULE ServerInvariants --------------------------
(***************************************************************************)
(* What InStep and ChosenDestination of Server need to be inductive: what  *)
(* each holder of the mutex may find in the pipes, now and after every     *)
(* response that is already there, and which sessions a device_select that *)
(* has not ended belongs to.                                               *)
(***************************************************************************)
EXTENDS Server

IdleStates == {"Init", "DevOpened", "PartitionOpened", "TransferDone", "WaitEnd"}

(* The responses of usbsas.                                                *)
Words == {"Id", "Devices", "OpenDevice", "Partitions", "OpenPartition", "GetAttr",
          "ReadDir", "PostCopyCmd", "End", "Error", "Opened", "CopyStart",
          "CopyStatus", "CopyStatusDone", "NothingToCopy", "NotEnoughSpace",
          "AnalyzeStatus", "AnalyzeDone", "FinalCopyStatus",
          "FinalCopyStatusDone", "CopyDone", "Wipe", "ImgDisk"}

(* The calls left of a handler are the last ones of its plan.              *)
HandlerInv ==
    /\ page \in DOMAIN Plan \cup {"none"}
    /\ page = "none" => calls = <<>>
    /\ page = "select" => /\ calls \in {<<"Devices", "OpenDevice">>, <<"OpenDevice">>, <<>>}
                          /\ choice \in Destinations
    /\ page \notin {"none", "select"} => calls \in {Plan[page], <<>>}

UsbsasInv ==
    /\ fromUsbsas \in Seq(Words)
    /\ dest \in Destinations
    /\ outDev \in Destinations \cup {"none"}
    /\ doing = "none" => state \in IdleStates

(* Nobody holds the mutex: no request and no response is left over.        *)
FreeInv ==
    /\ fromUsbsas = <<>>
    /\ Gone \/ (toUsbsas = <<>> /\ doing = "none")

(* A handler holds it: its request is on the way, or usbsas serves it, or  *)
(* its one response has come.                                              *)
Responses ==
    {<<Head(calls)>>} \cup IF page = "reset" THEN {} ELSE {<<"Error">>}

CallInv ==
    \/ calls = <<>> /\ page = "reset" /\ fromUsbsas = <<>> /\ Gone
    \/ /\ calls # <<>>
       /\ fromUsbsas \in Responses \cup {<<>>}
       /\ fromUsbsas = <<"OpenDevice">> => state = "DevOpened"
       /\ \/ Gone
          \/ /\ toUsbsas = <<[type |-> Head(calls), dest |-> "Usb"]>>
             /\ doing = "none" /\ fromUsbsas = <<>>
          \/ toUsbsas = <<>> /\ doing = Head(calls) /\ fromUsbsas = <<>>
          \/ /\ toUsbsas = <<>> /\ doing = "none" /\ fromUsbsas # <<>>
             /\ page # "reset"

---------------------------------------------------------------------------
(* The loops of a transfer; "return" once the last response is read.       *)
Loops == DOMAIN Again \cup {"return"}

(* In a transfer to d, loop k comes after response m in loop l.            *)
Follows(d, l, m, k) ==
    \/ l \in DOMAIN Again /\ m \in Again[l] /\ k = l
    \/ l \in DOMAIN Again /\ m \in Finish[l] /\ k = "return"
    \/ l = "Post" /\ m = "Error" /\ k = "return"
    \/ /\ l = "Tar" /\ m = "CopyStatusDone"
       /\ k = IF d # "Usb" THEN "Final" ELSE IF Analyzer THEN "Analyze" ELSE "Fs"
    \/ l = "Analyze" /\ m = "AnalyzeDone" /\ k = "Fs"
    \/ l = "Fs" /\ m = "CopyStatusDone" /\ k = "Final"
    \/ l = "Final" /\ m = "CopyDone" /\ k = IF PostCopy THEN "Post" ELSE "return"

(* The responses s lead from loop l to loop e; the thread has to ask       *)
(* before anything comes in loop Post.                                     *)
Leads(d, l, s, e) ==
    \E p \in [1..(Len(s) + 1) -> Loops] :
        /\ p[1] = l
        /\ p[Len(s) + 1] = e
        /\ \A i \in 1..Len(s) : Follows(d, p[i], s[i], p[i + 1])
        /\ \A i \in 2..Len(s) : p[i] # "Post"

(* What usbsas does for a thread that has read everything and is in e.     *)
Asked(e) ==
    /\ doing = "none" /\ fromUsbsas = <<>>
    /\ \/ /\ e = "Tar"
          /\ \E d \in Destinations :
                /\ toUsbsas = <<[type |-> "CopyStart", dest |-> d]>>
                /\ d = outDev \/ state \in {"DevOpened", "WaitEnd"}
       \/ e = "wipe" /\ toUsbsas = <<[type |-> "Wipe", dest |-> "Usb"]>>
       \/ e = "imagedisk" /\ toUsbsas = <<[type |-> "ImgDisk", dest |-> "Usb"]>>
       \/ /\ e = "Post" /\ toUsbsas = <<[type |-> "PostCopyCmd", dest |-> "Usb"]>>
          /\ state = "TransferDone"

Works == {<<"CopyFiles", "Select", "Tar">>, <<"CopyFiles", "Tar", "Tar">>,
          <<"WriteFiles", "Analyze", "Analyze">>, <<"WriteFiles", "Fs", "Fs">>,
          <<"WriteFiles", "Final", "Final">>, <<"UploadOrCmd", "Final", "Final">>,
          <<"Wipe", "Zero", "wipe">>, <<"Wipe", "Format", "wipe">>,
          <<"Init", "ImgDisk", "imagedisk">>, <<"ImgDisk", "Read", "imagedisk">>}

Serving(e) ==
    \/ Asked(e)
    \/ toUsbsas = <<>> /\ <<state, doing, e>> \in Works
    \/ /\ e = "Post" /\ toUsbsas = <<>> /\ fromUsbsas = <<>>
       /\ state = "TransferDone" /\ doing = "PostCopyCmd"
    \/ /\ e = "Post" /\ toUsbsas = <<>> /\ fromUsbsas # <<>>
       /\ state = "TransferDone" /\ doing = "none"
    \/ e = "return" /\ toUsbsas = <<>> /\ doing = "none"

(* The thread of a transfer holds it.                                      *)
JobInv ==
    /\ \E e \in Loops : /\ Leads(dest, loop, fromUsbsas, e)
                        /\ Gone \/ Serving(e)
    /\ loop = "Tar" => \/ outDev = dest
                       \/ /\ fromUsbsas \in {<<>>, <<"Error">>}
                          /\ state # "CopyFiles"

---------------------------------------------------------------------------
(* A device_select whose calls are over belongs to a session in which no   *)
(* transfer can start before it ends.                                      *)
SelectInv ==
    /\ page = "select" /\ calls = <<>> =>
          /\ state \in {"DevOpened", "WaitEnd"}
          /\ doing \in {"none", "exit"}
          /\ fromUsbsas \in {<<>>, <<"Error">>}
    /\ state = "DevOpened" =>
          \/ outDev = selected
          \/ page = "select" /\ calls = <<>>
          \/ page = "select" /\ comm = "handler" /\ fromUsbsas = <<"OpenDevice">>
    /\ state = "PartitionOpened" => outDev = selected

(* Who holds the mutex finds in the pipes what they wait for.              *)
PipesInv ==
    /\ comm \in {"none", "handler", "job"}
    /\ comm = "none" => FreeInv
    /\ comm = "handler" => CallInv
    /\ comm = "job" => JobInv

(* There is one transfer at a time.                                        *)
ThreadInv ==
    /\ page \in Jobs => job = "none"
    /\ comm = "job" \/ loop \in {"start", "lock"} => job # "none"

(* The inductive invariant: with it, InStep and ChosenDestination hold     *)
(* after every step of the browser, a handler, a transfer or usbsas.       *)
ServerInv ==
    /\ HandlerInv
    /\ UsbsasInv
    /\ PipesInv
    /\ ThreadInv
    /\ SelectInv
    /\ ChosenDestination
============================================================================
