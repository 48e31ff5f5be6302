------------------------------ MODULE Dialogue ------------------------------
(***************************************************************************)
(* The dialogue between usbsas and its client: which requests usbsas takes *)
(* in a state, and which responses it then writes, in which order.         *)
(* Nothing is said of the children that do the work.                       *)
(***************************************************************************)
EXTENDS Sequences

VARIABLES
    state,      \* the State of usbsas
    doing,      \* what it does for its client in that state, "none" if idle
    dest        \* where the files of a transfer go

---------------------------------------------------------------------------
(* Requests that are taken in a state, and the state in which usbsas then  *)
(* works for them.                                                         *)
Accepts ==
    {<<s, "Id", s, "Id">> : s \in {"Init", "DevOpened", "PartitionOpened"}}
    \cup {<<"Init", "Devices", "Init", "Devices">>,
          <<"Init", "OpenDevice", "Init", "OpenDevice">>,
          <<"Init", "ImgDisk", "Init", "ImgDisk">>,
          <<"Init", "Wipe", "Wipe", "Zero">>,
          <<"Init", "Wipe", "Wipe", "Format">>,
          <<"DevOpened", "Partitions", "DevOpened", "Partitions">>,
          <<"DevOpened", "OpenPartition", "DevOpened", "OpenPartition">>,
          <<"PartitionOpened", "GetAttr", "PartitionOpened", "GetAttr">>,
          <<"PartitionOpened", "ReadDir", "PartitionOpened", "ReadDir">>,
          <<"PartitionOpened", "CopyStart", "CopyFiles", "Select">>,
          <<"TransferDone", "PostCopyCmd", "TransferDone", "PostCopyCmd">>}
    \cup {<<s, "End", s, "End">> : s \in {"Init", "DevOpened", "PartitionOpened",
                                          "TransferDone", "WaitEnd"}}

(* What usbsas does next, and the responses it writes meanwhile.           *)
Step(s, d, says, s2, d2) ==
    [from |-> <<s, d>>, says |-> says, to |-> <<s2, d2>>]

Calls ==
    {Step(s, "Id", <<"Id">>, s, "none") :
        s \in {"Init", "DevOpened", "PartitionOpened"}}
    \cup {Step("Init", "Devices", <<"Devices">>, "Init", "none"),
          Step("Init", "OpenDevice", <<"OpenDevice">>, "DevOpened", "none"),
          Step("Init", "ImgDisk", <<"Opened">>, "ImgDisk", "Read"),
          Step("DevOpened", "Partitions", <<"Partitions">>, "DevOpened", "none"),
          Step("DevOpened", "OpenPartition", <<"OpenPartition">>,
               "PartitionOpened", "none"),
          Step("PartitionOpened", "GetAttr", <<"GetAttr">>,
               "PartitionOpened", "none"),
          Step("PartitionOpened", "ReadDir", <<"ReadDir">>,
               "PartitionOpened", "none"),
          Step("TransferDone", "PostCopyCmd", <<"PostCopyCmd">>,
               "WaitEnd", "none")}

(* A failed call leaves the state as it was, except after a transfer.      *)
CallErrors ==
    {Step(c.from[1], c.from[2], <<"Error">>,
          IF c.from[1] = "TransferDone" THEN "WaitEnd" ELSE c.from[1], "none") :
        c \in Calls}

(* The steps of a transfer to d, of a wipe and of a disk image.            *)
Transfers(d) ==
    {Step("CopyFiles", "Select", <<"CopyStart">>, "CopyFiles", "Tar"),
     Step("CopyFiles", "Select", <<"NothingToCopy">>, "WaitEnd", "none"),
     Step("CopyFiles", "Tar", <<"CopyStatus">>, "CopyFiles", "Tar")}
    \cup (IF d = "Usb"
          THEN {Step("CopyFiles", "Select", <<"NotEnoughSpace">>, "WaitEnd", "none"),
                Step("CopyFiles", "Tar", <<"CopyStatusDone">>, "WriteFiles", "Analyze"),
                Step("CopyFiles", "Tar", <<"CopyStatusDone">>, "WriteFiles", "Fs"),
                Step("WriteFiles", "Analyze", <<"AnalyzeStatus">>, "WriteFiles", "Analyze"),
                Step("WriteFiles", "Analyze", <<"AnalyzeDone">>, "WriteFiles", "Fs"),
                Step("WriteFiles", "Fs", <<"NothingToCopy">>, "WaitEnd", "none"),
                Step("WriteFiles", "Fs", <<"CopyStatus">>, "WriteFiles", "Fs"),
                Step("WriteFiles", "Fs", <<"CopyStatusDone">>, "WriteFiles", "Final"),
                Step("WriteFiles", "Final", <<"FinalCopyStatus">>, "WriteFiles", "Final"),
                Step("WriteFiles", "Final", <<"FinalCopyStatusDone", "CopyDone">>,
                     "TransferDone", "none"),
                Step("WriteFiles", "Final", <<"Error", "CopyDone">>,
                     "TransferDone", "none")}
          ELSE {Step("CopyFiles", "Tar", <<"CopyStatusDone">>, "UploadOrCmd", "Final"),
                Step("UploadOrCmd", "Final", <<"FinalCopyStatus">>, "UploadOrCmd", "Final"),
                Step("UploadOrCmd", "Final", <<"FinalCopyStatusDone", "CopyDone">>,
                     "TransferDone", "none")})

Others ==
    {Step("Wipe", "Zero", <<"FinalCopyStatus">>, "Wipe", "Zero"),
     Step("Wipe", "Zero", <<"FinalCopyStatusDone">>, "Wipe", "Format"),
     Step("Wipe", "Format", <<"FinalCopyStatus">>, "Wipe", "Format"),
     Step("Wipe", "Format", <<"Wipe">>, "WaitEnd", "none"),
     Step("ImgDisk", "Read", <<"FinalCopyStatus">>, "ImgDisk", "Read"),
     Step("ImgDisk", "Read", <<"ImgDisk">>, "WaitEnd", "none")}

(* run() returned Err in one of these.                                     *)
Aborts(d) ==
    {Step(s.from[1], s.from[2], <<"Error">>, "WaitEnd", "none") :
        s \in Transfers(d) \cup Others}

EndSteps ==
    {Step(s, "End", <<"End">>, "End", "exit") :
        s \in {"Init", "DevOpened", "PartitionOpened", "TransferDone", "WaitEnd"}}

Destinations == {"Usb", "Net", "Cmd"}

Steps == [d \in Destinations |-> Calls \cup CallErrors \cup Transfers(d) \cup Others
                              \cup Aborts(d) \cup EndSteps]

---------------------------------------------------------------------------
(* Request a is taken, for destination d if it is CopyStart.               *)
Take(a, d) ==
    /\ <<state, doing>> = <<a[1], "none">>
    /\ state' = a[3]
    /\ doing' = a[4]
    /\ dest' = IF a[2] = "CopyStart" THEN d ELSE dest

(* A request is answered by an error at once: the state does not serve it, *)
(* or run() returned Err.                                                  *)
Refuse ==
    /\ doing = "none"
    /\ state' \in {state, "WaitEnd"}
    /\ UNCHANGED <<doing, dest>>

(* usbsas takes step w of what it does.                                    *)
Work(w) ==
    /\ w.from = <<state, doing>>
    /\ state' = w.to[1]
    /\ doing' = w.to[2]
    /\ UNCHANGED dest

Started == state = "Init" /\ doing = "none" /\ dest = "Usb"
============================================================================
