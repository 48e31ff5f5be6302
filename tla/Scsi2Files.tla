----------------------------- MODULE Scsi2Files -----------------------------
(***************************************************************************)
(* scsi2files and the dev2scsi it forks: the two processes that read the   *)
(* source device.  scsi2files is the parent of dev2scsi, and while it      *)
(* waits for an answer it serves nobody.  Sector reads, each one round     *)
(* trip that changes no state, are folded into the operation they serve.   *)
(***************************************************************************)
EXTENDS Processes

(* "Opening", "Listing" and "Ending" are the points inside a handler where *)
(* scsi2files waits for dev2scsi.                                          *)
S2FStates == {"ChildStarted", "Opening", "DevOpened", "Listing",
              "PartitionsListed", "PartitionOpened", "Ending", "WaitEnd",
              "End"}

(* "Failed" is WaitEnd after the device could not be opened: the process   *)
(* has not entered its sandbox.  "Ghost": see D2SReturnsIntoParent.        *)
D2SStates == {"Locked", "DevOpened", "PartitionsListed", "WaitEnd", "Failed",
              "Ghost", "End"}

(* scsi2files has dropped its MassStorageComm, and with it the pipes to    *)
(* dev2scsi.                                                               *)
MassStorageDropped == st["scsi2files"] \in {"WaitEnd", "End"}

(* scsi2files takes its request, writes ms to dev2scsi and waits there.    *)
Forward(ms, s) == /\ st' = [st EXCEPT !["scsi2files"] = s]
                  /\ req' = [req EXCEPT !["scsi2files"] = Tail(@),
                                        !["dev2scsi"] = @ \o ms]
                  /\ UNCHANGED rsp

(* dev2scsi answered: scsi2files reads it, answers r and moves to s.       *)
Relay(r, s) == /\ st' = [st EXCEPT !["scsi2files"] = s]
               /\ rsp' = [rsp EXCEPT !["dev2scsi"] = Tail(@),
                                     !["scsi2files"] = Append(@, r)]
               /\ UNCHANGED req

(* The answer scsi2files waits for in state s is there, of type t or not.  *)
Answered(s, t) == /\ st["scsi2files"] = s
                  /\ rsp["dev2scsi"] # <<>>
                  /\ Head(rsp["dev2scsi"]).type = t
Refused(s, t) == /\ st["scsi2files"] = s
                 /\ rsp["dev2scsi"] # <<>>
                 /\ Head(rsp["dev2scsi"]).type # t

---------------------------------------------------------------------------
(* OpenDevice unlocks dev2scsi with the bus and device number; dev2scsi    *)
(* answers once the device is open.                                        *)
S2FOpenDevice == /\ Receives("scsi2files", "ChildStarted", "OpenDevice")
                 /\ st["dev2scsi"] # "End"
                 /\ Forward(<<Unlock(1)>>, "Opening")

S2FOpened == \/ /\ Answered("Opening", "OpenDevice")
                /\ Relay(Msg("OpenDevice"), "DevOpened")
             \/ /\ Refused("Opening", "OpenDevice")
                /\ Relay(Error, "WaitEnd")

S2FPartitions == /\ Receives("scsi2files", "DevOpened", "Partitions")
                 /\ st["dev2scsi"] # "End"
                 /\ Forward(<<Msg("Partitions")>>, "Listing")

S2FListed == \/ /\ Answered("Listing", "Partitions")
                /\ Relay(Msg("Partitions"), "PartitionsListed")
             \/ /\ Refused("Listing", "Partitions")
                /\ Relay(Error, "WaitEnd")

(* Reads of the source may fail.                                           *)
SourceFails == "src_read" \in Faults \/ st["dev2scsi"] = "End"

S2FReadSectors ==
    /\ Receives("scsi2files", "DevOpened", "ReadSectors")
    /\ \/ /\ st["dev2scsi"] # "End"
          /\ Answer("scsi2files", <<Msg("ReadSectors")>>, "DevOpened")
       \/ SourceFails /\ RunError("scsi2files")

S2FOpenPartition ==
    /\ Receives("scsi2files", "PartitionsListed", "OpenPartition")
    /\ \/ Answer("scsi2files", <<Msg("OpenPartition")>>, "PartitionOpened")
       \/ "src_mount" \in Faults /\ RunError("scsi2files")

(* What scsi2files answers to ReadFile when ff_disk_read, which serves a   *)
(* FAT or exFAT source, drops the error of a failed read and reports       *)
(* success with a buffer of zeros.                                         *)
Zeros == [type |-> "ReadFile", data |-> "zeros"]

(* GetAttr, ReadDir and ReadFile: an error is answered and survived.  Once *)
(* dev2scsi is gone the cache of MassStorageComm may still answer.         *)
S2FRead ==
    /\ \E t \in {"GetAttr", "ReadDir", "ReadFile"} :
          /\ Receives("scsi2files", "PartitionOpened", t)
          /\ \/ Answer("scsi2files", <<Msg(t)>>, "PartitionOpened")
             \/ SourceFails /\ Answer("scsi2files", <<Error>>, "PartitionOpened")
             \/ /\ t = "ReadFile" /\ "src_zeros" \in Faults
                /\ Answer("scsi2files", <<Zeros>>, "PartitionOpened")

(* End is passed on to dev2scsi first; before the device is opened,        *)
(* dev2scsi has to be unlocked for that.                                   *)
S2FEnd ==
    \/ /\ Receives("scsi2files", "ChildStarted", "End")
       /\ st["dev2scsi"] # "End"
       /\ Forward(<<Unlock(0), Msg("End")>>, "Ending")
    \/ /\ \/ Receives("scsi2files", "DevOpened", "End")
          \/ Receives("scsi2files", "PartitionsListed", "End")
          \/ Receives("scsi2files", "PartitionOpened", "End")
       /\ st["dev2scsi"] # "End"
       /\ Forward(<<Msg("End")>>, "Ending")

(* The End request is consumed but nothing is ended: the file system could *)
(* not be unmounted, and main_loop waits for another End.                  *)
S2FEndFails ==
    /\ Receives("scsi2files", "PartitionOpened", "End")
    /\ "unmount" \in Faults
    /\ RunError("scsi2files")

S2FEnded == \/ Answered("Ending", "End") /\ Relay(EndRsp, "End")
            \/ Refused("Ending", "End") /\ Relay(Error, "WaitEnd")

(* dev2scsi died: the pipe is broken for every handler that needs it.      *)
S2FBrokenPipe ==
    /\ st["dev2scsi"] = "End"
    /\ \/ /\ \/ Receives("scsi2files", "ChildStarted", "OpenDevice")
             \/ Receives("scsi2files", "DevOpened", "Partitions")
             \/ \E s \in {"ChildStarted", "DevOpened", "PartitionsListed",
                          "PartitionOpened"} : Receives("scsi2files", s, "End")
          /\ RunError("scsi2files")
       \/ /\ st["scsi2files"] \in {"Opening", "Listing", "Ending"}
          /\ rsp["dev2scsi"] = <<>>
          /\ Emit("scsi2files", <<Error>>, "WaitEnd")

S2FUnexpected ==
    \/ /\ \/ ReceivesOther("scsi2files", "ChildStarted", {"OpenDevice", "End"})
          \/ ReceivesOther("scsi2files", "DevOpened",
                           {"Partitions", "ReadSectors", "End"})
          \/ ReceivesOther("scsi2files", "PartitionsListed",
                           {"OpenPartition", "End"})
       /\ RunError("scsi2files")
    \/ /\ ReceivesOther("scsi2files", "PartitionOpened",
                        {"GetAttr", "ReadDir", "ReadFile", "End"})
       /\ Answer("scsi2files", <<Error>>, "PartitionOpened")

S2FWaitEnd == WaitEndLoop("scsi2files")

Scsi2FilesNext ==
    \/ S2FOpenDevice
    \/ S2FOpened
    \/ S2FPartitions
    \/ S2FListed
    \/ S2FReadSectors
    \/ S2FOpenPartition
    \/ S2FRead
    \/ S2FEnd
    \/ S2FEndFails
    \/ S2FEnded
    \/ S2FBrokenPipe
    \/ S2FUnexpected
    \/ S2FWaitEnd

---------------------------------------------------------------------------
(* dev2scsi.  InitState: bus and device number 0 mean that the process     *)
(* will not be used; otherwise it opens the device, and only then enters   *)
(* its sandbox.                                                            *)
D2SUnlock ==
    /\ Receives("dev2scsi", "Locked", "Unlock")
    /\ LET busdev == Head(req["dev2scsi"]).value IN
       \/ busdev = 0 /\ Answer("dev2scsi", <<>>, "WaitEnd")
       \/ /\ busdev # 0
          /\ Answer("dev2scsi", <<Msg("OpenDevice")>>, "DevOpened")
       \/ /\ busdev # 0
          /\ "src_open" \in Faults
          /\ Answer("dev2scsi", <<Error>>, "Failed")

D2SPartitions ==
    /\ Receives("dev2scsi", "DevOpened", "Partitions")
    /\ \/ Answer("dev2scsi", <<Msg("Partitions")>>, "PartitionsListed")
       \/ /\ "src_partitions" \in Faults
          /\ Answer("dev2scsi", <<Error>>, "DevOpened")

D2SEnd ==
    /\ \/ Receives("dev2scsi", "DevOpened", "End")
       \/ Receives("dev2scsi", "PartitionsListed", "End")
       \/ Receives("dev2scsi", "WaitEnd", "End")
    /\ Answer("dev2scsi", <<EndRsp>>, "End")

(* The pipes were closed by scsi2files: recv() fails, so does sending the  *)
(* error, and main_loop returns Err.  In the sandbox the process is killed *)
(* by its next system call.                                                *)
D2SKilled ==
    /\ st["dev2scsi"] \in {"DevOpened", "PartitionsListed", "WaitEnd"}
    /\ MassStorageDropped
    /\ Emit("dev2scsi", <<>>, "End")

(* Outside the sandbox the Err travels up the stack of the forked child,   *)
(* out of spawn() and into the caller: scsi2files' InitState and main_loop *)
(* now run in the child as well, on the pipes it inherited.  main_loop     *)
(* writes an error to usbsas and waits for End there.                      *)
D2SReturnsIntoParent ==
    /\ st["dev2scsi"] \in {"Failed", "Locked"}
    /\ req["dev2scsi"] = <<>>
    /\ MassStorageDropped
    /\ st' = [st EXCEPT !["dev2scsi"] = "Ghost"]
    /\ rsp' = [rsp EXCEPT !["scsi2files"] = Append(@, Error)]
    /\ UNCHANGED req

(* The copy competes with scsi2files for the requests of usbsas.           *)
D2SGhostWaitEnd ==
    /\ st["dev2scsi"] = "Ghost"
    /\ req["scsi2files"] # <<>>
    /\ req' = [req EXCEPT !["scsi2files"] = Tail(@)]
    /\ IF Head(req["scsi2files"]).type = "End"
         THEN /\ rsp' = [rsp EXCEPT !["scsi2files"] = Append(@, EndRsp)]
              /\ st' = [st EXCEPT !["dev2scsi"] = "End"]
         ELSE /\ rsp' = [rsp EXCEPT !["scsi2files"] = Append(@, Error)]
              /\ UNCHANGED st

Dev2ScsiNext ==
    \/ D2SUnlock
    \/ D2SPartitions
    \/ D2SEnd
    \/ D2SKilled
    \/ D2SReturnsIntoParent
    \/ D2SGhostWaitEnd
============================================================================
