------------------------------- MODULE Fs2Dev -------------------------------
(***************************************************************************)
(* fs2dev: the only process that writes on the destination device.  It     *)
(* copies the sectors of the image that the bit vector flags, or wipes the *)
(* device.  Which sectors a group holds is the subject of SectorCopy; here *)
(* a copy or a wipe is a number of SCSI writes, each reported to usbsas.   *)
(***************************************************************************)
EXTENDS Processes

CONSTANTS
    Groups,     \* SCSI writes a copy or a wipe takes
    PipeCap     \* responses a pipe holds before its writer blocks

ASSUME GroupsPositive == Groups \in Nat \ {0}
ASSUME PipeCapPositive == PipeCap \in Nat \ {0}

VARIABLES
    dev,        \* what the destination device holds
    devLeft     \* SCSI writes left in the current copy or wipe

devVars == <<dev, devLeft>>

F2DStates == {"Locked", "DevOpened", "LoadBitVec", "BitVecLoaded", "Copying",
              "Wiping", "WaitEnd", "End"}

(* "old": as it was plugged; "torn": some sectors written; "zero": wiped;  *)
(* "image": the image, whole.                                              *)
DevContents == {"old", "torn", "zero", "image"}

DevInit == dev = "old" /\ devLeft = 0

DevTypeOK == dev \in DevContents /\ devLeft \in 0 .. Groups

---------------------------------------------------------------------------
(* InitState: bus and device number, both 0 when the process will not be   *)
(* used.  A device that cannot be opened writes an error nobody asked for. *)
F2DUnlock ==
    /\ Receives("fs2dev", "Locked", "Unlock")
    /\ LET busdev == Head(req["fs2dev"]).value IN
       \/ busdev = 0 /\ Answer("fs2dev", <<>>, "WaitEnd")
       \/ busdev # 0 /\ Answer("fs2dev", <<>>, "DevOpened")
       \/ busdev # 0 /\ "dev_open" \in Faults /\ RunError("fs2dev")
    /\ UNCHANGED devVars

F2DDevSize ==
    /\ Receives("fs2dev", "DevOpened", "DevSize")
    /\ Answer("fs2dev", <<Msg("DevSize")>>, "DevOpened")
    /\ UNCHANGED devVars

(* Mutant: the copy starts as soon as the bit vector is complete.          *)
F2DLoadBitVec_Copies ==
    /\ \/ Receives("fs2dev", "DevOpened", "LoadBitVec")
       \/ Receives("fs2dev", "LoadBitVec", "LoadBitVec")
    /\ Answer("fs2dev", <<Msg("LoadBitVec")>>,
              IF Head(req["fs2dev"]).last THEN "Copying" ELSE "LoadBitVec")
    /\ devLeft' = Groups
    /\ UNCHANGED dev

(* load_bitvec(): chunks are appended until one says it is the last.       *)
F2DLoadBitVec ==
    /\ \/ Receives("fs2dev", "DevOpened", "LoadBitVec")
       \/ Receives("fs2dev", "LoadBitVec", "LoadBitVec")
    /\ Answer("fs2dev", <<Msg("LoadBitVec")>>,
              IF Head(req["fs2dev"]).last THEN "BitVecLoaded" ELSE "LoadBitVec")
    /\ UNCHANGED devVars

F2DStartCopy ==
    /\ Receives("fs2dev", "BitVecLoaded", "StartCopy")
    /\ Answer("fs2dev", <<Msg("StartCopy")>>, "Copying")
    /\ devLeft' = Groups
    /\ UNCHANGED dev

F2DWipe ==
    /\ Receives("fs2dev", "DevOpened", "Wipe")
    /\ Answer("fs2dev", <<Msg("Wipe")>>, "Wiping")
    /\ devLeft' = Groups
    /\ UNCHANGED dev

(* Mutant: the loop runs one turn too many.                                *)
F2DWriteGroup_OffByOne ==
    /\ st["fs2dev"] \in {"Copying", "Wiping"}
    /\ devLeft >= 0
    /\ Len(rsp["fs2dev"]) < PipeCap
    /\ Emit("fs2dev", <<Msg("CopyStatus")>>, st["fs2dev"])
    /\ devLeft' = devLeft - 1
    /\ dev' = "torn"

(* Mutant: the loop counter is not decremented.                            *)
F2DWriteGroup_Forever ==
    /\ st["fs2dev"] \in {"Copying", "Wiping"}
    /\ devLeft > 0
    /\ Len(rsp["fs2dev"]) < PipeCap
    /\ Emit("fs2dev", <<Msg("CopyStatus")>>, st["fs2dev"])
    /\ dev' = "torn"
    /\ UNCHANGED devLeft

(* One turn of the loop of CopyingState or WipingState: a SCSI write, then *)
(* a status.                                                               *)
F2DWriteGroup ==
    /\ st["fs2dev"] \in {"Copying", "Wiping"}
    /\ devLeft > 0
    /\ Len(rsp["fs2dev"]) < PipeCap
    /\ Emit("fs2dev", <<Msg("CopyStatus")>>, st["fs2dev"])
    /\ devLeft' = devLeft - 1
    /\ dev' = IF devLeft > 1 THEN "torn"
              ELSE IF st["fs2dev"] = "Copying" THEN "image" ELSE "zero"

F2DWriteFails ==
    /\ st["fs2dev"] \in {"Copying", "Wiping"}
    /\ devLeft > 0
    /\ "dev_write" \in Faults
    /\ Emit("fs2dev", <<Error>>, "WaitEnd")
    /\ dev' = "torn"
    /\ UNCHANGED devLeft

(* All the groups are written.  A wiped device can then be formatted, so   *)
(* wiping returns to DevOpened.                                            *)
F2DStatusDone ==
    /\ st["fs2dev"] \in {"Copying", "Wiping"}
    /\ devLeft = 0
    /\ Len(rsp["fs2dev"]) < PipeCap
    /\ Emit("fs2dev", <<Msg("CopyStatusDone")>>,
            IF st["fs2dev"] = "Copying" THEN "WaitEnd" ELSE "DevOpened")
    /\ UNCHANGED devVars

F2DEnd ==
    /\ \/ Receives("fs2dev", "DevOpened", "End")
       \/ Receives("fs2dev", "BitVecLoaded", "End")
    /\ Answer("fs2dev", <<EndRsp>>, "End")
    /\ UNCHANGED devVars

(* A request the state does not expect, End between two chunks of the bit  *)
(* vector included, is answered by the handler and again by main_loop.     *)
F2DUnexpected ==
    /\ \/ ReceivesOther("fs2dev", "DevOpened",
                        {"DevSize", "LoadBitVec", "Wipe", "End"})
       \/ ReceivesOther("fs2dev", "LoadBitVec", {"LoadBitVec"})
       \/ ReceivesOther("fs2dev", "BitVecLoaded", {"StartCopy", "End"})
    /\ BadRequestTwice("fs2dev")
    /\ UNCHANGED devVars

F2DWaitEnd == WaitEndOnce("fs2dev") /\ UNCHANGED devVars

Fs2DevNext ==
    \/ F2DUnlock
    \/ F2DDevSize
    \/ F2DLoadBitVec
    \/ F2DStartCopy
    \/ F2DWipe
    \/ F2DWriteGroup
    \/ F2DWriteFails
    \/ F2DStatusDone
    \/ F2DEnd
    \/ F2DUnexpected
    \/ F2DWaitEnd
============================================================================
