------------------------------ MODULE Files2Fs ------------------------------
(***************************************************************************)
(* files2fs: builds the new file system in a sparse image file, hands out  *)
(* the bit vector of its non empty sectors, or stores a disk image.        *)
(***************************************************************************)
EXTENDS Processes

CONSTANT BvChunks       \* the messages the bit vector of the image takes

ASSUME BvChunksPositive == BvChunks \in Nat \ {0}

VARIABLES
    img,        \* img[e]: chunks of e in the image, -1 when it is not there
    imgCur,     \* the file being written
    imgClosed,  \* the file system was unmounted
    bvLeft      \* messages of the bit vector still to hand out

imgVars == <<img, imgCur, imgClosed, bvLeft>>

F2FStates == {"WaitFsInfos", "WaitNewFile", "WritingFile", "ImgDisk",
              "ForwardBitVec", "WaitEnd", "End"}

ImgInit == /\ img = [e \in Entries |-> -1]
           /\ imgCur = NoEntry
           /\ imgClosed = FALSE
           /\ bvLeft = BvChunks

ImgTypeOK == /\ img \in [Entries -> Int]
             /\ imgCur \in Entries \cup {NoEntry}
             /\ imgClosed \in BOOLEAN
             /\ bvLeft \in 0 .. BvChunks

(* A file is whole in the image.                                           *)
InImage(e) == img[e] = Chunks(e)

---------------------------------------------------------------------------
(* mkfs() fails on an unknown file system type, on a device size that does *)
(* not suit it and on an I/O error.                                        *)
F2FSetFsInfos ==
    /\ Receives("files2fs", "WaitFsInfos", "SetFsInfos")
    /\ LET fstype == Head(req["files2fs"]).fstype IN
       \/ /\ fstype # "Bad"
          /\ Answer("files2fs", <<Msg("SetFsInfos")>>, "WaitNewFile")
       \/ /\ fstype = "Bad" \/ "mkfs" \in Faults
          /\ RunError("files2fs")
    /\ UNCHANGED imgVars

(* newfile(): the name of a regular file is taken before it is created, so *)
(* both outcomes answer exactly once; a refused entry is survived.         *)
F2FNewFile ==
    /\ Receives("files2fs", "WaitNewFile", "NewFile")
    /\ LET e == Head(req["files2fs"]).path IN
       \/ /\ Answer("files2fs", <<Msg("NewFile")>>,
                    IF e \in Files THEN "WritingFile" ELSE "WaitNewFile")
          /\ img' = [img EXCEPT ![e] = 0]
          /\ imgCur' = e
       \/ /\ "fs_new" \in Faults
          /\ Answer("files2fs", <<Error>>, "WaitNewFile")
          /\ UNCHANGED <<img, imgCur>>
    /\ UNCHANGED <<imgClosed, bvLeft>>

(* A write that does not start at the end of the file, or that fails,      *)
(* removes the file; when removing it fails too the partial file stays.    *)
F2FWriteFile ==
    /\ Receives("files2fs", "WritingFile", "WriteFile")
    /\ \/ /\ Head(req["files2fs"]).offset = img[imgCur]
          /\ Answer("files2fs", <<Msg("WriteFile")>>, "WritingFile")
          /\ img' = [img EXCEPT ![imgCur] = @ + 1]
       \/ /\ Head(req["files2fs"]).offset # img[imgCur] \/ "fs_write" \in Faults
          /\ Answer("files2fs", <<Error>>, "WaitNewFile")
          /\ \/ img' = [img EXCEPT ![imgCur] = -1]
             \/ "fs_remove" \in Faults /\ UNCHANGED img
    /\ UNCHANGED <<imgCur, imgClosed, bvLeft>>

F2FEndFile ==
    /\ \/ /\ Receives("files2fs", "WritingFile", "EndFile")
          /\ \/ Answer("files2fs", <<Msg("EndFile")>>, "WaitNewFile")
             \/ /\ "fs_timestamp" \in Faults
                /\ Answer("files2fs", <<Error>>, "WaitNewFile")
       \/ /\ Receives("files2fs", "WaitNewFile", "EndFile")
          /\ Answer("files2fs", <<Msg("EndFile")>>, "WaitNewFile")
    /\ UNCHANGED imgVars

(* Unmounting flushes the file system; what run() returns on a failure is  *)
(* one error from main_loop.                                               *)
F2FClose ==
    /\ Receives("files2fs", "WaitNewFile", "Close")
    /\ \/ /\ Answer("files2fs", <<Msg("Close")>>, "ForwardBitVec")
          /\ imgClosed' = TRUE
       \/ /\ "unmount" \in Faults
          /\ RunError("files2fs")
          /\ UNCHANGED imgClosed
    /\ UNCHANGED <<img, imgCur, bvLeft>>

F2FBitVec ==
    /\ Receives("files2fs", "ForwardBitVec", "BitVec")
    /\ bvLeft' = bvLeft - 1
    /\ Answer("files2fs", <<[type |-> "BitVec", last |-> bvLeft' = 0]>>,
              IF bvLeft' = 0 THEN "WaitEnd" ELSE "ForwardBitVec")
    /\ UNCHANGED <<img, imgCur, imgClosed>>

F2FImgDisk ==
    /\ Receives("files2fs", "WaitFsInfos", "ImgDisk")
    /\ Answer("files2fs", <<Msg("ImgDisk")>>, "ImgDisk")
    /\ UNCHANGED imgVars

F2FWriteData ==
    /\ Receives("files2fs", "ImgDisk", "WriteData")
    /\ \/ Answer("files2fs", <<Msg("WriteData")>>, "ImgDisk")
       \/ "fs_write" \in Faults /\ RunError("files2fs")
    /\ UNCHANGED imgVars

(* End.  In WaitNewFile the file system is unmounted first; if that fails  *)
(* the End request has been consumed and main_loop waits for another one.  *)
F2FEnd ==
    /\ \/ /\ \/ Receives("files2fs", "WaitFsInfos", "End")
             \/ Receives("files2fs", "WaitNewFile", "End")
             \/ Receives("files2fs", "ImgDisk", "End")
             \/ Receives("files2fs", "ForwardBitVec", "End")
          /\ Answer("files2fs", <<EndRsp>>, "End")
       \/ /\ Receives("files2fs", "WaitNewFile", "End")
          /\ "unmount" \in Faults
          /\ RunError("files2fs")
    /\ UNCHANGED imgVars

(* A request the state does not expect.  While a file is being written it  *)
(* is answered once; in the other states the handler and then main_loop    *)
(* both answer it.                                                         *)
F2FUnexpected ==
    /\ \/ /\ ReceivesOther("files2fs", "WritingFile", {"WriteFile", "EndFile"})
          /\ RunError("files2fs")
       \/ /\ \/ ReceivesOther("files2fs", "WaitFsInfos",
                              {"SetFsInfos", "ImgDisk", "End"})
             \/ ReceivesOther("files2fs", "WaitNewFile",
                              {"NewFile", "EndFile", "Close", "End"})
             \/ ReceivesOther("files2fs", "ImgDisk", {"WriteData", "End"})
             \/ ReceivesOther("files2fs", "ForwardBitVec", {"BitVec", "End"})
          /\ BadRequestTwice("files2fs")
    /\ UNCHANGED imgVars

F2FWaitEnd == WaitEndOnce("files2fs") /\ UNCHANGED imgVars

Files2FsNext ==
    \/ F2FSetFsInfos
    \/ F2FNewFile
    \/ F2FWriteFile
    \/ F2FEndFile
    \/ F2FClose
    \/ F2FBitVec
    \/ F2FImgDisk
    \/ F2FWriteData
    \/ F2FEnd
    \/ F2FUnexpected
    \/ F2FWaitEnd
============================================================================
