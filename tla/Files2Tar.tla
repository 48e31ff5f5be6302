----------------------------- MODULE Files2Tar -----------------------------
(***************************************************************************)
(* files2tar: appends the source files to the temporary tar archive.       *)
(***************************************************************************)
EXTENDS Processes

VARIABLES
    tar,        \* tar[e]: chunks of e in the archive, -1 without a header
    tarCur,     \* the entry whose data is being written
    tarClosed   \* the archive was finished and flushed

tarVars == <<tar, tarCur, tarClosed>>

F2TStates == {"Locked", "WaitNewFile", "WritingFile", "WaitEnd", "End"}

TarInit == /\ tar = [e \in Entries |-> -1]
           /\ tarCur = NoEntry
           /\ tarClosed = FALSE

TarTypeOK == /\ tar \in [Entries -> Int]
             /\ tarCur \in Entries \cup {NoEntry}
             /\ tarClosed \in BOOLEAN

(* An entry is whole in the archive: its header and all of its data.       *)
InTar(e) == tar[e] = Chunks(e)

---------------------------------------------------------------------------
(* spawn(): one byte picks the flavour of the archive, or tells the        *)
(* process that it will not be used.  Opening the archive may fail, which  *)
(* writes an error nobody asked for.                                       *)
F2TUnlock ==
    /\ Receives("files2tar", "Locked", "Unlock")
    /\ \/ /\ Head(req["files2tar"]).value \in {0, 1}
          /\ Answer("files2tar", <<>>, "WaitNewFile")
       \/ /\ Head(req["files2tar"]).value \in {0, 1}
          /\ "tar_open" \in Faults
          /\ RunError("files2tar")
       \/ /\ Head(req["files2tar"]).value = 2
          /\ Answer("files2tar", <<>>, "WaitEnd")
    /\ UNCHANGED tarVars

(* A refused header (a path ustar cannot hold, a file type that is neither *)
(* regular nor directory) leaves the archive as it was.                    *)
F2TNewFile ==
    /\ Receives("files2tar", "WaitNewFile", "NewFile")
    /\ \/ LET e == Head(req["files2tar"]).path IN
          /\ Answer("files2tar", <<Msg("NewFile")>>, "WritingFile")
          /\ tar' = [tar EXCEPT ![e] = 0]
          /\ tarCur' = e
          /\ UNCHANGED tarClosed
       \/ /\ "tar_new" \in Faults
          /\ Answer("files2tar", <<Error>>, "WaitNewFile")
          /\ UNCHANGED tarVars

(* A write past the size in the header, or a failed write, ends the        *)
(* archive.                                                                *)
F2TWriteFile ==
    /\ Receives("files2tar", "WritingFile", "WriteFile")
    /\ \/ /\ tar[tarCur] < Chunks(tarCur)
          /\ Answer("files2tar", <<Msg("WriteFile")>>, "WritingFile")
          /\ tar' = [tar EXCEPT ![tarCur] = @ + 1]
          /\ UNCHANGED <<tarCur, tarClosed>>
       \/ /\ tar[tarCur] >= Chunks(tarCur) \/ "tar_write" \in Faults
          /\ RunError("files2tar")
          /\ UNCHANGED tarVars

F2TEndFile ==
    /\ Receives("files2tar", "WritingFile", "EndFile")
    /\ \/ Answer("files2tar", <<Msg("EndFile")>>, "WaitNewFile")
       \/ "tar_write" \in Faults /\ RunError("files2tar")
    /\ UNCHANGED tarVars

(* Mutant: the archive can be closed in the middle of a file.              *)
F2TClose_MidFile ==
    /\ \/ Receives("files2tar", "WaitNewFile", "Close")
       \/ Receives("files2tar", "WritingFile", "Close")
    /\ Answer("files2tar", <<Msg("Close")>>, "WaitEnd")
    /\ tarClosed' = TRUE
    /\ UNCHANGED <<tar, tarCur>>

F2TClose ==
    /\ Receives("files2tar", "WaitNewFile", "Close")
    /\ \/ /\ Answer("files2tar", <<Msg("Close")>>, "WaitEnd")
          /\ tarClosed' = TRUE
       \/ /\ "tar_close" \in Faults
          /\ RunError("files2tar")
          /\ UNCHANGED tarClosed
    /\ UNCHANGED <<tar, tarCur>>

F2TEnd ==
    /\ Receives("files2tar", "WaitNewFile", "End")
    /\ Answer("files2tar", <<EndRsp>>, "End")
    /\ UNCHANGED tarVars

(* Requests a state does not expect.                                       *)
F2TUnexpected ==
    /\ \/ ReceivesOther("files2tar", "WaitNewFile", {"NewFile", "Close", "End"})
       \/ ReceivesOther("files2tar", "WritingFile", {"WriteFile", "EndFile"})
    /\ RunError("files2tar")
    /\ UNCHANGED tarVars

F2TWaitEnd == WaitEndOnce("files2tar") /\ UNCHANGED tarVars

Files2TarNext ==
    \/ F2TUnlock
    \/ F2TNewFile
    \/ F2TWriteFile
    \/ F2TEndFile
    \/ F2TClose
    \/ F2TEnd
    \/ F2TUnexpected
    \/ F2TWaitEnd
============================================================================
