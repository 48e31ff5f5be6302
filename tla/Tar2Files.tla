----------------------------- MODULE Tar2Files -----------------------------
(***************************************************************************)
(* tar2files: reads the files back from the archive files2tar closed.      *)
(***************************************************************************)
EXTENDS Files2Tar

VARIABLE
    index       \* the entries whose header tar2files has read

T2FStates == {"Locked", "LoadMetadata", "MainLoop", "WaitEnd", "End"}

IndexInit == index = {}
IndexTypeOK == index \subseteq Entries

---------------------------------------------------------------------------
(* InitState: the byte 1 means read the archive, any other one means that  *)
(* the process will not be used.                                           *)
T2FUnlock ==
    /\ Receives("tar2files", "Locked", "Unlock")
    /\ LET v == Head(req["tar2files"]).value IN
       \/ v = 1 /\ Answer("tar2files", <<>>, "LoadMetadata")
       \/ v = 1 /\ "tar_open" \in Faults /\ RunError("tar2files")
       \/ v # 1 /\ Answer("tar2files", <<>>, "WaitEnd")
    /\ UNCHANGED <<tarVars, index>>

(* LoadMetadataState: all the headers are read at once; a damaged archive  *)
(* writes an error nobody asked for.                                       *)
T2FLoadMetadata ==
    /\ st["tar2files"] = "LoadMetadata"
    /\ \/ /\ Emit("tar2files", <<>>, "MainLoop")
          /\ index' = {e \in Entries : tar[e] >= 0}
       \/ /\ "tar_load" \in Faults
          /\ Emit("tar2files", <<Error>>, "WaitEnd")
          /\ UNCHANGED index
    /\ UNCHANGED tarVars

T2FGetAttr ==
    /\ Receives("tar2files", "MainLoop", "GetAttr")
    /\ IF Head(req["tar2files"]).path \in index
         THEN Answer("tar2files", <<Msg("GetAttr")>>, "MainLoop")
         ELSE Answer("tar2files", <<Error>>, "MainLoop")
    /\ UNCHANGED <<tarVars, index>>

T2FReadFile ==
    /\ Receives("tar2files", "MainLoop", "ReadFile")
    /\ \/ /\ Head(req["tar2files"]).path \in index
          /\ Answer("tar2files", <<Msg("ReadFile")>>, "MainLoop")
       \/ /\ Head(req["tar2files"]).path \notin index \/ "tar_read" \in Faults
          /\ Answer("tar2files", <<Error>>, "MainLoop")
    /\ UNCHANGED <<tarVars, index>>

T2FReadDir ==
    /\ Receives("tar2files", "MainLoop", "ReadDir")
    /\ Answer("tar2files", <<Msg("ReadDir")>>, "MainLoop")
    /\ UNCHANGED <<tarVars, index>>

T2FEnd ==
    /\ Receives("tar2files", "MainLoop", "End")
    /\ Answer("tar2files", <<EndRsp>>, "End")
    /\ UNCHANGED <<tarVars, index>>

(* Mutant: the handler answers, and so does the loop around it.            *)
T2FUnexpected_Twice ==
    /\ ReceivesOther("tar2files", "MainLoop",
                     {"GetAttr", "ReadFile", "ReadDir", "End"})
    /\ Answer("tar2files", <<Error, Error>>, "MainLoop")
    /\ UNCHANGED <<tarVars, index>>

(* Unlike the other processes, the main loop survives a bad request.       *)
T2FUnexpected ==
    /\ ReceivesOther("tar2files", "MainLoop",
                     {"GetAttr", "ReadFile", "ReadDir", "End"})
    /\ Answer("tar2files", <<Error>>, "MainLoop")
    /\ UNCHANGED <<tarVars, index>>

T2FWaitEnd == WaitEndOnce("tar2files") /\ UNCHANGED <<tarVars, index>>

Tar2FilesNext ==
    \/ T2FUnlock
    \/ T2FLoadMetadata
    \/ T2FGetAttr
    \/ T2FReadFile
    \/ T2FReadDir
    \/ T2FEnd
    \/ T2FUnexpected
    \/ T2FWaitEnd
============================================================================
