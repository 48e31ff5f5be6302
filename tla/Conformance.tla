---------------------------- MODULE Conformance ----------------------------
(***************************************************************************)
(* The orchestrator with all its children implements Session.              *)
(***************************************************************************)
EXTENDS Usbsas

(* What the client sees usbsas do at point p of state s.                   *)
DoingAt(s, p) ==
    CASE p = "recv" -> "none"
      [] p \in {"end", "wait"} -> "End"
      [] p = "exit" -> "exit"
      [] p \in {v[3] : v \in Serves} -> (CHOOSE v \in Serves : v[3] = p)[2]
      [] p \in {"select", "cf_size"} -> "Select"
      [] s = "CopyFiles" /\ p \notin {"select", "cf_size"} -> "Tar"
      [] p = "analyze" -> "Analyze"
      [] p \in {"wipe", "wiping"} -> "Zero"
      [] s = "Wipe" /\ p \notin {"recv", "wipe", "wiping"} -> "Format"
      [] s = "WriteFiles" /\ p \in {"bv_get", "bv_load", "startcopy", "copying"}
            -> "Final"
      [] s = "UploadOrCmd" -> "Final"
      [] s = "ImgDisk" -> "Read"
      [] OTHER -> "Fs"

Doing == DoingAt(state, pc)

Abstract == INSTANCE Session WITH doing <- Doing

(* Whatever the children do, the client of usbsas sees one of the          *)
(* dialogues of Session: each request is taken in a state that serves it,  *)
(* and its responses come in the order that a client relies on.            *)
ImplementsSession == Abstract!SessionSpec
============================================================================
