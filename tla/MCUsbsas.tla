------------------------------ MODULE MCUsbsas ------------------------------
(***************************************************************************)
(* Small instances of a session of usbsas for TLC.                         *)
(***************************************************************************)
EXTENDS Conformance, SessionInvariants

CONSTANTS f1, f2, d1

OneFile == {f1}
TwoFiles == {f1, f2}
OneDir == {d1}

(* f1 takes two reads and f2, empty, none: the copy loops turn and are      *)
(* skipped.                                                                *)
Sizes == [f \in Files |-> IF f = f1 THEN 2 ELSE 0]
============================================================================
