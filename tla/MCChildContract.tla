-------------------------- MODULE MCChildContract --------------------------
(***************************************************************************)
(* Small instances of ChildContract for TLC.                               *)
(***************************************************************************)
EXTENDS ChildContract

CONSTANTS f1, d1

OneFile == {f1}
OneDir == {d1}
Sizes == [f \in Files |-> 1]
============================================================================
