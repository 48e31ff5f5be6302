--------------------------- MODULE MCSelectFiles ---------------------------
(***************************************************************************)
(* A source device with the tree  /h  /d/f  /d/e/g  for TLC.               *)
(***************************************************************************)
EXTENDS SelectFiles

MCFiles == {<<"h">>, <<"d", "f">>, <<"d", "e", "g">>}
MCDirs == {<<"d">>, <<"d", "e">>}

(* One to three entries, with repetitions, in any order.                   *)
MCSelections == UNION {[1 .. n -> MCFiles \cup MCDirs] : n \in 1 .. 3}

MCUnreadable == {<<"d", "f">>}
MCUnlistable == {<<"d", "e">>}
NoPath == {}
============================================================================
