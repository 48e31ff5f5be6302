------------------------------ MODULE MCFatFs -------------------------------
(* A volume of a few clusters, a directory, and files in it and beside it. *)
EXTENDS FatFs

MCPaths == {"a", "d", "b", "c"}
MCFolders == {"d"}
MCParent(p) == IF p \in {"b", "c"} THEN "d" ELSE "/"
\* On FAT32 two names are longer than a cluster's slots: a table with little
\* room left is stretched twice for them.
MCNameSlots(type, p) ==
    IF type = "EXFAT" THEN 3 ELSE CASE p = "d" -> 6 [] p = "c" -> 7 [] OTHER -> 3
MCByte(p, i) == i + CASE p = "a" -> 100 [] p = "b" -> 200 [] p = "c" -> 300
MCLeftovers == {<<0, 0>>}
=============================================================================
