----------------------------- MODULE FileStore ------------------------------
(***************************************************************************)
(* What a file system writer promises to files2fs (the trait FSWrite of    *)
(* usbsas-fsrw/src/lib.rs): a set of directories and files, at most one    *)
(* file being written. Any call may fail. One that fails changes nothing,  *)
(* except that a file whose writing fails is removed.                      *)
(***************************************************************************)
EXTENDS Naturals, Sequences

CONSTANTS
    Paths,          \* what may be created
    Parent(_),      \* the directory a path is in, Top for the root
    Top,
    Folders,        \* the paths that are directories
    Byte(_, _),     \* Byte(p, i), the i-th byte of the file p
    WriteSizes      \* bytes of one write

VARIABLES
    stored,         \* the paths that exist
    content,        \* what each file holds
    open            \* the file being written, Top for none

Init ==
    /\ stored = {}
    /\ content = [p \in Paths |-> <<>>]
    /\ open = Top

Reachable(p) == Parent(p) \in stored \cup {Top}

CreateDir(p) ==
    /\ open = Top /\ p \in Folders \ stored /\ Reachable(p)
    /\ stored' = stored \cup {p}
    /\ UNCHANGED <<content, open>>

CreateFile(p) ==
    /\ open = Top /\ p \notin Folders \cup stored /\ Reachable(p)
    /\ stored' = stored \cup {p}
    /\ open' = p
    /\ UNCHANGED content

\* The bytes arrive in order, behind those that are there.
Extend(p) ==
    /\ open = p /\ p # Top
    /\ \E n \in WriteSizes :
          content' = [content EXCEPT ![p] = @ \o [i \in 1 .. n |-> Byte(p, Len(content[p]) + i)]]
    /\ UNCHANGED <<stored, open>>

GiveUp(p) ==
    /\ open = p /\ p # Top
    /\ stored' = stored \ {p}
    /\ content' = [content EXCEPT ![p] = <<>>]
    /\ open' = Top

Finish ==
    /\ open # Top
    /\ open' = Top
    /\ UNCHANGED <<stored, content>>

Next ==
    \/ \E p \in Paths : CreateDir(p) \/ CreateFile(p) \/ Extend(p) \/ GiveUp(p)
    \/ Finish

vars == <<stored, content, open>>
Spec == Init /\ [][Next]_vars
=============================================================================
