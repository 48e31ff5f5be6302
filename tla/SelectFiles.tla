---------------------------- MODULE SelectFiles ----------------------------
(***************************************************************************)
(* selected_to_files_list of usbsas: the walk from the entries the client  *)
(* selected to the lists of files and of directories to copy.              *)
(*                                                                         *)
(* A path is the sequence of its names.  The source device holds a tree.   *)
(***************************************************************************)
EXTENDS Integers, Sequences, SequencesExt

CONSTANTS
    FilePaths,      \* the files of the source device
    DirPaths,       \* its directories, but for the root
    Unreadable,     \* entries whose attributes cannot be read
    Unlistable,     \* directories whose listing may fail
    Selections      \* what a client may select: sequences of paths

Paths == FilePaths \cup DirPaths

ASSUME FilesAreNotDirs == FilePaths \cap DirPaths = {}
ASSUME PathsNotEmpty == <<>> \notin Paths
ASSUME ParentsAreDirs == \A p \in Paths : Len(p) = 1 \/ Front(p) \in DirPaths

VARIABLES
    selected,       \* what the client selected
    todo,           \* entries to visit
    all_entries,    \* entries already listed
    files, directories, errors,
    walk            \* "on", "ok" or "failed"

vars == <<selected, todo, all_entries, files, directories, errors, walk>>

Init == /\ selected \in Selections
        /\ todo = selected
        /\ all_entries = {}
        /\ files = <<>> /\ directories = <<>> /\ errors = <<>>
        /\ walk = "on"

(* The directories above an entry, outermost first, and those of them that *)
(* are not listed yet.                                                     *)
Parents(entry) == [n \in 1 .. Len(entry) - 1 |-> SubSeq(entry, 1, n)]

(* Mutant: only the directory that holds the entry is listed.              *)
NewParents_Nearest(entry) ==
    IF Len(entry) > 1 /\ ~Contains(directories, Front(entry))
      THEN <<Front(entry)>> ELSE <<>>

NewParents(entry) ==
    SelectSeq(Parents(entry), LAMBDA d : ~Contains(directories, d))

(* What ReadDir answers, in any order.                                     *)
Below(dir) == {p \in Paths : Len(p) = Len(dir) + 1 /\ Front(p) = dir}

---------------------------------------------------------------------------
(* Mutant: a file reached twice is listed twice.                           *)
VisitFile_Again(entry) ==
    /\ entry \in FilePaths \ Unreadable
    /\ directories' = directories \o NewParents(entry)
    /\ files' = Append(files, entry)
    /\ all_entries' = all_entries \cup {entry}
    /\ todo' = Tail(todo)
    /\ UNCHANGED <<errors, walk>>

(* One turn of the loop lists the parents of the entry first, then the     *)
(* entry itself unless it is already listed, and opens directories.        *)
VisitFile(entry) ==
    /\ entry \in FilePaths \ Unreadable
    /\ directories' = directories \o NewParents(entry)
    /\ files' = IF entry \in all_entries THEN files ELSE Append(files, entry)
    /\ all_entries' = all_entries \cup {entry}
    /\ todo' = Tail(todo)
    /\ UNCHANGED <<errors, walk>>

(* Mutant: the entries of a directory go to the front of the queue, and    *)
(* the rest of the selection is lost.                                      *)
VisitDir_DropsRest(entry) ==
    /\ entry \in DirPaths \ Unreadable
    /\ directories' = Append(directories \o NewParents(entry), entry)
    /\ all_entries' = all_entries \cup {entry}
    /\ todo' \in SetToSeqs(Below(entry))
    /\ UNCHANGED <<files, errors, walk>>

(* Mutant: the directory is visited again after its entries.               *)
VisitDir_Requeues(entry) ==
    /\ entry \in DirPaths \ Unreadable
    /\ directories' = directories \o NewParents(entry)
                          \o IF entry \in all_entries THEN <<>> ELSE <<entry>>
    /\ all_entries' = all_entries \cup {entry}
    /\ todo' = Append(Tail(todo), entry)
    /\ UNCHANGED <<files, errors, walk>>

VisitDir(entry) ==
    /\ entry \in DirPaths \ Unreadable
    /\ directories' = directories \o NewParents(entry)
                          \o IF entry \in all_entries THEN <<>> ELSE <<entry>>
    /\ all_entries' = all_entries \cup {entry}
    /\ \E below \in SetToSeqs(Below(entry)) : todo' = Tail(todo) \o below
    /\ UNCHANGED <<files, errors, walk>>

VisitFails(entry) ==
    /\ entry \in Unreadable
    /\ directories' = directories \o NewParents(entry)
    /\ errors' = Append(errors, entry)
    /\ todo' = Tail(todo)
    /\ UNCHANGED <<all_entries, files, walk>>

(* A directory that cannot be listed ends the walk with an error.          *)
WalkFails(entry) ==
    /\ entry \in Unlistable \ Unreadable
    /\ directories' = directories \o NewParents(entry)
                          \o IF entry \in all_entries THEN <<>> ELSE <<entry>>
    /\ all_entries' = all_entries \cup {entry}
    /\ todo' = Tail(todo)
    /\ walk' = "failed"
    /\ UNCHANGED <<files, errors>>

Visit ==
    /\ walk = "on"
    /\ todo # <<>>
    /\ LET entry == Head(todo) IN
          \/ VisitFile(entry)
          \/ VisitDir(entry)
          \/ VisitFails(entry)
          \/ WalkFails(entry)
    /\ UNCHANGED selected

WalkDone ==
    /\ walk = "on"
    /\ todo = <<>>
    /\ walk' = "ok"
    /\ UNCHANGED <<selected, todo, all_entries, files, directories, errors>>

Done == walk # "on" /\ UNCHANGED vars

Next == Visit \/ WalkDone \/ Done

Spec == Init /\ [][Next]_vars /\ WF_vars(Next)

---------------------------------------------------------------------------
(* What the selection stands for: whatever is at or below a selected entry *)
(* and not below an entry that cannot be read.                             *)
Reached ==
    {p \in Paths :
        \E i \in DOMAIN selected :
            /\ IsPrefix(selected[i], p)
            /\ \A n \in Len(selected[i]) .. Len(p) - 1 :
                   SubSeq(p, 1, n) \notin Unreadable}

(* No file is listed twice, in whatever ways the selection reaches it: its *)
(* size is counted once and files2fs creates it once.                      *)
FilesOnce == IsInjective(files)

(* A directory is listed after the directory that holds it, so files2fs    *)
(* can create them in this order; so are those that hold the files.        *)
ParentsFirst ==
    /\ \A i \in DOMAIN directories :
          Len(directories[i]) > 1 =>
              \E j \in 1 .. i - 1 : directories[j] = Front(directories[i])
    /\ \A i \in DOMAIN files :
          Len(files[i]) > 1 => Contains(directories, Front(files[i]))

(* A walk that succeeds lists exactly what the selection stands for: the   *)
(* files, the directories with those above them, and the entries that      *)
(* could not be read.                                                      *)
WalkComplete ==
    walk = "ok" =>
        /\ ToSet(files) = (Reached \cap FilePaths) \ Unreadable
        /\ ToSet(errors) = Reached \cap Unreadable
        /\ ToSet(directories) = ((Reached \cap DirPaths) \ Unreadable)
                                    \cup UNION {ToSet(Parents(p)) : p \in Reached}

(* The walk ends.                                                          *)
WalkEnds == <>(walk # "on")
============================================================================
