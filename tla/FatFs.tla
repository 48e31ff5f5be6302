------------------------------- MODULE FatFs --------------------------------
(***************************************************************************)
(* A FAT32 or exFAT image while files2fs fills it: the calls of FSWrite    *)
(* (usbsas-fsrw/src/ff.rs, ff/src/lib.rs) down to f_open, f_mkdir,         *)
(* f_unlink, f_close and the directory tables of ff/src/ff/ff.c. Chains    *)
(* and file data are those of FatChain and FatFile.                        *)
(*                                                                         *)
(* A directory table is a chain of clusters of Entries slots. tab[c] are   *)
(* the slots of cluster c: "end" (never used), "del", "dot", "system", or  *)
(* the path whose entry block the slot belongs to. ent[p] is what the      *)
(* block says: start cluster, size, and flags (GenFlags of exFAT).         *)
(***************************************************************************)
EXTENDS FatFile

CONSTANTS
    Types,          \* the file systems to format, "FAT32" and "EXFAT"
    Paths, Folders, Top,
    Parent(_),
    NameSlots(_, _), \* the slots of the entry block of a path, per type
    Entries,        \* slots of a cluster
    WriteSizes,     \* bytes of one WriteFile
    Byte(_, _),
    Leftovers       \* what the uninitialised object of f_mkdir may hold,
                    \* as <<sclust, objsize>>

\* A name takes at most 19 (exFAT) or 21 (FAT32) slots. A cluster has 16 or more
\* per sector; on exFAT it has 8 sectors or more, so that a name never needs more
\* than one new cluster there.
ASSUME EntriesAssumption ==
    /\ Entries >= 3
    /\ \A p \in Paths : NameSlots("EXFAT", p) \in 1 .. Entries /\ NameSlots("FAT32", p) >= 1

VARIABLES
    vol, data,
    tab, ent,
    fp,             \* the open file
    open,           \* its path, Top for none
    asked           \* the files that files2fs has asked to create

vars == <<vol, data, tab, ent, fp, open, asked>>

NoEntry == [clust |-> 0, size |-> -1, flags |-> 0]
NoFile == NewFil(0, 0, 0)
Blank == [i \in 0 .. Entries - 1 |-> "end"]

\* What f_mkfs leaves: on FAT32 the root directory in cluster 2, on exFAT
\* bitmap and up-case table, one cluster each, and the root directory. Only
\* FAT32 has a count of free clusters and a last one.
RootCluster(v) == IF v.type = "FAT32" THEN 2 ELSE 4
System(v) == IF v.type = "FAT32" THEN {} ELSE {2, 3}

\* The root directory of exFAT begins with the entries of label, bitmap and
\* up-case table.
RootTable(v) == [i \in 0 .. Entries - 1 |->
                    IF v.type = "EXFAT" /\ i < 3 THEN "system" ELSE "end"]

Formatted(type) ==
    IF type = "FAT32"
    THEN [type |-> type, fat |-> [c \in Clusters |-> IF c = 2 THEN EOC ELSE 0],
          bits |-> {}, free |-> NClusters - 1, last |-> 2]
    ELSE [type |-> type, fat |-> [c \in Clusters |-> IF c \in 2 .. 4 THEN EOC ELSE 0],
          bits |-> 2 .. 4, free |-> Unknown, last |-> Unknown]

Init ==
    /\ vol \in {Formatted(t) : t \in Types}
    /\ data = [c \in Clusters |-> [i \in Offsets |-> 0]]
    /\ tab = [c \in Clusters |-> IF c = RootCluster(vol) THEN RootTable(vol) ELSE Blank]
    /\ ent = [p \in Paths |-> NoEntry]
    /\ fp = NoFile
    /\ open = Top
    /\ asked = {}

-----------------------------------------------------------------------------
\* The object of the entry x.
ObjOf(x) ==
    [sclust |-> x.clust, size |-> x.size,
     stat |-> IF x.flags = 3 THEN 2 ELSE 0, cont |-> 0, frag |-> 0]

\* The object of a directory, and its clusters.
DirObj(e, d) == IF d = Top THEN NoChain ELSE ObjOf(e[d])

Table(v, e, d) ==
    IF d = Top THEN Chain(v, NoChain, RootCluster(v))
    ELSE IF e[d] = NoEntry THEN <<>>
    ELSE Chain(v, DirObj(e, d), e[d].clust)

Slot(t, clusters, i) == t[clusters[(i \div Entries) + 1]][i % Entries]

\* dir_find: the table is read up to its first unused slot, for a whole block.
Found(v, t, e, p) ==
    LET n == NameSlots(v.type, p)
        in(cs) == \E i \in 0 .. Len(cs) * Entries - n :
                      /\ \A k \in i .. i + n - 1 : Slot(t, cs, k) = p
                      /\ \A k \in 0 .. i : Slot(t, cs, k) # "end"
    IN  in(Table(v, e, Parent(p)))

\* follow_path as far as the directory of p.
PathOk(p) == Parent(p) = Top \/ Found(vol, tab, ent, Parent(p))

\* The slots from first on, n of them, given to x.
Fill(t, clusters, first, n, x) ==
    [c \in Clusters |-> [i \in 0 .. Entries - 1 |->
        IF \E k \in first .. first + n - 1 :
              clusters[(k \div Entries) + 1] = c /\ k % Entries = i
        THEN x ELSE t[c][i]]]

Stretched_KeepsEntry(v, o, e, d, ncl) ==
    LET filled(first) == [v |-> FillLastFrag(first.v, first.o, ncl, EOC).v, e |-> e]
    IN  IF v.type = "FAT32" THEN [v |-> v, e |-> e] ELSE filled(FillFirstFrag(v, o))

\* The new cluster of an exFAT directory reaches the FAT, and the entry of a
\* sub-directory gets its new size and status.
Stretched(v, o, e, d, ncl) ==
    LET entry(last) ==
            [v |-> last.v,
             e |-> IF d = Top THEN e
                   ELSE [e EXCEPT ![d] = [@ EXCEPT !.size = @ + ClusterBytes,
                                                   !.flags = last.o.stat + 1]]]
        filled(first) == entry(FillLastFrag(first.v, first.o, ncl, EOC))
    IN  IF v.type = "FAT32" THEN [v |-> v, e |-> e] ELSE filled(FillFirstFrag(v, o))

RECURSIVE DirAlloc(_, _)

\* dir_alloc: the first run of n unused slots in the table x.cs, which is
\* stretched by a cluster as often as need be. A table that cannot be
\* stretched again keeps the clusters it was given.
DirAlloc(x, n) ==
    LET runs == {i \in 0 .. Len(x.cs) * Entries - n :
                    \A k \in i .. i + n - 1 : Slot(x.t, x.cs, k) \in {"end", "del"}}
        longer(cc) ==
            IF cc.ret < 2 THEN [x |-> x, at |-> -1]
            ELSE DirAlloc([v |-> cc.v, o |-> cc.o, t |-> [x.t EXCEPT ![cc.ret] = Blank],
                           cs |-> Append(x.cs, cc.ret)], n)
    IN  IF runs # {} THEN [x |-> x, at |-> MinOf(runs)]
        ELSE longer(CreateChain(x.v, x.o, x.cs[Len(x.cs)]))

\* dir_register, with the table cs of the directory that p goes into.
Register(v, t, e, p, cs) ==
    LET n == NameSlots(v.type, p)
        entered(x, at, w) == [ok |-> TRUE, v |-> w.v, e |-> w.e, t |-> Fill(x.t, x.cs, at, n, p)]
        result(x, at) ==
            IF at < 0 THEN [ok |-> FALSE, v |-> x.v, e |-> e, t |-> x.t]
            ELSE entered(x, at, IF Len(x.cs) = Len(cs) THEN [v |-> x.v, e |-> e]
                                ELSE Stretched(x.v, x.o, e, Parent(p), x.cs[Len(x.cs)]))
        given(d) == result(d.x, d.at)
    IN  given(DirAlloc([v |-> v, o |-> DirObj(e, Parent(p)), t |-> t, cs |-> cs], n))

DirRegister(v, t, e, p) == Register(v, t, e, p, Table(v, e, Parent(p)))

\* The path leads to a directory that has no such name (f_open and f_mkdir
\* answer FR_NO_PATH or FR_EXIST otherwise).
Creatable(p) == PathOk(p) /\ ~Found(vol, tab, ent, p)

-----------------------------------------------------------------------------
\* f_open with FA_WRITE and FA_CREATE_NEW. The entry is new, empty, without
\* clusters.
NewFile(p) ==
    /\ open = Top /\ p \in Paths \ (Folders \cup asked)
    /\ asked' = asked \cup {p}
    /\ UNCHANGED data
    /\ \/ /\ Creatable(p)
          /\ \E r \in {DirRegister(vol, tab, ent, p)} :
                /\ vol' = r.v /\ tab' = r.t
                /\ ent' = IF r.ok
                          THEN [r.e EXCEPT ![p] = [clust |-> 0, size |-> 0, flags |->
                                                      IF vol.type = "FAT32" THEN 0 ELSE 1]]
                          ELSE ent
                /\ fp' = IF r.ok THEN [NewFil(1, 0, 0) EXCEPT !.modified = TRUE] ELSE fp
                /\ open' = IF r.ok THEN p ELSE Top
       \/ /\ ~Creatable(p)
          /\ UNCHANGED <<vol, tab, ent, fp, open>>

State == [v |-> vol, data |-> data, fp |-> fp]

\* The entry of the open file gets what the file knows after f_sync.
EntryOf(done) ==
    [clust |-> done.fp.o.sclust, size |-> done.fp.o.size,
     flags |-> IF vol.type = "FAT32" THEN 0 ELSE done.fp.o.stat + 1]

\* f_close and f_unlink: the entry block is marked deleted and the chain freed.
CloseAndRemove(s) ==
    \E done \in {FSync(s)} : \E gone \in {ObjOf(EntryOf(done))} :
        /\ vol' = RemoveChain(done.v, gone, gone.sclust)
        /\ data' = done.data
        /\ tab' = [k \in Clusters |-> [i \in 0 .. Entries - 1 |->
                      IF tab[k][i] = open THEN "del" ELSE tab[k][i]]]
        /\ ent' = [ent EXCEPT ![open] = NoEntry]
        /\ fp' = NoFile /\ open' = Top
        /\ UNCHANGED asked

WriteFile_IgnoresShort(n) ==
    /\ open # Top
    /\ \E seek \in {FLseek(State, fp.fptr, TRUE)} :
       \E w \in {FWrite(seek.s, [i \in 1 .. n |-> Byte(open, fp.fptr + i)])} :
          \/ /\ w.ok
             /\ vol' = w.s.v /\ data' = w.s.data /\ fp' = w.s.fp
             /\ UNCHANGED <<tab, ent, open, asked>>
          \/ /\ ~w.ok
             /\ CloseAndRemove(w.s)

\* One WriteFile of files2fs: a seek to where the file ends, then write_all.
\* A volume that fills up ends in the removal of the file.
WriteFile(n) ==
    /\ open # Top
    /\ \E seek \in {FLseek(State, fp.fptr, TRUE)} :
       \E w \in {FWrite(seek.s, [i \in 1 .. n |-> Byte(open, fp.fptr + i)])} :
          \/ /\ w.ok /\ w.done = n
             /\ vol' = w.s.v /\ data' = w.s.data /\ fp' = w.s.fp
             /\ UNCHANGED <<tab, ent, open, asked>>
          \/ /\ ~(w.ok /\ w.done = n)
             /\ CloseAndRemove(w.s)

\* A WriteFile whose offset is not the end of the file.
WriteSparse ==
    /\ open # Top
    /\ CloseAndRemove(FLseek(State, fp.fptr, TRUE).s)

\* EndFile: f_close, and f_utime, which only sets times.
EndFile ==
    /\ open # Top
    /\ \E done \in {FSync(State)} :
          /\ vol' = done.v /\ data' = done.data
          /\ ent' = [ent EXCEPT ![open] = EntryOf(done)]
    /\ fp' = NoFile /\ open' = Top
    /\ UNCHANGED <<tab, asked>>

\* A table as f_mkdir clears it, on FAT32 with the two dot entries.
NewTable == [i \in 0 .. Entries - 1 |->
                IF vol.type = "FAT32" /\ i < 2 THEN "dot" ELSE "end"]

\* The entry of the directory is registered or, when the table of its parent
\* cannot be stretched, the cluster is given back. The object that f_mkdir
\* gives it back with is not initialised but for the status: on exFAT, where a
\* contiguous chain is computed from it, anything may follow.
RegisterDir(p, dcl, r) ==
    \/ /\ r.ok
       /\ vol' = r.v /\ tab' = r.t
       /\ ent' = [r.e EXCEPT ![p] =
             IF vol.type = "FAT32" THEN [clust |-> dcl, size |-> 0, flags |-> 0]
             ELSE [clust |-> dcl, size |-> ClusterBytes, flags |-> 3]]
    \/ /\ ~r.ok
       /\ \E left \in IF vol.type = "FAT32" THEN {<<0, 0>>} ELSE Leftovers :
             vol' = RemoveChain(r.v, [NoChain EXCEPT !.stat = 2, !.sclust = left[1],
                                                     !.size = left[2]], dcl)
       /\ tab' = r.t
       /\ UNCHANGED ent

\* f_mkdir, after which an existing directory is no error. A cluster is taken
\* and cleared before the entry is registered.
NewDir(p) ==
    /\ open = Top /\ p \in Folders
    /\ UNCHANGED <<data, fp, open, asked>>
    /\ \/ /\ Creatable(p)
          /\ \E cc \in {CreateChain(vol, NoChain, 0)} :
                \/ /\ cc.ret >= 2
                   /\ RegisterDir(p, cc.ret, DirRegister(cc.v, [tab EXCEPT ![cc.ret] = NewTable],
                                                         ent, p))
                \/ /\ cc.ret < 2
                   /\ UNCHANGED <<vol, tab, ent>>
       \/ /\ ~Creatable(p)
          /\ UNCHANGED <<vol, tab, ent>>

Next ==
    \/ \E p \in Paths : NewFile(p) \/ NewDir(p)
    \/ \E n \in WriteSizes : WriteFile(n)
    \/ WriteSparse
    \/ EndFile

Spec == Init /\ [][Next]_vars

-----------------------------------------------------------------------------
\* The volume once the open file is closed, and what the entries say then.
Settled ==
    LET closed(done) == [s |-> done, e |-> [ent EXCEPT ![open] = EntryOf(done)]]
    IN  IF open = Top THEN [s |-> State, e |-> ent] ELSE closed(FSync(State))

\* f_open for reading, f_lseek and f_read of n bytes from pos.
ReadFile(now, p, pos, n) ==
    FRead(FLseek([now.s EXCEPT !.fp = [NoFile EXCEPT !.o = ObjOf(now.e[p])]], pos, FALSE).s, n)

Existing == {p \in Paths : ent[p] # NoEntry}

\* The chains there are: of the root directory, of every entry.
Chains(now) ==
    [p \in {Top} \cup {q \in Existing : now.e[q].clust # 0} |->
        IF p = Top THEN Table(now.s.v, now.e, Top)
        ELSE Chain(now.s.v, ObjOf(now.e[p]), now.e[p].clust)]

Used(v) == IF v.type = "FAT32" THEN {c \in Clusters : v.fat[c] # 0} ELSE v.bits

\* Every chain ch[p] has the length that the entry calls for and ends there, no
\* two share a cluster, and together they are what is marked in use.
Sound(now, v, ch) ==
    /\ \A p, q \in DOMAIN ch : p # q => SetOf(ch[p]) \cap SetOf(ch[q]) = {}
    /\ \A p \in DOMAIN ch \ {Top} :
          /\ p \notin Folders =>
                Len(ch[p]) = (now.e[p].size + ClusterBytes - 1) \div ClusterBytes
          /\ GetFat(v, ObjOf(now.e[p]), ch[p][Len(ch[p])]) >= NFatEnt
    /\ Used(v) = System(v) \cup UNION {SetOf(ch[p]) : p \in DOMAIN ch}
    /\ v.type = "FAT32" => v.free = NClusters - Cardinality(Used(v))

\* Files and directories share no cluster, every chain has the length that its
\* size calls for and ends where it says, every cluster marked in use belongs
\* to a chain, and FAT32's count of free clusters is exact (create_chain and
\* remove_chain of ff.c, over writes that fragment and files that are removed).
ChainsSound == \A now \in {Settled} : Sound(now, now.s.v, Chains(now))

\* An entry is where a search for its name finds it, and its block has all of
\* its slots, whatever was stretched or deleted around it (dir_register,
\* dir_remove).
EntriesFound ==
    \A p \in Paths :
        /\ (ent[p] # NoEntry) = Found(vol, tab, ent, p)
        /\ Cardinality({<<c, i>> \in Clusters \X (0 .. Entries - 1) : tab[c][i] = p})
              = IF ent[p] = NoEntry THEN 0 ELSE NameSlots(vol.type, p)

\* The bytes a file should hold: those that were written, as many as its size.
Contents ==
    [p \in Paths |->
        LET size == IF p = open THEN fp.o.size ELSE ent[p].size
        IN  IF p \in Existing \ Folders THEN [i \in 1 .. size |-> Byte(p, i)] ELSE <<>>]

\* Reading a file, from any position and in any length, gives the bytes that
\* were written there, and so it does for the open file once it is closed
\* (f_lseek, f_read and f_sync of ff.c over what f_write left).
ReadsBack ==
    \A now \in {Settled} : \A p \in Existing \ Folders :
        \A pos \in 0 .. now.e[p].size : \A n \in 1 .. now.e[p].size :
            \A r \in {ReadFile(now, p, pos, n)} :
                /\ r.ok
                /\ r.got = SubSeq(Contents[p], pos + 1, SmallerOf(pos + n, now.e[p].size))

\* A directory that could not be registered takes no cluster: what is in use
\* after f_mkdir was before, or is part of its parent's table.
MkdirUndone ==
    [][\A p \in Paths : NewDir(p) /\ ent' = ent =>
          Used(vol') \subseteq Used(vol) \cup SetOf(Table(vol', ent', Parent(p)))]_vars

Store == INSTANCE FileStore WITH stored <- Existing, content <- Contents

\* The image is a file store: every call of FSWrite that FatFs carries out is
\* one of FileStore, or it fails and changes nothing that can be seen. With
\* ReadsBack, the contents are on the disk.
ImplementsFileStore == Store!Spec
=============================================================================
