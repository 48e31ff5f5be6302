------------------------------ MODULE FatFile -------------------------------
(***************************************************************************)
(* The data path of FatFs: f_write, f_read, f_lseek and f_sync of          *)
(* ff/src/ff/ff.c, over the chains of FatChain.                            *)
(*                                                                         *)
(* data[c] is what cluster c holds on the disk, a function from the bytes  *)
(* of a cluster to values. An open file (FIL) is a record fp: its object o *)
(* as in FatChain, fptr, clust (the cluster fptr is in), the one sector it *)
(* caches (sect, the first byte of it as <<cluster, offset>>, and buf),    *)
(* whether that sector is dirty, and whether the entry has to be updated.  *)
(* A state s of an operation is a record [v, data, fp].                    *)
(***************************************************************************)
EXTENDS FatChain

CONSTANTS
    SectorBytes,    \* bytes of a sector (SS)
    MaxFatSize      \* the largest file of FAT32 (0xFFFFFFFF)

ASSUME SectorAssumption ==
    /\ SectorBytes \in Nat \ {0} /\ ClusterBytes % SectorBytes = 0
    /\ MaxFatSize \in Nat

NoSector == <<0, 0>>
Offsets == 0 .. ClusterBytes - 1
SectorOf(c, pos) == <<c, (pos % ClusterBytes) - (pos % SectorBytes)>>

\* The sector sect as it is on the disk.
DiskRead(data, sect) == [i \in 0 .. SectorBytes - 1 |-> data[sect[1]][sect[2] + i]]

\* A sector written to the disk.
DiskWrite(data, sect, buf) ==
    [data EXCEPT ![sect[1]] = [i \in Offsets |->
        IF i \in sect[2] .. sect[2] + SectorBytes - 1 THEN buf[i - sect[2]] ELSE @[i]]]

\* The dirty sector goes back to the disk.
WriteBack(s) ==
    IF s.fp.dirty
    THEN [s EXCEPT !.data = DiskWrite(@, s.fp.sect, s.fp.buf), !.fp.dirty = FALSE]
    ELSE s

NewFil(flags, clust, size) ==
    [o |-> [sclust |-> clust, size |-> size, stat |-> IF flags \in {2, 3} THEN 2 ELSE 0,
            cont |-> 0, frag |-> 0],
     fptr |-> 0, clust |-> 0, sect |-> NoSector,
     buf |-> [i \in 0 .. SectorBytes - 1 |-> 0], dirty |-> FALSE, modified |-> FALSE]

-----------------------------------------------------------------------------
\* At a sector boundary f_write first gets the cluster of fptr, allocating
\* it if need be, and writes the dirty sector back.
EnterSector(s) ==
    LET fp == s.fp
        entered(cc) ==
            IF cc.ret < 2 THEN [s |-> [s EXCEPT !.v = cc.v, !.fp.o = cc.o], ret |-> cc.ret]
            ELSE [s |-> WriteBack([s EXCEPT
                            !.v = cc.v, !.fp.clust = cc.ret,
                            !.fp.o = [cc.o EXCEPT !.sclust = IF @ = 0 THEN cc.ret ELSE @]]),
                  ret |-> cc.ret]
    IN  IF fp.fptr % SectorBytes # 0 THEN [s |-> s, ret |-> fp.clust]
        ELSE IF fp.fptr % ClusterBytes # 0 THEN [s |-> WriteBack(s), ret |-> fp.clust]
        ELSE IF fp.fptr = 0 /\ fp.o.sclust # 0
        THEN entered([v |-> s.v, o |-> fp.o, ret |-> fp.o.sclust])
        ELSE entered(CreateChain(s.v, fp.o, IF fp.fptr = 0 THEN 0 ELSE fp.clust))

\* n bytes, all of them in one sector, by way of the cached sector. It is
\* loaded first unless it begins where the file ends.
ViaBuffer(s, bytes, n) ==
    LET fp == s.fp
        at == fp.fptr % SectorBytes
        sect == SectorOf(fp.clust, fp.fptr)
        old == IF at = 0 /\ fp.sect # sect /\ fp.fptr < fp.o.size
               THEN DiskRead(s.data, sect) ELSE fp.buf
    IN  [s EXCEPT !.fp.sect = IF at = 0 THEN sect ELSE @,
                  !.fp.buf = [i \in 0 .. SectorBytes - 1 |->
                                 IF i \in at .. at + n - 1 THEN bytes[i - at + 1] ELSE old[i]],
                  !.fp.dirty = TRUE]

\* Whole sectors go to the disk directly, as many as the cluster takes; the
\* cached sector is refreshed when it is one of them.
Directly(s, bytes, n) ==
    LET fp == s.fp
        first == fp.fptr % ClusterBytes
        cached == fp.sect[1] = fp.clust /\ fp.sect[2] \in first .. first + n - 1
        store(written) == [s EXCEPT !.data = written,
                                    !.fp.buf = IF cached THEN DiskRead(written, fp.sect) ELSE @,
                                    !.fp.dirty = IF cached THEN FALSE ELSE @]
    IN  store([s.data EXCEPT ![fp.clust] = [i \in Offsets |->
                  IF i \in first .. first + n - 1 THEN bytes[i - first + 1] ELSE @[i]]])

SmallerOf(a, b) == IF a < b THEN a ELSE b

\* The bytes that one round of f_write takes, out of the left ones.
RoundSize(fptr, left) ==
    IF fptr % SectorBytes = 0 /\ left >= SectorBytes
    THEN SmallerOf((left \div SectorBytes) * SectorBytes, ClusterBytes - (fptr % ClusterBytes))
    ELSE SmallerOf(left, SectorBytes - (fptr % SectorBytes))

Put(s, bytes, n) ==
    LET end == s.fp.fptr + n
        w == IF n >= SectorBytes THEN Directly(s, bytes, n) ELSE ViaBuffer(s, bytes, n)
    IN  [w EXCEPT !.fp.fptr = end, !.fp.o.size = IF end > @ THEN end ELSE @]

RECURSIVE WriteLoop(_, _, _)

\* The loop of f_write: done counts the bytes written. A full volume ends
\* it early, without an error; ok is FALSE after an internal error.
WriteLoop(s, bytes, done) ==
    LET left == SubSeq(bytes, done + 1, Len(bytes))
        n == RoundSize(s.fp.fptr, Len(left))
        round(e) ==
            IF e.ret = 0 THEN [s |-> [e.s EXCEPT !.fp.modified = TRUE], done |-> done, ok |-> TRUE]
            ELSE IF e.ret = 1 THEN [s |-> e.s, done |-> done, ok |-> FALSE]
            ELSE WriteLoop(Put(e.s, left, n), bytes, done + n)
    IN  IF left = <<>> THEN [s |-> [s EXCEPT !.fp.modified = TRUE], done |-> done, ok |-> TRUE]
        ELSE round(EnterSector(s))

\* f_write. What would take a file of FAT32 over its largest size is left out.
FWrite(s, bytes) ==
    WriteLoop(s, IF s.v.type = "FAT32" /\ s.fp.fptr + Len(bytes) > MaxFatSize
                 THEN SubSeq(bytes, 1, MaxFatSize - s.fp.fptr) ELSE bytes, 0)

-----------------------------------------------------------------------------
RECURSIVE Follow(_, _, _, _)

\* The cluster-following loop of f_lseek: ofs bytes on from the beginning of
\* clst. A file opened for writing is stretched on the way.
Follow(s, clst, ofs, writing) ==
    LET at == s.fp.fptr + ClusterBytes
        grows == writing /\ at > s.fp.o.size
        sized == [s EXCEPT !.fp.fptr = at, !.fp.o.size = IF grows THEN at ELSE @,
                           !.fp.modified = @ \/ grows]
        move(t, nxt) ==
            IF nxt = 0 /\ writing THEN [s |-> t, ok |-> TRUE]
            ELSE IF nxt \notin Clusters THEN [s |-> t, ok |-> FALSE]
            ELSE Follow([t EXCEPT !.fp.clust = nxt], nxt, ofs - ClusterBytes, writing)
        stretch(cc) == move([sized EXCEPT !.v = cc.v, !.fp.o = cc.o], cc.ret)
    IN  IF ofs <= ClusterBytes
        THEN [s |-> [s EXCEPT !.fp.fptr = @ + ofs, !.fp.clust = clst], ok |-> TRUE]
        ELSE IF writing THEN stretch(CreateChain(s.v, sized.fp.o, clst))
        ELSE move(sized, GetFat(s.v, s.fp.o, clst))

\* After the move: a longer file, and the sector of the new position in the
\* cache when the position is inside a sector.
Settle(s) ==
    LET sect == SectorOf(s.fp.clust, s.fp.fptr)
        grown == s.fp.fptr > s.fp.o.size
        sized == [s EXCEPT !.fp.o.size = IF grown THEN s.fp.fptr ELSE @,
                           !.fp.modified = @ \/ grown]
        load(t) == [t EXCEPT !.fp.buf = DiskRead(t.data, sect), !.fp.sect = sect]
    IN  IF s.fp.fptr % SectorBytes # 0 /\ sect # s.fp.sect THEN load(WriteBack(sized))
        ELSE sized

\* The move itself: from the current cluster when the target is there or
\* further on, else from the first one, created for a file that has none.
SeekTo(s, ofs, writing) ==
    LET fp == s.fp
        base == ((fp.fptr - 1) \div ClusterBytes) * ClusterBytes
        done(r) == IF r.ok THEN [s |-> Settle(r.s), ok |-> TRUE] ELSE r
        start(cc) == IF cc.ret = 0
                     THEN [s |-> [s EXCEPT !.fp.fptr = 0, !.fp.clust = 0], ok |-> TRUE]
                     ELSE Follow([s EXCEPT !.v = cc.v, !.fp.o = [cc.o EXCEPT !.sclust = cc.ret],
                                           !.fp.fptr = 0], cc.ret, ofs, writing)
    IN  IF ofs = 0 THEN [s |-> Settle([s EXCEPT !.fp.fptr = 0]), ok |-> TRUE]
        ELSE IF fp.fptr > 0 /\ (ofs - 1) \div ClusterBytes >= (fp.fptr - 1) \div ClusterBytes
        THEN done(Follow([s EXCEPT !.fp.fptr = base], fp.clust, ofs - base, writing))
        ELSE done(start(IF fp.o.sclust = 0 THEN CreateChain(s.v, fp.o, 0)
                        ELSE [v |-> s.v, o |-> fp.o, ret |-> fp.o.sclust]))

\* Where f_lseek goes: no further than the largest size of FAT32, and within
\* the file when it is open for reading.
SeekTarget(s, target, writing) ==
    LET near == IF s.v.type = "FAT32" THEN SmallerOf(target, MaxFatSize) ELSE target
    IN  IF writing THEN near ELSE SmallerOf(near, s.fp.o.size)

\* f_lseek. On exFAT the last fragment goes to the FAT first.
FLseek(s, target, writing) ==
    LET ofs == SeekTarget(s, target, writing)
        seek(last) == SeekTo([s EXCEPT !.v = last.v, !.fp.o = last.o], ofs, writing)
    IN  IF s.v.type = "EXFAT" THEN seek(FillLastFrag(s.v, s.fp.o, s.fp.clust, EOC))
        ELSE SeekTo(s, ofs, writing)

-----------------------------------------------------------------------------
RECURSIVE ReadLoop(_, _, _)

\* The loop of f_read, one sector at a time: n bytes are left, got is what
\* has been read. A whole sector comes from the disk, over which a dirty
\* cached sector takes precedence; a part of one comes from the cache, which
\* is loaded for it.
ReadLoop(s, n, got) ==
    LET fp == s.fp
        at == fp.fptr % SectorBytes
        k == SmallerOf(n, SectorBytes - at)
        onward(t, from) ==
            ReadLoop([t EXCEPT !.fp.fptr = @ + k], n - k,
                     got \o [i \in 1 .. k |-> from[at + i - 1]])
        load(t, sect) == [t EXCEPT !.fp.sect = sect, !.fp.buf = DiskRead(t.data, sect)]
        cached(t) == onward(t, t.fp.buf)
        in(clst, sect, t) ==
            IF clst \notin Clusters THEN [s |-> s, got |-> got, ok |-> FALSE]
            ELSE IF at = 0 /\ n >= SectorBytes /\ ~(fp.dirty /\ fp.sect = sect)
            THEN onward(t, DiskRead(s.data, sect))
            ELSE IF at # 0 \/ fp.sect = sect THEN cached(t)
            ELSE cached(load(WriteBack(t), sect))
        enter(clst) == in(clst, SectorOf(clst, fp.fptr), [s EXCEPT !.fp.clust = clst])
    IN  IF n = 0 THEN [s |-> s, got |-> got, ok |-> TRUE]
        ELSE enter(IF fp.fptr % ClusterBytes # 0 THEN fp.clust
                   ELSE IF fp.fptr = 0 THEN fp.o.sclust
                   ELSE GetFat(s.v, fp.o, fp.clust))

FRead(s, n) == ReadLoop(s, SmallerOf(n, s.fp.o.size - s.fp.fptr), <<>>)

-----------------------------------------------------------------------------
\* f_sync of a modified file: the cached sector, the links that exFAT owes
\* to the FAT. The caller puts o into the entry.
FSync(s) ==
    LET linked(last) == [s EXCEPT !.v = last.v, !.fp.o = last.o, !.fp.modified = FALSE]
        fill(first) == linked(FillLastFrag(first.v, first.o, s.fp.clust, EOC))
    IN  IF ~s.fp.modified THEN s
        ELSE WriteBack(IF s.v.type = "EXFAT" THEN fill(FillFirstFrag(s.v, s.fp.o))
                       ELSE [s EXCEPT !.fp.modified = FALSE])
=============================================================================
