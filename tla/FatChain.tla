------------------------------ MODULE FatChain ------------------------------
(***************************************************************************)
(* Cluster chains and the cluster allocator of FatFs (ff/src/ff/ff.c), the *)
(* library behind the FAT32 and exFAT images.                              *)
(*                                                                         *)
(* A volume is a record v:                                                 *)
(*   type   "FAT32" or "EXFAT" (fs_type)                                   *)
(*   fat    the FAT, a function on clusters: 0 free, EOC last, else next   *)
(*   bits   the clusters marked in use in the allocation bitmap (exFAT)    *)
(*   free   free_clst, Unknown when it has not been counted                *)
(*   last   last_clst, where the last cluster was allocated                *)
(* An object (FFOBJID) is a record o: sclust, size, stat, cont, frag.      *)
(* On exFAT an object that is contiguous (stat 2) has nothing on the FAT.  *)
(* One that stops being so while it is written (stat 3) owes the FAT the   *)
(* links of its first fragment (cont of them) and, as long as frag is not  *)
(* 0, those of its last fragment.                                          *)
(***************************************************************************)
EXTENDS Integers, Sequences, FiniteSets

CONSTANTS
    NClusters,      \* clusters of the volume
    ClusterBytes    \* bytes of a cluster (csize * SS)

ASSUME ChainAssumption == NClusters \in Nat \ {0} /\ ClusterBytes \in Nat \ {0}

NFatEnt == NClusters + 2
Clusters == 2 .. NClusters + 1
EOC == 268435455
Unknown == 2147483647

MinOf(S) == CHOOSE x \in S : \A y \in S : x <= y

\* The first member of S going up from c, wrapping around; 0 if there is none.
FirstFrom(S, c) ==
    IF S = {} THEN 0
    ELSE LET up == {x \in S : x >= c} IN IF up # {} THEN MinOf(up) ELSE MinOf(S)

\* An object without clusters.
NoChain == [sclust |-> 0, size |-> 0, stat |-> 0, cont |-> 0, frag |-> 0]

-----------------------------------------------------------------------------
\* The status of cluster c of the object o: 0 free, 1 internal error, EOC
\* or any number beyond the FAT for the last one, else the next cluster.
GetFat(v, o, c) ==
    LET cofs == c - o.sclust
        clen == (o.size - 1) \div ClusterBytes
    IN  IF c \notin Clusters THEN 1
        ELSE IF v.type = "FAT32" THEN v.fat[c]
        ELSE IF ~((o.size # 0 /\ o.sclust # 0) \/ o.stat = 0) THEN 1
        ELSE IF o.stat = 2
             THEN IF cofs \in 0 .. clen
                  THEN IF cofs = clen THEN EOC ELSE c + 1
                  ELSE 1
        ELSE IF o.stat = 3 /\ cofs \in 0 .. o.cont - 1 THEN c + 1
        ELSE IF o.frag # 0 THEN EOC
        ELSE v.fat[c]

PutFat(v, c, val) == [v EXCEPT !.fat[c] = val]

FindBitmap(v, c) == FirstFrom(Clusters \ v.bits, c)

\* The links of the first fragment go to the FAT, which is then valid.
FillFirstFrag(v, o) ==
    IF o.stat = 3
    THEN [v |-> [v EXCEPT !.fat = [c \in Clusters |->
                    IF c \in o.sclust .. o.sclust + o.cont - 1 THEN c + 1 ELSE @[c]]],
          o |-> [o EXCEPT !.stat = 0]]
    ELSE [v |-> v, o |-> o]

\* The last fragment, which ends at lcl, goes to the FAT and is ended by term.
FillLastFrag(v, o, lcl, term) ==
    [v |-> [v EXCEPT !.fat = [c \in Clusters |->
               IF c \in lcl - o.frag + 1 .. lcl
               THEN IF c = lcl THEN term ELSE c + 1
               ELSE @[c]]],
     o |-> [o EXCEPT !.frag = 0]]

-----------------------------------------------------------------------------
\* The clusters from c on, following GetFat.
Chain(v, o, c) ==
    LET upTo[n \in 0 .. NClusters] ==
            IF n = 0 THEN <<c>>
            ELSE LET s == upTo[n - 1]
                     nxt == GetFat(v, o, s[Len(s)])
                 IN  IF nxt \in Clusters /\ \A i \in 1 .. Len(s) : s[i] # nxt
                     THEN Append(s, nxt) ELSE s
    IN  upTo[NClusters]

SetOf(s) == {s[i] : i \in 1 .. Len(s)}

RemoveChain_KeepsCount(v, o, clst) ==
    LET gone == SetOf(Chain(v, o, clst))
    IN  IF v.type = "FAT32"
        THEN [v EXCEPT !.fat = [c \in Clusters |-> IF c \in gone THEN 0 ELSE @[c]]]
        ELSE [v EXCEPT !.bits = @ \ gone]

\* The clusters of a chain cs that the loop of remove_chain frees: it stops at
\* one that has no link, or a bad one, without freeing it.
Walked(v, o, cs) ==
    IF GetFat(v, o, cs[Len(cs)]) \in {0, 1} THEN SubSeq(cs, 1, Len(cs) - 1) ELSE cs

\* The bits of exFAT are cleared a contiguous block at a time, once the block
\* has ended.
Cleared(v, o, cs) ==
    {cs[i] : i \in {k \in 1 .. Len(cs) :
                       \E j \in k .. Len(cs) : GetFat(v, o, cs[j]) # cs[j] + 1}}

\* A whole chain is freed: the FAT entries of FAT32, the bits of exFAT.
RemoveChain(v, o, clst) ==
    LET removed(gone) ==
            LET counted == [v EXCEPT !.free =
                               IF @ < NFatEnt - 2
                               THEN MinOf({@ + Len(gone), NFatEnt - 2}) ELSE @]
            IN  IF v.type = "FAT32"
                THEN [counted EXCEPT !.fat = [c \in Clusters |->
                                                 IF c \in SetOf(gone) THEN 0 ELSE @[c]]]
                ELSE [counted EXCEPT !.bits = @ \ Cleared(v, o, gone)]
    IN  IF clst \notin Clusters THEN v ELSE removed(Walked(v, o, Chain(v, o, clst)))

-----------------------------------------------------------------------------
\* Where create_chain of FAT32 takes the cluster that follows clst, or that
\* begins a chain when clst is 0: next to clst if that one is free, else
\* the first free one after the last allocation.
NewFat32Cluster(v, clst) ==
    LET unused == {c \in Clusters : v.fat[c] = 0}
        valid(c) == c \in Clusters
        next == IF clst + 1 >= NFatEnt THEN 2 ELSE clst + 1
    IN  IF clst = 0 THEN FirstFrom(unused, IF valid(v.last) THEN v.last + 1 ELSE 2)
        ELSE IF next \in unused THEN next
        ELSE FirstFrom(unused, (IF valid(v.last) THEN v.last ELSE clst) + 1)

\* On exFAT the search goes from clst, or from the last allocation, upwards.
NewExfatCluster(v, clst) ==
    FindBitmap(v, IF clst # 0 THEN clst
                  ELSE IF v.last \in Clusters THEN v.last ELSE 1)

\* ncl goes behind clst in the chain of an exFAT object that is not contiguous.
Linked(v, o, clst, ncl) ==
    LET one == [o EXCEPT !.frag = IF @ = 0 THEN 1 ELSE @]
        put(f) == [v |-> f.v, o |-> [f.o EXCEPT !.frag = 1]]
    IN  IF o.stat = 2 THEN [v |-> v, o |-> o]
        ELSE IF ncl = clst + 1 THEN [v |-> v, o |-> [one EXCEPT !.frag = @ + 1]]
        ELSE put(FillLastFrag(v, one, clst, ncl))

Fragmented_ForgetsFirst(v, o, clst, ncl) ==
    Linked(v, IF clst = 0 THEN [o EXCEPT !.stat = 2]
              ELSE IF o.stat = 2 /\ ncl # clst + 1 THEN [o EXCEPT !.stat = 0]
              ELSE o, clst, ncl)

\* What becomes of an exFAT object when ncl is put behind clst: new, it is
\* contiguous; contiguous, it stays so as long as ncl is next to clst.
Fragmented(v, o, clst, ncl) ==
    Linked(v, IF clst = 0 THEN [o EXCEPT !.stat = 2]
              ELSE IF o.stat = 2 /\ ncl # clst + 1
              THEN [o EXCEPT !.stat = 3, !.cont = clst - o.sclust]
              ELSE o, clst, ncl)

\* The cluster ncl is marked in use and put behind clst.
Take(v, o, clst, ncl) ==
    IF v.type = "EXFAT" THEN Fragmented([v EXCEPT !.bits = @ \cup {ncl}], o, clst, ncl)
    ELSE LET w == PutFat(v, ncl, EOC)
         IN  [v |-> IF clst = 0 THEN w ELSE PutFat(w, clst, ncl), o |-> o]

NewCluster(v, clst) ==
    IF v.free = 0 THEN 0
    ELSE IF v.type = "FAT32" THEN NewFat32Cluster(v, clst)
    ELSE NewExfatCluster(v, clst)

\* The cluster that follows clst in the chain of o, allocated if there is
\* none; a new chain when clst is 0. ret is 0 when the volume is full, 1 on
\* an internal error.
CreateChain(v, o, clst) ==
    LET counted(t, ncl) ==
            [v |-> [t.v EXCEPT !.last = ncl, !.free = IF @ <= NFatEnt - 2 THEN @ - 1 ELSE @],
             o |-> t.o, ret |-> ncl]
        stretch(ncl) == IF ncl = 0 THEN [v |-> v, o |-> o, ret |-> 0]
                        ELSE counted(Take(v, o, clst, ncl), ncl)
        follow(cs) == IF cs < 2 THEN [v |-> v, o |-> o, ret |-> 1]
                      ELSE IF cs < NFatEnt THEN [v |-> v, o |-> o, ret |-> cs]
                      ELSE stretch(NewCluster(v, clst))
    IN  IF clst = 0 THEN stretch(NewCluster(v, 0)) ELSE follow(GetFat(v, o, clst))
=============================================================================
