-------------------------- MODULE SectorCopyProofs --------------------------
(***************************************************************************)
(* What SectorCopy's runs check on a device of a few sectors, proved for   *)
(* every sector size, device size, write size and chunk size.              *)
(***************************************************************************)
EXTENDS SectorCopy, FiniteSetTheorems, TLAPS

---------------------------------------------------------------------------
(* Arithmetic.                                                             *)

(* A natural number, its quotient and its remainder.                       *)
LEMMA DivMod ==
    ASSUME NEW a \in Nat, NEW d \in Nat \ {0}
    PROVE  /\ a \div d \in Nat
           /\ a % d \in 0 .. d - 1
           /\ a = (a \div d) * d + (a % d)
           /\ (a \div d) * d <= a
           /\ a < (a \div d + 1) * d
  BY SMT

(* Multiples of a positive number are ordered as their factors.            *)
LEMMA MultipleOrder ==
    ASSUME NEW m \in Int, NEW n \in Int, NEW d \in Nat \ {0}, m * d < n * d
    PROVE  m < n
  BY SMT

(* A product of natural numbers is one.                                    *)
LEMMA ProductNat ==
    ASSUME NEW m \in Nat, NEW n \in Nat
    PROVE  m * n \in Nat
  BY SMT

(* ChunkBits is a number of whole bytes, so rounding it up to bytes, as    *)
(* the bit vector does when it is sent, adds nothing: a flag arrives at    *)
(* the position it had.                                                    *)
LEMMA ForwardedExact ==
    ASSUME NEW s \in Nat
    PROVE  Forwarded(s) = s
<1> DEFINE k == ChunkBits \div ByteBits
           bytes == (ChunkBits + ByteBits - 1) \div ByteBits
<1>1. /\ k \in Nat
      /\ ChunkBits = k * ByteBits
  BY DivMod, ChunksAreBytes
<1>2. /\ bytes \in Nat
      /\ bytes * ByteBits <= ChunkBits + ByteBits - 1
      /\ ChunkBits + ByteBits - 1 < (bytes + 1) * ByteBits
  <2>1. ChunkBits + ByteBits - 1 \in Nat
    BY ChunksAreBytes
  <2> QED
    BY <2>1, DivMod, ChunksAreBytes
<1>3. bytes = k
  <2> HIDE DEF k, bytes
  <2>1. bytes * ByteBits < (k + 1) * ByteBits
    BY <1>1, <1>2, ChunksAreBytes
  <2>2. k * ByteBits < (bytes + 1) * ByteBits
    BY <1>1, <1>2, ChunksAreBytes
  <2>3. bytes < k + 1 /\ k < bytes + 1
    BY <2>1, <2>2, <1>1, <1>2, MultipleOrder, ChunksAreBytes
  <2> QED
    BY <2>3, <1>1, <1>2
<1>4. (s \div ChunkBits) * ChunkBits + (s % ChunkBits) = s
  BY DivMod, ChunksAreBytes
<1>5. s \div ChunkBits \in Nat
  BY DivMod, ChunksAreBytes
<1>6. (s \div ChunkBits) * bytes * ByteBits = (s \div ChunkBits) * ChunkBits
  <2> HIDE DEF k, bytes
  <2> QED
    BY <1>1, <1>3, <1>5, ChunksAreBytes
<1> QED
  BY <1>4, <1>6 DEF Forwarded

(* The sectors flagged by a write hold all of its bytes, start before its  *)
(* end and belong to the device.                                           *)
LEMMA TouchedExact ==
    ASSUME NEW offset \in Nat, NEW size \in Nat \ {0},
           offset + size <= DevSize
    PROVE  /\ \A b \in offset .. offset + size - 1 :
                  b \div SectorSize \in Touched(offset, size)
           /\ \A s \in Touched(offset, size) : s * SectorSize < offset + size
           /\ Touched(offset, size) \subseteq Sectors
<1> DEFINE lo == offset \div SectorSize
           hi == (offset + size + SectorSize - 1) \div SectorSize
<1>1. /\ lo \in Nat
      /\ lo * SectorSize <= offset
  BY DivMod, SectorSizePositive
<1>2. /\ hi \in Nat
      /\ hi * SectorSize <= offset + size + SectorSize - 1
      /\ offset + size + SectorSize - 1 < (hi + 1) * SectorSize
  <2>1. offset + size + SectorSize - 1 \in Nat
    BY SectorSizePositive
  <2> QED
    BY ONLY <2>1, DivMod, SectorSizePositive
<1>3. Touched(offset, size) = lo .. hi - 1
  BY DEF Touched
<1> HIDE DEF lo, hi
<1>4. ASSUME NEW b \in offset .. offset + size - 1
      PROVE  b \div SectorSize \in Touched(offset, size)
  <2> DEFINE q == b \div SectorSize
  <2> b \in Nat
    OBVIOUS
  <2>1. /\ q \in Nat
        /\ q * SectorSize <= b
        /\ b < (q + 1) * SectorSize
    BY DivMod, SectorSizePositive
  <2> HIDE DEF q
  <2>2. lo * SectorSize < (q + 1) * SectorSize
    BY <2>1, <1>1, SectorSizePositive
  <2>3. (q + 1) * SectorSize < (hi + 1) * SectorSize
    BY <2>1, <1>2, SectorSizePositive
  <2>4. lo < q + 1 /\ q + 1 < hi + 1
    BY <2>2, <2>3, <2>1, <1>1, <1>2, MultipleOrder, SectorSizePositive
  <2>5. q \in lo .. hi - 1
    BY <2>4, <2>1, <1>1, <1>2
  <2> QED
    BY <2>5, <1>3 DEF q
<1>5. ASSUME NEW s \in Touched(offset, size)
      PROVE  s \in Nat /\ s * SectorSize < offset + size
  <2>1. s \in Nat /\ s + 1 <= hi
    BY <1>1, <1>2, <1>3
  <2>2. (s + 1) * SectorSize <= hi * SectorSize
    BY <2>1, <1>2, SectorSizePositive
  <2> QED
    BY <2>1, <2>2, <1>2, SectorSizePositive
<1>6. ASSUME NEW s \in Touched(offset, size)
      PROVE  s \in Sectors
  <2>1. s * SectorSize < SectorCount * SectorSize
    BY <1>5, SectorSizePositive, SectorCountPositive DEF DevSize
  <2>2. s < SectorCount
    BY <2>1, <1>5, MultipleOrder, SectorSizePositive, SectorCountPositive
  <2> QED
    BY <2>2, <1>5, SectorCountPositive DEF Sectors
<1> QED
  BY <1>4, <1>5, <1>6

---------------------------------------------------------------------------
(* The inductive invariant.                                                *)

(* While the device is wiped, what is left to wipe is a number of whole    *)
(* sectors and those before pos are zeroed.                                *)
WipeInv ==
    phase = "wipe" => /\ todo = (SectorCount - pos) * SectorSize
                      /\ \A s \in Sectors : s < pos => disk[s] = "zero"

(* Only flagged sectors ever hold the image, and during the copy all of    *)
(* those before pos do.                                                    *)
CopyInv ==
    /\ phase = "fs" => pos = 0
    /\ phase \in {"wipe", "fs"} => \A s \in Sectors : disk[s] # "image"
    /\ \A s \in Sectors : disk[s] = "image" => s \in bv
    /\ phase \in {"copy", "done"} => \A s \in bv : s < pos => disk[s] = "image"
    /\ phase = "done" => \A s \in bv : s < pos

(* The sector of every byte written is flagged.                            *)
WrittenFlagged == \A b \in written : b \div SectorSize \in bv

IndInv == /\ TypeOK
          /\ WipeInv
          /\ CopyInv
          /\ WrittenFlagged
          /\ StartsInFile
          /\ NothingOldLeft

(* The device has at least one byte.                                       *)
LEMMA DevSizeNat == DevSize \in Nat /\ DevSize > 0
  BY SectorSizePositive, SectorCountPositive DEF DevSize

(* Before the first step nothing is wiped, written, flagged or copied.      *)
LEMMA InitInv == Init => IndInv
<1> SUFFICES ASSUME Init PROVE IndInv
  OBVIOUS
<1>1. TypeOK
  BY DevSizeNat, SectorCountPositive, MaxWritesInNat DEF Init, TypeOK
<1>2. WipeInv
  BY SectorSizePositive, SectorCountPositive
     DEF Init, WipeInv, DevSize, Sectors
<1>3. CopyInv /\ WrittenFlagged /\ StartsInFile /\ NothingOldLeft
  BY DEF Init, CopyInv, WrittenFlagged, StartsInFile, NothingOldLeft
<1> QED
  BY <1>1, <1>2, <1>3 DEF IndInv

(* A turn of the wiping loop zeroes a number of whole sectors, at least    *)
(* one, that are all on the device.                                        *)
LEMMA WipeGroupWhole ==
    ASSUME IndInv, WipeGroup
    PROVE  \E n \in Nat \ {0} :
              /\ pos + n <= SectorCount
              /\ pos' = pos + n
              /\ todo' = (SectorCount - pos') * SectorSize
              /\ todo' \in 0 .. DevSize
              /\ disk' = [s \in Sectors |-> IF pos <= s /\ s < pos + n
                                              THEN "zero" ELSE disk[s]]
<1> DEFINE left == SectorCount - pos
           n == IF left < MaxWrite THEN left ELSE MaxWrite
           len == IF todo < MaxWrite * SectorSize THEN todo
                                                  ELSE MaxWrite * SectorSize
<1>1. left \in Nat /\ todo = left * SectorSize /\ todo > 0
  BY SectorCountPositive DEF IndInv, TypeOK, WipeInv, WipeGroup
<1> HIDE DEF left
<1>2. left > 0
  BY <1>1, SectorSizePositive
<1>3. n \in Nat \ {0} /\ n <= left
  BY <1>1, <1>2, MaxWritePositive
<1>4. len = n * SectorSize
  <2>1. CASE left < MaxWrite
    <3>1. left * SectorSize < MaxWrite * SectorSize
      BY <2>1, <1>1, MaxWritePositive, SectorSizePositive
    <3> QED
      BY <3>1, <2>1, <1>1
  <2>2. CASE ~(left < MaxWrite)
    <3>1. ~(left * SectorSize < MaxWrite * SectorSize)
      BY <2>2, <1>1, MaxWritePositive, SectorSizePositive
    <3> QED
      BY <3>1, <2>2, <1>1
  <2> QED
    BY <2>1, <2>2
<1> HIDE DEF n
<1>5. len \div SectorSize = n
  BY <1>3, <1>4, SectorSizePositive
<1>6. /\ pos' = pos + n
      /\ todo' = todo - len
      /\ disk' = [s \in Sectors |-> IF pos <= s /\ s < pos + n
                                      THEN "zero" ELSE disk[s]]
  BY <1>5 DEF WipeGroup
<1>7. pos \in Nat /\ pos + n <= SectorCount
  BY <1>3, SectorCountPositive DEF left, IndInv, TypeOK
<1>8. todo' = (SectorCount - pos') * SectorSize
  <2>1. todo' = (left - n) * SectorSize
    BY <1>1, <1>3, <1>4, <1>6, SectorSizePositive
  <2>2. left - n = SectorCount - pos'
    BY <1>3, <1>6, <1>7, SectorCountPositive DEF left
  <2> QED
    BY <2>1, <2>2
<1>9. todo' \in 0 .. DevSize
  <2>1. SectorCount - pos' \in 0 .. SectorCount
    BY <1>3, <1>6, <1>7, SectorCountPositive
  <2> QED
    BY <2>1, <1>8, SectorSizePositive, SectorCountPositive DEF DevSize
<1> QED
  BY <1>3, <1>6, <1>7, <1>8, <1>9

(* A turn of the copying loop writes a piece of the next run of flags, at  *)
(* most MaxWrite sectors, all on the device.                               *)
LEMMA CopyGroupPiece ==
    ASSUME IndInv, CopyGroup
    PROVE  \E start \in 0 .. SectorCount, end \in 0 .. SectorCount :
              /\ pos <= start /\ start < end /\ end - start <= MaxWrite
              /\ \A s \in bv : pos <= s => start <= s
              /\ start .. end - 1 \subseteq bv
              /\ pos' = end
              /\ disk' = [s \in Sectors |-> IF start <= s /\ s < end
                                              THEN "image" ELSE disk[s]]
<1>1. PICK start \in 0 .. SectorCount, stop \in 0 .. SectorCount :
         LET end == IF stop - start > MaxWrite THEN start + MaxWrite ELSE stop
         IN /\ NextOnes(start, stop)
            /\ pos' = end
            /\ disk' = [s \in Sectors |-> IF start <= s /\ s < end
                                            THEN "image" ELSE disk[s]]
  BY DEF CopyGroup
<1> DEFINE end == IF stop - start > MaxWrite THEN start + MaxWrite ELSE stop
<1>2. /\ pos <= start /\ start < stop
      /\ \A s \in bv : pos <= s => start <= s
      /\ start .. stop - 1 \subseteq bv
  BY <1>1 DEF NextOnes
<1>3. /\ end \in 0 .. SectorCount
      /\ start < end /\ end <= stop
      /\ end - start <= MaxWrite
  BY <1>2, MaxWritePositive, SectorCountPositive
<1>4. start .. end - 1 \subseteq bv
  BY <1>2, <1>3, SectorCountPositive
<1> QED
  BY <1>1, <1>2, <1>3, <1>4

(* Every step keeps the invariant.                                         *)
LEMMA NextInv == IndInv /\ [Next]_vars => IndInv'
<1> SUFFICES ASSUME IndInv, [Next]_vars PROVE IndInv'
  OBVIOUS
<1> USE DEF IndInv
<1>1. CASE WipeGroup
  <2>1. PICK n \in Nat \ {0} :
              /\ pos + n <= SectorCount
              /\ pos' = pos + n
              /\ todo' = (SectorCount - pos') * SectorSize
              /\ todo' \in 0 .. DevSize
              /\ disk' = [s \in Sectors |-> IF pos <= s /\ s < pos + n
                                              THEN "zero" ELSE disk[s]]
    BY <1>1, WipeGroupWhole
  <2>2. /\ phase = "wipe"
        /\ UNCHANGED <<secure, phase, written, fsSize, writes, bv>>
    BY <1>1 DEF WipeGroup
  <2>3. TypeOK'
    BY <2>1, <2>2, SectorCountPositive DEF TypeOK
  <2>4. WipeInv'
    BY <2>1, <2>2 DEF WipeInv, TypeOK, Sectors
  <2>5. CopyInv'
    BY <2>1, <2>2 DEF CopyInv
  <2>6. WrittenFlagged' /\ StartsInFile' /\ NothingOldLeft'
    BY <2>2 DEF WrittenFlagged, StartsInFile, NothingOldLeft
  <2> QED
    BY <2>3, <2>4, <2>5, <2>6
<1>2. CASE WipeDone
  <2>1. TypeOK' /\ WrittenFlagged' /\ StartsInFile' /\ WipeInv' /\ CopyInv'
    BY <1>2, SectorCountPositive DEF WipeDone, TypeOK, WrittenFlagged,
       StartsInFile, WipeInv, CopyInv
  <2>2. pos = SectorCount
    <3>1. (SectorCount - pos) * SectorSize = 0 /\ pos \in 0 .. SectorCount
      BY <1>2 DEF WipeDone, WipeInv, TypeOK
    <3> QED
      BY <3>1, SectorSizePositive, SectorCountPositive
  <2>3. \A s \in Sectors : disk'[s] = "zero"
    <3>1. \A s \in Sectors : s < pos
      BY <2>2, SectorCountPositive DEF Sectors
    <3> QED
      BY <3>1, <1>2 DEF WipeDone, WipeInv
  <2>4. NothingOldLeft'
    BY <2>3 DEF NothingOldLeft
  <2> QED
    BY <2>1, <2>4
<1>3. CASE SparseWrite
  <2>1. PICK offset \in 0 .. DevSize - 1, size \in 1 .. DevSize :
          /\ offset + size <= DevSize
          /\ written' = written \cup (offset .. offset + size - 1)
          /\ fsSize' = IF offset + size > fsSize THEN offset + size ELSE fsSize
          /\ bv' = bv \cup Touched(offset, size)
    BY <1>3 DEF SparseWrite
  <2>2. /\ phase = "fs" /\ writes < MaxWrites /\ writes' = writes + 1
        /\ UNCHANGED <<secure, phase, pos, todo, disk>>
    BY <1>3 DEF SparseWrite
  <2>3. offset \in Nat /\ size \in Nat \ {0}
    BY DevSizeNat
  <2>4. /\ \A b \in offset .. offset + size - 1 :
               b \div SectorSize \in Touched(offset, size)
        /\ \A s \in Touched(offset, size) : s * SectorSize < offset + size
        /\ Touched(offset, size) \subseteq Sectors
    BY <2>1, <2>3, TouchedExact
  <2>5. TypeOK'
    BY <2>1, <2>2, <2>3, <2>4, DevSizeNat, MaxWritesInNat DEF TypeOK
  <2>6. WipeInv' /\ CopyInv' /\ NothingOldLeft'
    BY <2>1, <2>2 DEF WipeInv, CopyInv, NothingOldLeft
  <2>7. WrittenFlagged'
    BY <2>1, <2>4 DEF WrittenFlagged
  <2>8. StartsInFile'
    <3> SUFFICES ASSUME NEW s \in bv' PROVE s * SectorSize < fsSize'
      BY DEF StartsInFile
    <3>1. /\ fsSize \in Nat /\ fsSize' \in Nat
          /\ fsSize <= fsSize' /\ offset + size <= fsSize'
      BY <2>1, <2>3, DevSizeNat DEF TypeOK
    <3>2. s \in Nat /\ s * SectorSize \in Nat
      <4>1. s \in Sectors
        BY <2>1, <2>4 DEF TypeOK
      <4>2. s \in Nat
        BY <4>1, SectorCountPositive DEF Sectors
      <4> QED
        BY ONLY <4>2, ProductNat, SectorSizePositive
    <3>3. s * SectorSize < fsSize \/ s * SectorSize < offset + size
      BY <2>1, <2>4 DEF StartsInFile
    <3> QED
      BY <3>1, <3>2, <3>3, <2>3
  <2> QED
    BY <2>5, <2>6, <2>7, <2>8
<1>4. CASE StartCopy
  <2>1. \A s \in bv : Forwarded(s) = s
    BY ForwardedExact DEF TypeOK, Sectors
  <2>2. bv' = bv
    BY <1>4, <2>1 DEF StartCopy
  <2>3. TypeOK' /\ WipeInv' /\ NothingOldLeft'
    BY <1>4, <2>2 DEF StartCopy, TypeOK, WipeInv, NothingOldLeft
  <2>4. CopyInv'
    BY <1>4, <2>2 DEF StartCopy, TypeOK, CopyInv, Sectors
  <2>5. WrittenFlagged' /\ StartsInFile'
    BY <1>4, <2>2 DEF StartCopy, WrittenFlagged, StartsInFile
  <2> QED
    BY <2>3, <2>4, <2>5
<1>5. CASE CopyGroup
  <2>1. PICK start \in 0 .. SectorCount, end \in 0 .. SectorCount :
              /\ pos <= start /\ start < end /\ end - start <= MaxWrite
              /\ \A s \in bv : pos <= s => start <= s
              /\ start .. end - 1 \subseteq bv
              /\ pos' = end
              /\ disk' = [s \in Sectors |-> IF start <= s /\ s < end
                                              THEN "image" ELSE disk[s]]
    BY <1>5, CopyGroupPiece
  <2>2. /\ phase = "copy"
        /\ UNCHANGED <<secure, phase, written, fsSize, writes, bv, todo>>
    BY <1>5 DEF CopyGroup
  <2>3. TypeOK'
    BY <2>1, <2>2 DEF TypeOK
  <2>4. CopyInv'
    BY <2>1, <2>2, SectorCountPositive DEF CopyInv, TypeOK, Sectors
  <2>5. WipeInv' /\ WrittenFlagged' /\ StartsInFile' /\ NothingOldLeft'
    BY <2>1, <2>2 DEF WipeInv, WrittenFlagged, StartsInFile, NothingOldLeft
  <2> QED
    BY <2>3, <2>4, <2>5
<1>6. CASE CopyDone
  BY <1>6 DEF CopyDone, TypeOK, WipeInv, CopyInv, WrittenFlagged,
     StartsInFile, NothingOldLeft
<1>7. CASE Done \/ UNCHANGED vars
  <2>1. UNCHANGED vars
    BY <1>7 DEF Done
  <2>2. TypeOK' /\ WipeInv' /\ NothingOldLeft'
    BY <2>1 DEF vars, TypeOK, WipeInv, NothingOldLeft
  <2>3. CopyInv' /\ WrittenFlagged' /\ StartsInFile'
    BY <2>1 DEF vars, CopyInv, WrittenFlagged, StartsInFile
  <2> QED
    BY <2>2, <2>3
<1> QED
  BY <1>1, <1>2, <1>3, <1>4, <1>5, <1>6, <1>7 DEF Next

---------------------------------------------------------------------------
(* What follows from it.                                                   *)

(* The inductive invariant holds throughout.                               *)
LEMMA Invariant == Spec => []IndInv
  BY InitInv, NextInv, PTL DEF Spec

(* Types: positions stay on the device and flags within the image, in      *)
(* spite of the rounding of SparseFile and of the chunks of ForwardBitVec. *)
THEOREM TypeCorrect == Spec => []TypeOK
<1>1. IndInv => TypeOK
  BY DEF IndInv
<1> QED
  BY <1>1, Invariant, PTL

(* CopyingState writes every flagged sector and no other.                  *)
THEOREM CopyExact == Spec => []FlaggedCopied
<1>1. IndInv => FlaggedCopied
  BY DEF IndInv, TypeOK, CopyInv, FlaggedCopied
<1> QED
  BY <1>1, Invariant, PTL

(* Every byte files2fs wrote in the image reaches the device.              *)
THEOREM NoByteLost == Spec => []ImageOnDisk
<1>1. IndInv => ImageOnDisk
  BY DEF IndInv, CopyInv, WrittenFlagged, ImageOnDisk
<1> QED
  BY <1>1, Invariant, PTL

(* fs_size - sector_start_pos never wraps around in CopyingState.          *)
THEOREM NoWrapAround == Spec => []StartsInFile
<1>1. IndInv => StartsInFile
  BY DEF IndInv
<1> QED
  BY <1>1, Invariant, PTL

(* WipingState leaves no sector as it was, whatever the size of the device *)
(* and of the buffer.                                                      *)
THEOREM WipeExact == Spec => []NothingOldLeft
<1>1. IndInv => NothingOldLeft
  BY DEF IndInv
<1> QED
  BY <1>1, Invariant, PTL

(* A SCSI write of CopyingState covers at most MaxWrite sectors, none of   *)
(* them behind the position reached.                                       *)
THEOREM WritesBounded == Spec => GroupsBounded
<1> DEFINE changed == {s \in Sectors : disk'[s] # disk[s]}
<1>1. ASSUME IndInv, [Next]_vars, phase = "copy"
      PROVE  /\ Cardinality(changed) <= MaxWrite
             /\ \A s \in changed : pos <= s /\ s < pos'
  <2>1. CASE CopyGroup
    <3>1. PICK start \in 0 .. SectorCount, end \in 0 .. SectorCount :
              /\ pos <= start /\ start < end /\ end - start <= MaxWrite
              /\ \A s \in bv : pos <= s => start <= s
              /\ start .. end - 1 \subseteq bv
              /\ pos' = end
              /\ disk' = [s \in Sectors |-> IF start <= s /\ s < end
                                              THEN "image" ELSE disk[s]]
      BY <1>1, <2>1, CopyGroupPiece
    <3>2. changed \subseteq start .. end - 1
      BY <3>1, SectorCountPositive DEF Sectors
    <3>3. /\ IsFiniteSet(start .. end - 1)
          /\ Cardinality(start .. end - 1) = end - start
      BY <3>1, FS_Interval, SectorCountPositive
    <3>4. /\ Cardinality(changed) \in Nat
          /\ Cardinality(changed) <= end - start
      BY <3>2, <3>3, FS_Subset, FS_CardinalityType
    <3>5. Cardinality(changed) <= MaxWrite
      BY <3>1, <3>4, MaxWritePositive, SectorCountPositive
    <3>6. \A s \in changed : pos <= s /\ s < pos'
      BY <1>1, <3>1, <3>2, SectorCountPositive DEF IndInv, TypeOK
    <3> QED
      BY <3>5, <3>6
  <2>2. CASE ~CopyGroup
    <3>1. disk' = disk
      BY <1>1, <2>2 DEF Next, WipeGroup, WipeDone, SparseWrite, StartCopy,
         CopyDone, Done, vars
    <3>2. changed = {}
      BY <3>1
    <3>3. Cardinality(changed) = 0
      BY <3>2, FS_EmptySet
    <3> QED
      BY <3>2, <3>3, MaxWritePositive
  <2> QED
    BY <2>1, <2>2
<1>2. IndInv /\ [Next]_vars =>
        [phase = "copy" => /\ Cardinality(changed) <= MaxWrite
                           /\ \A s \in changed : pos <= s /\ s < pos']_vars
  BY <1>1
<1> QED
  BY <1>2, Invariant, PTL DEF Spec, GroupsBounded
============================================================================
