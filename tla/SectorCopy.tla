----------------------------- MODULE SectorCopy -----------------------------
(***************************************************************************)
(* Which sectors reach the destination device.  fs2dev first zeroes the    *)
(* device if a secure wipe was asked for; files2fs writes the new file     *)
(* system through SparseFile, which flags every sector a write touches;    *)
(* the flags travel to fs2dev in chunks, and fs2dev copies the runs of     *)
(* flagged sectors.                                                        *)
(*                                                                         *)
(* Offsets are in bytes and in sectors of SectorSize bytes, as in the      *)
(* code.                                                                   *)
(***************************************************************************)
EXTENDS Integers, FiniteSets

CONSTANTS
    SectorSize,     \* SECTOR_SIZE
    SectorCount,    \* sectors of the device, and of the image
    MaxWrite,       \* MAX_WRITE_SECTORS
    ByteBits,       \* flags in a byte of the bit vector
    ChunkBits,      \* flags in a message of ForwardBitVec
    MaxWrites       \* bound: writes that build the file system

ASSUME SectorSizePositive == SectorSize \in Nat \ {0}
ASSUME SectorCountPositive == SectorCount \in Nat \ {0}
ASSUME MaxWritePositive == MaxWrite \in Nat \ {0}
ASSUME ChunksAreBytes == /\ ByteBits \in Nat \ {0}
                         /\ ChunkBits \in Nat \ {0}
                         /\ ChunkBits % ByteBits = 0
ASSUME MaxWritesInNat == MaxWrites \in Nat

Sectors == 0 .. SectorCount - 1
DevSize == SectorCount * SectorSize

VARIABLES
    secure,     \* the device is wiped before it is formatted
    phase,      \* "wipe", then "fs", "copy" and "done"
    written,    \* bytes written in the image
    fsSize,     \* length of the image file
    writes,     \* writes made to the image
    bv,         \* flagged sectors
    pos,        \* sectors before pos have been dealt with
    todo,       \* bytes left to wipe
    disk        \* disk[s]: "old", "zero" or "image", sector s of the image

vars == <<secure, phase, written, fsSize, writes, bv, pos, todo, disk>>

Init == /\ secure \in BOOLEAN
        /\ phase = IF secure THEN "wipe" ELSE "fs"
        /\ written = {} /\ fsSize = 0 /\ writes = 0
        /\ bv = {}
        /\ pos = 0
        /\ todo = DevSize
        /\ disk = [s \in Sectors |-> "old"]

---------------------------------------------------------------------------
(* Mutant: neither the position nor what is left is updated.               *)
WipeGroup_Rewrites ==
    /\ phase = "wipe"
    /\ todo > 0
    /\ disk' = [s \in Sectors |-> IF pos <= s /\ s < pos + MaxWrite
                                     THEN "zero" ELSE disk[s]]
    /\ UNCHANGED <<secure, phase, written, fsSize, writes, bv, pos, todo>>

(* WipingState: one buffer of zeroes after the other, the last one cut to  *)
(* what is left.                                                           *)
WipeGroup ==
    /\ phase = "wipe"
    /\ todo > 0
    /\ LET len == IF todo < MaxWrite * SectorSize THEN todo
                                                  ELSE MaxWrite * SectorSize
           n == len \div SectorSize
       IN /\ disk' = [s \in Sectors |-> IF pos <= s /\ s < pos + n
                                          THEN "zero" ELSE disk[s]]
          /\ pos' = pos + n
          /\ todo' = todo - len
    /\ UNCHANGED <<secure, phase, written, fsSize, writes, bv>>

(* Mutant: the loop ends while less than a buffer is left.                 *)
WipeDone_Early ==
    /\ phase = "wipe"
    /\ todo < MaxWrite * SectorSize
    /\ phase' = "fs"
    /\ pos' = 0
    /\ UNCHANGED <<secure, written, fsSize, writes, bv, todo, disk>>

WipeDone ==
    /\ phase = "wipe"
    /\ todo = 0
    /\ phase' = "fs"
    /\ pos' = 0
    /\ UNCHANGED <<secure, written, fsSize, writes, bv, todo, disk>>

---------------------------------------------------------------------------
(* Mutant: the sector after the last one is flagged as well.               *)
Touched_OneMore(offset, size) ==
    offset \div SectorSize .. (offset + size + SectorSize) \div SectorSize - 1

(* Mutant: the last sector is flagged only when it is full.                *)
Touched_Floor(offset, size) ==
    offset \div SectorSize .. (offset + size) \div SectorSize - 1

(* The sectors that SparseFile::write flags for `size' bytes at `offset'.  *)
Touched(offset, size) ==
    offset \div SectorSize
        .. (offset + size + SectorSize - 1) \div SectorSize - 1

SparseWrite ==
    /\ phase = "fs"
    /\ writes < MaxWrites
    /\ \E offset \in 0 .. DevSize - 1, size \in 1 .. DevSize :
          /\ offset + size <= DevSize
          /\ written' = written \cup (offset .. offset + size - 1)
          /\ fsSize' = IF offset + size > fsSize THEN offset + size ELSE fsSize
          /\ bv' = bv \cup Touched(offset, size)
    /\ writes' = writes + 1
    /\ UNCHANGED <<secure, phase, pos, todo, disk>>

(* Mutant: a chunk of whole bytes is padded with one more.                 *)
Forwarded_Padded(s) ==
    LET bytes == ChunkBits \div ByteBits + 1
    IN (s \div ChunkBits) * bytes * ByteBits + (s % ChunkBits)

(* ForwardBitVec cuts the flags in chunks of ChunkBits; each travels as    *)
(* whole bytes, and load_bitvec puts the bytes one after the other.  Where *)
(* the flag of sector s arrives:                                           *)
Forwarded(s) ==
    LET bytes == (ChunkBits + ByteBits - 1) \div ByteBits
    IN (s \div ChunkBits) * bytes * ByteBits + (s % ChunkBits)

StartCopy ==
    /\ phase = "fs"
    /\ phase' = "copy"
    /\ bv' = {Forwarded(s) : s \in bv}
    /\ UNCHANGED <<secure, written, fsSize, writes, pos, todo, disk>>

---------------------------------------------------------------------------
(* BitVecIterOnes: the next run of flags is start .. stop - 1.             *)
NextOnes(start, stop) ==
    /\ pos <= start /\ start < stop
    /\ \A s \in bv : pos <= s => start <= s
    /\ start .. stop - 1 \subseteq bv
    /\ stop = SectorCount \/ stop \notin bv

(* Mutant: a run that is too long is cut, and its tail forgotten.          *)
CopyGroup_DropsTail ==
    /\ phase = "copy"
    /\ \E start \in 0 .. SectorCount, stop \in 0 .. SectorCount :
          LET end == IF stop - start > MaxWrite THEN start + MaxWrite ELSE stop
          IN /\ NextOnes(start, stop)
             /\ pos' = stop
             /\ disk' = [s \in Sectors |-> IF start <= s /\ s < end
                                             THEN "image" ELSE disk[s]]
    /\ UNCHANGED <<secure, phase, written, fsSize, writes, bv, todo>>

(* Mutant: a run is never cut.                                             *)
CopyGroup_Unbounded ==
    /\ phase = "copy"
    /\ \E start \in 0 .. SectorCount, stop \in 0 .. SectorCount :
          /\ NextOnes(start, stop)
          /\ pos' = stop
          /\ disk' = [s \in Sectors |-> IF start <= s /\ s < stop
                                          THEN "image" ELSE disk[s]]
    /\ UNCHANGED <<secure, phase, written, fsSize, writes, bv, todo>>

(* One turn of the loop of CopyingState: at most MaxWrite sectors of the   *)
(* run are read from the image, padded with zeroes past its end, and       *)
(* written on the device.                                                  *)
CopyGroup ==
    /\ phase = "copy"
    /\ \E start \in 0 .. SectorCount, stop \in 0 .. SectorCount :
          LET end == IF stop - start > MaxWrite THEN start + MaxWrite ELSE stop
          IN /\ NextOnes(start, stop)
             /\ pos' = end
             /\ disk' = [s \in Sectors |-> IF start <= s /\ s < end
                                             THEN "image" ELSE disk[s]]
    /\ UNCHANGED <<secure, phase, written, fsSize, writes, bv, todo>>

CopyDone ==
    /\ phase = "copy"
    /\ \A s \in bv : s < pos
    /\ phase' = "done"
    /\ UNCHANGED <<secure, written, fsSize, writes, bv, pos, todo, disk>>

Done == phase = "done" /\ UNCHANGED vars

Next == \/ WipeGroup
        \/ WipeDone
        \/ SparseWrite
        \/ StartCopy
        \/ CopyGroup
        \/ CopyDone
        \/ Done

Spec == Init /\ [][Next]_vars

(* Neither process stops in the middle of its loop.                        *)
FairSpec == Spec /\ WF_vars(Next)

---------------------------------------------------------------------------
(* Types: flags stay within the image, positions within the device.        *)
TypeOK ==
    /\ secure \in BOOLEAN
    /\ phase \in {"wipe", "fs", "copy", "done"}
    /\ written \subseteq 0 .. DevSize - 1
    /\ fsSize \in 0 .. DevSize
    /\ writes \in 0 .. MaxWrites
    /\ bv \subseteq Sectors
    /\ pos \in 0 .. SectorCount
    /\ todo \in 0 .. DevSize
    /\ disk \in [Sectors -> {"old", "zero", "image"}]

(* At the end the device holds the image in every flagged sector and what  *)
(* it held before in every other one: no run is lost where it is cut, and  *)
(* none is written past its end.                                           *)
FlaggedCopied ==
    phase = "done" => \A s \in Sectors : disk[s] = "image" <=> s \in bv

(* At the end every byte written in the image is on the device: neither    *)
(* the rounding to sectors, nor the chunks of the bit vector, nor the cut  *)
(* runs lose any.                                                          *)
ImageOnDisk ==
    phase = "done" => \A b \in written : disk[b \div SectorSize] = "image"

(* A flagged sector starts within the image file, so that the length that  *)
(* CopyingState computes for it, fs_size - sector_start_pos, does not wrap *)
(* around.                                                                 *)
StartsInFile == \A s \in bv : s * SectorSize < fsSize

(* A secure wipe leaves no old sector, whatever is copied afterwards.      *)
NothingOldLeft ==
    secure /\ phase # "wipe" => \A s \in Sectors : disk[s] # "old"

(* A SCSI write of a copy covers at most MaxWrite sectors (some keys       *)
(* refuse more), and the next one starts behind it.                        *)
GroupsBounded ==
    [][phase = "copy" =>
          LET changed == {s \in Sectors : disk'[s] # disk[s]}
          IN /\ Cardinality(changed) <= MaxWrite
             /\ \A s \in changed : pos <= s /\ s < pos']_vars

(* Both loops end.                                                         *)
Terminates == <>(phase = "done")
============================================================================
