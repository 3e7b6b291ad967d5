---------------------------- MODULE FillDeleter ----------------------------
(***************************************************************************)
(* FillDeleter.Delete of local-pv-provisioner: zero-fill a device from the *)
(* positions where filesystem signatures and Ceph bdev labels live.  The   *)
(* writes go to the file offset, which only Seek sets and Write advances.  *)
(***************************************************************************)
EXTENDS Naturals, Sequences

CONSTANTS
    Positions,      \* bdevLabelPositions
    FillBlockSize,
    FillCount,
    MaxSize         \* bound: the largest device

ASSUME FillAssumption ==
    /\ Positions \in Seq(Nat)
    /\ \A j, k \in 1..Len(Positions) : j < k => Positions[j] < Positions[k]
    /\ FillBlockSize \in Nat
    /\ FillCount \in Nat
    /\ MaxSize \in Nat

VARIABLES
    fileSize,   \* what Seek(0, io.SeekEnd) returns
    pc,
    p,          \* index of the position being filled
    i,          \* blocks written at it
    offset,     \* the file offset
    zeroed      \* the bytes of the device written so far

fillVars == <<fileSize, pc, p, i, offset, zeroed>>

FillTypeOK ==
    /\ fileSize \in 0..MaxSize
    /\ pc \in {"open", "seek", "fill", "sync", "ok", "error"}
    /\ p \in 1..(Len(Positions) + 1)
    /\ i \in 0..FillCount
    /\ offset \in Nat
    /\ zeroed \subseteq Nat

FillInit ==
    /\ fileSize \in 0..MaxSize
    /\ pc = "open"
    /\ p = 1
    /\ i = 0
    /\ offset = 0
    /\ zeroed = {}
-----------------------------------------------------------------------------
\* Any call may fail; Delete returns the error.
Fail ==
    /\ pc' = "error"
    /\ UNCHANGED <<fileSize, p, i, offset, zeroed>>

OpenFile ==
    /\ pc = "open"
    /\ \/ pc' = "seek" /\ UNCHANGED <<fileSize, p, i, offset, zeroed>>
       \/ Fail

\* The loop over the positions: done after the last one or at the first one
\* beyond the end of the device.
SeekPosition ==
    /\ pc = "seek"
    /\ IF p > Len(Positions) \/ Positions[p] >= fileSize
         THEN pc' = "sync" /\ UNCHANGED <<fileSize, p, i, offset, zeroed>>
         ELSE \/ /\ offset' = Positions[p]
                 /\ i' = 0
                 /\ pc' = "fill"
                 /\ UNCHANGED <<fileSize, p, zeroed>>
              \/ Fail

From == Positions[p] + i * FillBlockSize
To == Positions[p] + (i + 1) * FillBlockSize

\* Mutant of Length: the last block is not clipped.
LengthUnclipped == FillBlockSize

\* The length of the next block, clipped at the end of the device.
Length == IF fileSize <= To THEN fileSize - From ELSE FillBlockSize

\* Mutant of FillDone: the last block of a region is left out.
FillDoneEarly == i + 1 >= FillCount \/ fileSize <= From

FillDone == i = FillCount \/ fileSize <= From

\* One block; a failing Write may have written a part of it.
Fill ==
    /\ pc = "fill"
    /\ ~FillDone
    /\ \/ /\ zeroed' = zeroed \cup (offset..(offset + Length - 1))
          /\ offset' = offset + Length
          /\ i' = i + 1
          /\ UNCHANGED <<fileSize, pc, p>>
       \/ \E n \in 0..Length :
             /\ zeroed' = zeroed \cup (offset..(offset + n - 1))
             /\ offset' = offset + n
             /\ pc' = "error"
             /\ UNCHANGED <<fileSize, p, i>>

NextPosition ==
    /\ pc = "fill"
    /\ FillDone
    /\ p' = p + 1
    /\ pc' = "seek"
    /\ UNCHANGED <<fileSize, i, offset, zeroed>>

Sync ==
    /\ pc = "sync"
    /\ \/ pc' = "ok" /\ UNCHANGED <<fileSize, p, i, offset, zeroed>>
       \/ Fail

Returned == pc \in {"ok", "error"} /\ UNCHANGED fillVars

FillNext == OpenFile \/ SeekPosition \/ Fill \/ NextPosition \/ Sync \/ Returned

FillSpec == FillInit /\ [][FillNext]_fillVars
-----------------------------------------------------------------------------
\* Byte b belongs to the region the README promises to fill at position k:
\* FillCount blocks, as far as the device reaches.
InRegion(b, k) ==
    /\ Positions[k] <= b
    /\ b < Positions[k] + FillCount * FillBlockSize
    /\ b < fileSize

\* No byte outside the promised regions is overwritten, at any moment: in
\* particular Delete never writes beyond the end of the device.
OnlyRegions == \A b \in zeroed : \E k \in 1..Len(Positions) : InRegion(b, k)

\* Delete reports success only after the whole of every region has been
\* overwritten, whatever the size of the device.
SuccessMeansWiped ==
    pc = "ok" => \A k \in 1..Len(Positions) : \A b \in 0..MaxSize :
                    InRegion(b, k) => b \in zeroed
=============================================================================
