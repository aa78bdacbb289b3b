------------------------------ MODULE MCZmodem ------------------------------
(***************************************************************************)
(* The ZMODEM batches TLC explores: two files streamed, one file in segments, *)
(* batches whose first file is turned down, and one too long; and the batch   *)
(* of the run on files passed over.                                         *)
(***************************************************************************)
EXTENDS Zmodem

Batch(files, size, segmented, skip) ==
  [files |-> files, size |-> size, segmented |-> segmented, skip |-> skip]

MCTransfers ==
  {Batch(2, 2, FALSE, {}), Batch(1, 3, TRUE, {}), Batch(1, 3, FALSE, {}),
   Batch(2, 1, FALSE, {1}), Batch(3, 1, FALSE, {1}), Batch(3, 1, TRUE, {})}

SkipBatch == {Batch(3, 1, FALSE, {1})}
=============================================================================
