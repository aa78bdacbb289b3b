------------------------------ MODULE MCPunter ------------------------------
(***************************************************************************)
(* The Punter transfers TLC explores: an empty file, one short block, equal   *)
(* blocks, and a last block shorter than the others.                         *)
(***************************************************************************)
EXTENDS Punter

File(n, full, last) == [n |-> n, full |-> full, last |-> last]

MCTransfers == {File(0, 9, 9), File(1, 9, 8), File(3, 9, 9), File(3, 9, 8)}
=============================================================================
