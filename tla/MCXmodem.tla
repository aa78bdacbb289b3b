------------------------------ MODULE MCXmodem ------------------------------
(***************************************************************************)
(* The transfers TLC explores: an XMODEM file, with SOH blocks only or with  *)
(* STX blocks too, a YMODEM file and a YMODEM batch.  The numbers of the     *)
(* XMODEM files wrap; the YMODEM files are too short for that, so that only  *)
(* block 0 is numbered 0.                                                   *)
(***************************************************************************)
EXTENDS Xmodem

Xmodem128 == [ymodem |-> FALSE, use1K |-> FALSE, bytes |-> 768, files |-> 1]
Xmodem1K == [ymodem |-> FALSE, use1K |-> TRUE, bytes |-> 896, files |-> 1]
YmodemFile == [ymodem |-> TRUE, use1K |-> FALSE, bytes |-> 384, files |-> 1]
YmodemBatch == [ymodem |-> TRUE, use1K |-> FALSE, bytes |-> 384, files |-> 3]

MCAll == {Xmodem128, Xmodem1K, YmodemFile, YmodemBatch}
MCBig == {Xmodem1K}
=============================================================================
