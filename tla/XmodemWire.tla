----------------------------- MODULE XmodemWire -----------------------------
(***************************************************************************)
(* The line an XMODEM / YMODEM transfer runs over: two FIFO byte streams    *)
(* between a sender and a receiver, and the faults a serial port or a TCP   *)
(* connection adds to them.  A block, with its header, number, payload and  *)
(* trailer, is one item of the stream; every other byte is one item too.    *)
(*                                                                          *)
(* The payload of a block is abstracted to the 128-byte units of the file   *)
(* it carries (f, off, len); the receiver never reads those three fields to *)
(* decide anything, they only say what was appended.                        *)
(***************************************************************************)
EXTENDS Integers, Sequences, FiniteSets

CONSTANTS
  Transfers,     \* the transfers considered, each a TransferKind
  BigUnits,      \* units in an STX block (8 in the code)
  SeqMod,        \* block numbers are taken modulo this (256 in the code)
  MaxRetries,    \* xmodem_max_retries
  CrcAttempts,   \* start requests sent as 'C' before falling back to NAK
  MaxStray,      \* MAX_STRAY_START_REQUESTS and MAX_PRE_DATA_BYTES
  MaxUnits,      \* MAX_FILE_SIZE in units
  MaxBatchFiles, \* MAX_BATCH_FILES
  MaxFaults,     \* bound: faults the line may add to one transfer
  NoiseToR,      \* bytes line noise may insert towards the receiver
  NoiseToS       \* bytes line noise may insert towards the sender

\* ymodem: with block 0 and end of batch; use1K: full chunks as STX blocks;
\* bytes: length of each file; files: in the batch (1: xmodem_send; more: an
\* external sb).
TransferKind == [ymodem : BOOLEAN, use1K : BOOLEAN, bytes : Nat, files : Nat \ {0}]

ASSUME WireAssumption ==
  /\ Transfers \subseteq TransferKind
  /\ BigUnits \in Nat \ {0, 1}
  /\ SeqMod \in Nat \ {0, 1, 2, 3}
  /\ MaxRetries \in Nat \ {0}
  /\ CrcAttempts \in Nat \ {0}
  /\ MaxStray \in Nat \ {0}
  /\ MaxUnits \in Nat
  /\ MaxBatchFiles \in Nat \ {0}
  /\ MaxFaults \in Nat
  /\ NoiseToR \subseteq {"EOT", "CAN", "ESC", "junk"}
  /\ NoiseToS \subseteq {"ACK", "NAK", "C", "CAN", "ESC", "junk"}

VARIABLES
  xfer,     \* the transfer this is, chosen by whoever started it
  s,        \* the sending half: locals of xmodem_send
  r,        \* the receiving half: locals of receive_batch_into
  toR,      \* bytes and blocks under way to the receiver
  toS,      \* bytes under way to the sender
  up,       \* the connection has not been dropped
  faults    \* faults the line has added so far

UnitBytes == 128

Ymodem == xfer.ymodem
Use1K == xfer.use1K
FileBytes == xfer.bytes
NFiles == xfer.files

\* Units on the wire for one file: the data padded to a 128-byte boundary,
\* with one SUB block for an empty plain-XMODEM file.
FileUnits ==
  IF FileBytes = 0 /\ ~Ymodem THEN 1
  ELSE (FileBytes + UnitBytes - 1) \div UnitBytes

Done == {"ok", "err"}

Mode == {"crc", "sum"}

\* A framed block.  kind "data" is file payload; "head" and "end" are the two
\* block 0s, with a filename and with a NUL filename.
Block(kind, num, f, off, len, mode) ==
  [k |-> "blk", kind |-> kind, num |-> num, f |-> f, off |-> off, len |-> len,
   mode |-> mode, good |-> TRUE]

Ctl(k) == [k |-> k]

HeadBlock(f) == Block("head", 0, f, 0, 0, "crc")
EndBlock == Block("end", 0, 0, 0, 0, "crc")

Cancel == <<"CAN", "CAN", "CAN">>
CancelBlocks == <<Ctl("CAN"), Ctl("CAN"), Ctl("CAN")>>

\* What is written to a dropped line, or to a half that has returned to its
\* menu, is never read by this transfer.
WriteToS(bytes) == IF up /\ s.pc \notin Done THEN toS \o bytes ELSE toS
WriteToR(items) == IF up /\ r.pc \notin Done THEN toR \o items ELSE toR

\* A half is idle when nothing is left for it to read: only then can the other
\* half's silence have lasted a whole timeout without a fault of the line.
SIdle == s.pc \in Done \/ toS = <<>>
RIdle == r.pc \in Done \/ (toR = <<>> /\ r.pc # "negSend")

-----------------------------------------------------------------------------
(* Faults.  Each one spends a unit of the budget MaxFaults.                 *)

MayFault == up /\ faults < MaxFaults

LoseToR ==
  /\ MayFault /\ r.pc \notin Done /\ toR # <<>>
  /\ toR' = Tail(toR)
  /\ faults' = faults + 1
  /\ UNCHANGED <<xfer, s, r, toS, up>>

LoseToS ==
  /\ MayFault /\ s.pc \notin Done /\ toS # <<>>
  /\ toS' = Tail(toS)
  /\ faults' = faults + 1
  /\ UNCHANGED <<xfer, s, r, toR, up>>

\* A block damaged past its header byte fails its complement, checksum or CRC.
CorruptBlock ==
  /\ MayFault /\ r.pc \notin Done /\ toR # <<>>
  /\ Head(toR).k = "blk" /\ Head(toR).good
  /\ toR' = [toR EXCEPT ![1].good = FALSE]
  /\ faults' = faults + 1
  /\ UNCHANGED <<xfer, s, r, toS, up>>

\* A damaged control byte or a damaged header byte reads as some other byte.
GarbleToR ==
  /\ MayFault /\ r.pc \notin Done /\ toR # <<>> /\ Head(toR).k # "junk"
  /\ toR' = [toR EXCEPT ![1] = Ctl("junk")]
  /\ faults' = faults + 1
  /\ UNCHANGED <<xfer, s, r, toS, up>>

GarbleToS ==
  /\ MayFault /\ s.pc \notin Done /\ toS # <<>> /\ Head(toS) # "junk"
  /\ toS' = [toS EXCEPT ![1] = "junk"]
  /\ faults' = faults + 1
  /\ UNCHANGED <<xfer, s, r, toR, up>>

NoiseAtR ==
  /\ MayFault /\ r.pc \notin Done
  /\ \E b \in NoiseToR : toR' = <<Ctl(b)>> \o toR
  /\ faults' = faults + 1
  /\ UNCHANGED <<xfer, s, r, toS, up>>

NoiseAtS ==
  /\ MayFault /\ s.pc \notin Done
  /\ \E b \in NoiseToS : toS' = <<b>> \o toS
  /\ faults' = faults + 1
  /\ UNCHANGED <<xfer, s, r, toR, up>>

\* The connection drops.  Bytes already under way may still be read.
HangUp ==
  /\ MayFault
  /\ up' = FALSE
  /\ faults' = faults + 1
  /\ UNCHANGED <<xfer, s, r, toR, toS>>

LineFault ==
  \/ LoseToR \/ LoseToS \/ CorruptBlock \/ GarbleToR \/ GarbleToS
  \/ NoiseAtR \/ NoiseAtS \/ HangUp
=============================================================================
