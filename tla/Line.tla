-------------------------------- MODULE Line --------------------------------
(***************************************************************************)
(* The line under a packet protocol (Kermit, ZMODEM, Punter): two FIFO       *)
(* streams of packets between a sending and a receiving half, and the faults  *)
(* a serial port or a TCP connection adds to them.  A packet is a record      *)
(* whose field ok says that its check sum is right; a user's Escape or a      *)
(* double CAN is an item of its own.  The halves are records with a pc.       *)
(***************************************************************************)
EXTENDS Integers, Sequences, FiniteSets

CONSTANTS
  MaxFaults,   \* bound: faults the line may add to one transfer
  FaultKinds   \* the kinds of fault it may add

ASSUME LineAssumption ==
  /\ MaxFaults \in Nat
  /\ FaultKinds \subseteq {"loss", "damage", "delay", "cancel", "hangup"}

VARIABLES
  s,        \* the sending half
  r,        \* the receiving half
  toR,      \* packets under way to the receiver
  toS,      \* packets under way to the sender
  up,       \* the connection has not been dropped
  faults    \* faults the line has added so far

Done == {"ok", "err"}

\* What is written to a dropped line, or to a half that has returned, is not read
\* by this transfer.
WriteToS(ps) == IF up /\ s.pc \notin Done THEN toS \o ps ELSE toS
WriteToR(ps) == IF up /\ r.pc \notin Done THEN toR \o ps ELSE toR

\* A half is idle when nothing is left for it to read, the packets a receiver has
\* put aside included.
SIdle == s.pc \in Done \/ toS = <<>>
RIdle == r.pc \in Done \/ (toR = <<>> /\ r.pc # "drain")

\* A wait runs out without a fault only when the other half has nothing to react
\* to either.
SenderQuiet == up /\ toS = <<>> /\ RIdle
ReceiverQuiet == up /\ toR = <<>> /\ SIdle

-----------------------------------------------------------------------------
(* Faults.  Each one spends a unit of the budget MaxFaults.                 *)

Fault(kind) == up /\ kind \in FaultKinds /\ faults < MaxFaults /\ faults' = faults + 1

LoseToR == Fault("loss") /\ r.pc \notin Done /\ toR # <<>> /\ toR' = Tail(toR) /\ UNCHANGED <<s, r, toS, up>>

LoseToS == Fault("loss") /\ s.pc \notin Done /\ toS # <<>> /\ toS' = Tail(toS) /\ UNCHANGED <<s, r, toR, up>>

DamageToR ==
  /\ Fault("damage") /\ r.pc \notin Done /\ toR # <<>> /\ Head(toR).ok
  /\ toR' = [toR EXCEPT ![1].ok = FALSE]
  /\ UNCHANGED <<s, r, toS, up>>

DamageToS ==
  /\ Fault("damage") /\ s.pc \notin Done /\ toS # <<>> /\ Head(toS).ok
  /\ toS' = [toS EXCEPT ![1].ok = FALSE]
  /\ UNCHANGED <<s, r, toR, up>>

\* The user at the far end presses Escape, or the program there sends CAN CAN.
CancelS ==
  /\ Fault("cancel") /\ s.pc \notin Done
  /\ \E k \in {"ESC", "CAN"} : toS' = <<[k |-> k, ok |-> TRUE]>> \o toS
  /\ UNCHANGED <<s, r, toR, up>>

CancelR ==
  /\ Fault("cancel") /\ r.pc \notin Done
  /\ \E k \in {"ESC", "CAN"} : toR' = <<[k |-> k, ok |-> TRUE]>> \o toR
  /\ UNCHANGED <<s, r, toS, up>>

\* The connection drops.  What is under way may still be read.
HangUp == Fault("hangup") /\ up' = FALSE /\ UNCHANGED <<s, r, toR, toS>>

LineFault ==
  \/ LoseToR \/ LoseToS \/ DamageToR \/ DamageToS
  \/ CancelS \/ CancelR \/ HangUp
=============================================================================
