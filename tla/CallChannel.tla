----------------------------- MODULE CallChannel -----------------------------
(* What every call between ports and to the CP/M pool has (PeerCallRequest,  *)
(* src/serial.rs): a caller, and a bounded channel on which the caller hears *)
(* of its progress.                                                         *)
EXTENDS Naturals, Sequences, FiniteSets

CONSTANTS
  ChanCap,   \* capacity of a progress channel
  MaxCalls,  \* bound on the calls of one party held at a time
  NoCall     \* an empty slot, or no call

\* Bytes of the progress channel.
Rang == 0
Answered == 1

\* Whose call c is: a call is <<caller, number>>.
Caller(c) == c[1]
=============================================================================
