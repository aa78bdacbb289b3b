---------------------------- MODULE FileTransfer ----------------------------
(***************************************************************************)
(* What every transfer protocol of the gateway promises, whatever the line   *)
(* between the two halves does: the receiver's current file is always a      *)
(* prefix of the sender's, a file is handed over only when it is whole, and  *)
(* a sender that reports success has had every file handed over.             *)
(***************************************************************************)
EXTENDS Naturals

VARIABLES
  job,    \* files: how many are sent; size: of each, in units of the protocol;
          \* slack: units a file handed over may lack; assured: whether the
          \* sender's success vouches for the receiver
  got,    \* units of the current file the receiver holds
  kept,   \* files handed over so far
  snd,    \* the sender: run, ok or err
  rcv     \* the receiver: run, ok or err

ftvars == <<job, got, kept, snd, rcv>>

Init ==
  /\ job \in [files : Nat, size : Nat, slack : Nat, assured : BOOLEAN]
  /\ got = 0 /\ kept = 0
  /\ snd = "run" /\ rcv = "run"

\* More of the current file arrives, the next units in order; units kept from an
\* earlier attempt count as arrived.
Extend ==
  /\ rcv = "run"
  /\ got' \in got + 1 .. job.size
  /\ UNCHANGED <<job, kept, snd, rcv>>

\* The current file is whole and is handed over.
Keep ==
  /\ rcv = "run"
  /\ got + job.slack >= job.size
  /\ kept < job.files
  /\ kept' = kept + 1 /\ got' = 0
  /\ UNCHANGED <<job, snd, rcv>>

\* One half returns, or both at once.
Return ==
  /\ snd = "run" \/ rcv = "run"
  /\ snd' \in IF snd = "run" THEN {"run", "ok", "err"} ELSE {snd}
  /\ rcv' \in IF rcv = "run" THEN {"run", "ok", "err"} ELSE {rcv}
  /\ snd = "run" /\ snd' = "ok" /\ job.assured => kept = job.files
  /\ UNCHANGED <<job, got, kept>>

Next == Extend \/ Keep \/ Return

Spec == Init /\ [][Next]_ftvars
=============================================================================
