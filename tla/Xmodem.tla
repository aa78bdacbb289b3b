------------------------------- MODULE Xmodem -------------------------------
(***************************************************************************)
(* One XMODEM / YMODEM transfer: the gateway's sender and receiver          *)
(* (src/xmodem.rs) at the two ends of a faulty line.  The gateway runs one  *)
(* of the two; the other end is any program that keeps to the same rules,   *)
(* so each half is checked against the other.                               *)
(***************************************************************************)
EXTENDS XmodemSender, XmodemReceiver

vars == <<xfer, s, r, toR, toS, up, faults>>

Init ==
  /\ xfer \in Transfers
  /\ SenderInit /\ ReceiverInit
  /\ toR = <<>> /\ toS = <<>>
  /\ up = TRUE /\ faults = 0

-----------------------------------------------------------------------------
(* Timeouts.  A wait runs out without a fault only when the other half has  *)
(* nothing to react to either; then either wait may be the shorter one, or   *)
(* both may run out before either half hears the other.  A wait that runs    *)
(* out while an answer is still to come is a delay of the line.             *)

SenderQuiet == up /\ toS = <<>> /\ RIdle
ReceiverQuiet == up /\ toR = <<>> /\ SIdle

SenderTimeout ==
  /\ SenderQuiet
  /\ SenderSilence
  /\ UNCHANGED <<xfer, r, toS, up, faults>>

ReceiverTimeout ==
  /\ ReceiverQuiet
  /\ ReceiverSilence
  /\ UNCHANGED <<xfer, s, toR, up, faults>>

BothTimeout ==
  /\ SenderQuiet /\ ReceiverQuiet
  /\ SenderSilence /\ ReceiverSilence
  /\ UNCHANGED <<xfer, up, faults>>

SenderTimeoutLate ==
  /\ MayFault /\ ~SenderQuiet
  /\ SenderSilence
  /\ faults' = faults + 1
  /\ UNCHANGED <<xfer, r, toS, up>>

ReceiverTimeoutLate ==
  /\ MayFault /\ ~ReceiverQuiet
  /\ ReceiverSilence
  /\ faults' = faults + 1
  /\ UNCHANGED <<xfer, s, toR, up>>

Timeout == SenderTimeout \/ ReceiverTimeout \/ BothTimeout

\* Both halves have returned.
Terminated == s.pc \in Done /\ r.pc \in Done /\ UNCHANGED vars

Next ==
  \/ SenderRead \/ ReceiverRead \/ Timeout
  \/ SenderLineDown \/ ReceiverLineDown
  \/ LineFault \/ SenderTimeoutLate \/ ReceiverTimeoutLate
  \/ Terminated

Spec == Init /\ [][Next]_vars

\* The two halves keep reading what reaches them, and every wait is bounded.
Fairness ==
  /\ WF_vars(SenderRead) /\ WF_vars(ReceiverRead) /\ WF_vars(Timeout)
  /\ WF_vars(SenderLineDown) /\ WF_vars(ReceiverLineDown)

FairSpec == Spec /\ Fairness

-----------------------------------------------------------------------------
FileRecord == [f : 1..NFiles, got : Nat, intact : BOOLEAN]

\* The two halves' locals keep their types, and every retry counter of
\* src/xmodem.rs (tries, errs, att) stays within the limit its loop is cut at.
TypeOK ==
  /\ xfer \in Transfers
  /\ s.pc \in SenderPcs /\ s.mode \in Mode /\ s.f \in 1..NFiles
  /\ s.idx \in Nat \ {0} /\ s.off \in 0..FileUnits /\ s.tries \in 0..EotAttempts
  /\ s.stray \in 0..MaxStray - 1
  /\ {s.big, s.pend, s.lone} \subseteq BOOLEAN
  /\ r.pc \in ReceiverPcs /\ r.mode \in Mode /\ r.f \in 1..NFiles
  /\ r.exp \in 0..SeqMod - 1 /\ r.got \in 0..MaxUnits + BigUnits
  /\ r.att \in 0..CrcAttempts + MaxRetries /\ r.errs \in 0..MaxRetries
  /\ r.b0 \in 0..MaxRetries
  /\ {r.ymodem, r.early, r.reqSent, r.intact, r.eotNaked, r.awaitEot, r.shortCan, r.pend}
       \subseteq BOOLEAN
  /\ \A i \in DOMAIN r.files : r.files[i] \in FileRecord
  /\ up \in BOOLEAN /\ faults \in 0..MaxFaults

\* No block is appended damaged, twice, out of order, after a gap or from another
\* file: what is received is a prefix of what was sent.
Prefix == r.intact /\ \A i \in DOMAIN r.files : r.files[i].intact

\* Whatever the line does, the received bytes are a prefix of the file, as long as
\* the sender has not fallen back from STX to SOH blocks (see below).  Acks alone
\* drive the sender (send_block), so a block may be skipped; its number must then
\* show it to receive_block_body and the receive loop.
PrefixReceived == (Use1K => s.big) => Prefix

\* The invariants above, together: every counter within its limit and every byte in its
\* place (xmodem_send, xmodem_receive).
BytesInPlace == TypeOK /\ PrefixReceived

\* The same after xmodem_send's fallback, which resends the first STX block's bytes
\* as SOH blocks: the test of the fallback says that it delivers the exact bytes.
FallbackKeepsBytes == Use1K /\ ~s.big => Prefix

\* What a recorded file may lack: nothing, or for YMODEM the 254 bytes its
\* declared size is allowed to overstate.
Whole(rec) == FileBytes - rec.got * UnitBytes <= IF Ymodem THEN 254 ELSE 0

Holds(f) == \E i \in DOMAIN r.files : r.files[i].f = f /\ Whole(r.files[i])

\* After any one fault on the line, a receive (xmodem_receive) that reports success
\* holds no truncated file: one stray or repeated EOT does not end a file.
ReceiverSuccessIsWhole ==
  faults <= 1 /\ r.pc = "ok" => \A i \in DOMAIN r.files : Whole(r.files[i])

\* After any one fault on the line, a send (xmodem_send, ymodem_send_batch) that
\* reports success left every file with the receiver; a batch past the receiver's
\* limit of files is left out, its end being the receiver's to report.
SenderSuccessIsWhole ==
  faults <= 1 /\ NFiles <= MaxBatchFiles /\ s.pc = "ok" /\ r.pc \in Done => \A f \in 1..NFiles : Holds(f)

\* A file of a batch, once the receive loop has recorded it, is never changed or
\* dropped by what comes later, an abort or a dead line in a later file included.
FilesKept == [][\A i \in DOMAIN r.files : i \in DOMAIN r'.files /\ r'.files[i] = r.files[i]]_vars

\* Both halves return, however the retries, timeouts and purges of the two loops
\* meet: neither waits or resends for ever.
BothReturn == <>(s.pc \in Done /\ r.pc \in Done)
=============================================================================
