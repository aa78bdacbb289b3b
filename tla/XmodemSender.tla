---------------------------- MODULE XmodemSender ----------------------------
(***************************************************************************)
(* xmodem_send, send_ymodem_block_zero and send_ymodem_end_of_batch         *)
(* (src/xmodem.rs), one action per byte the sender reads or timeout it      *)
(* takes.  s.pc is the read the function is blocked in:                     *)
(*   neg     waiting for the receiver's start request                      *)
(*   zero    block 0 sent, waiting for its ACK                             *)
(*   dataC   waiting for the second 'C'                                    *)
(*   data    a data block sent, waiting for its answer                     *)
(*   eot     EOT sent, waiting for its answer                              *)
(*   eob     waiting for the end-of-batch 'C'                              *)
(*   eobAck  null block 0 sent, waiting for its ACK                        *)
(*   ok err  returned                                                      *)
(***************************************************************************)
EXTENDS XmodemWire

SenderPcs == {"neg", "zero", "dataC", "data", "eot", "eob", "eobAck", "ok", "err"}

SenderInit ==
  s = [pc |-> "neg", mode |-> "crc", f |-> 1, idx |-> 1, off |-> 0, big |-> Use1K,
       tries |-> 0, stray |-> 0, pend |-> FALSE, lone |-> FALSE]

\* The next block of the file: STX while 1K framing still stands and a full
\* chunk is left, SOH otherwise.
UseStx(t) == t.big /\ FileUnits - t.off >= BigUnits
BlockLen(t) == IF UseStx(t) THEN BigUnits ELSE 1
DataBlock(t) == Block("data", t.idx % SeqMod, t.f, t.off, BlockLen(t), t.mode)

\* t is the sender's state at the top of `while offset < padded.len()`: send
\* the block at t.off, or EOT when the file is through.
SendFrom(t) ==
  IF t.off < FileUnits
  THEN /\ s' = [t EXCEPT !.pc = "data", !.tries = 0, !.stray = 0]
       /\ toR' = WriteToR(<<DataBlock(t)>>)
  ELSE /\ s' = [t EXCEPT !.pc = "eot", !.tries = 1, !.pend = FALSE, !.lone = FALSE]
       /\ toR' = WriteToR(<<Ctl("EOT")>>)

SendZero(t) ==
  /\ s' = [t EXCEPT !.pc = "zero", !.tries = 0]
  /\ toR' = WriteToR(<<HeadBlock(t.f)>>)

Fail(t) == s' = [t EXCEPT !.pc = "err"] /\ UNCHANGED toR
Succeed(t) == s' = [t EXCEPT !.pc = "ok"] /\ UNCHANGED toR

\* Seeded bug: a resend is not counted.
ResendBlockUncounted(t) ==
  IF t.tries + 1 > MaxRetries
  THEN s' = [t EXCEPT !.pc = "err"] /\ toR' = WriteToR(CancelBlocks)
  ELSE /\ s' = [t EXCEPT !.stray = 0]
       /\ toR' = WriteToR(<<DataBlock(t)>>)

\* One more failed attempt at the current block, within the retry budget.
ResendBlock(t) ==
  IF t.tries + 1 > MaxRetries
  THEN s' = [t EXCEPT !.pc = "err"] /\ toR' = WriteToR(CancelBlocks)
  ELSE /\ s' = [t EXCEPT !.tries = @ + 1, !.stray = 0]
       /\ toR' = WriteToR(<<DataBlock(t)>>)

ResendZero(t) ==
  IF t.tries + 1 > MaxRetries
  THEN Fail(t)
  ELSE s' = [t EXCEPT !.tries = @ + 1] /\ toR' = WriteToR(<<HeadBlock(t.f)>>)

EotAttempts == IF MaxRetries + 1 > 2 THEN MaxRetries + 1 ELSE 2

ResendEot(t) ==
  IF t.tries < EotAttempts
  THEN /\ s' = [t EXCEPT !.tries = @ + 1, !.pend = FALSE, !.lone = FALSE]
       /\ toR' = WriteToR(<<Ctl("EOT")>>)
  ELSE Fail(t)

\* The null block 0, or -- for an external batch sender with files left -- the
\* next file's block 0.
EndOrNextFile(t) ==
  IF t.f < NFiles
  THEN SendZero([t EXCEPT !.f = @ + 1, !.idx = 1, !.off = 0])
  ELSE /\ s' = [t EXCEPT !.pc = "eobAck", !.tries = 0]
       /\ toR' = WriteToR(<<EndBlock>>)

-----------------------------------------------------------------------------
(* Reads.  b is the byte at the head of toS.                                *)

\* is_can_abort: two CANs in a row abort, and any other byte clears the flag.
Aborts(t, b) == b = "CAN" /\ t.pend
NoteCan(t, b) == [t EXCEPT !.pend = (b = "CAN")]

ReadByte(b) ==
  /\ s.pc \notin Done
  /\ toS # <<>> /\ b = Head(toS)

TakeByte == toS' = Tail(toS) /\ UNCHANGED <<xfer, r, up, faults>>

\* CAN CAN in any wait that applies Forsberg's rule, ESC while negotiating.
SenderCancelled ==
  /\ \E b \in {"CAN", "ESC"} :
       /\ ReadByte(b)
       /\ \/ Aborts(s, b) /\ s.pc \in {"neg", "zero", "dataC", "data", "eot"}
          \/ b = "ESC" /\ s.pc = "neg"
  /\ Fail([s EXCEPT !.pend = FALSE])
  /\ TakeByte

\* The start request fixes the trailer; what follows it closely is drained,
\* then block 0 or the first block goes out.
SenderStart ==
  /\ s.pc = "neg"
  /\ \E b \in {"C", "NAK"}, n \in 0..Len(toS) - 1 :
       /\ ReadByte(b)
       /\ toS' = SubSeq(toS, n + 2, Len(toS))
       /\ LET t == [NoteCan(s, b) EXCEPT !.mode = IF b = "C" THEN "crc" ELSE "sum"]
          IN IF Ymodem THEN SendZero(t) ELSE SendFrom(t)
  /\ UNCHANGED <<xfer, r, up, faults>>

SenderIgnore ==
  /\ s.pc = "neg"
  /\ \E b \in {"ACK", "junk", "CAN"} :
       /\ ReadByte(b) /\ ~Aborts(s, b)
       /\ s' = NoteCan(s, b)
  /\ TakeByte /\ UNCHANGED toR

SenderZeroReply ==
  /\ s.pc = "zero"
  /\ \E b \in {"ACK", "NAK", "C", "ESC", "junk", "CAN"} :
       /\ ReadByte(b) /\ ~Aborts(s, b)
       /\ LET t == NoteCan(s, b) IN
          CASE b = "ACK" -> s' = [t EXCEPT !.pc = "dataC", !.stray = 0] /\ UNCHANGED toR
            [] b = "CAN" -> s' = t /\ UNCHANGED toR
            [] OTHER     -> ResendZero(t)
  /\ TakeByte

\* Only 'C' opens the data phase; a bounded number of other bytes is absorbed.
SenderDataRequest ==
  /\ s.pc = "dataC"
  /\ \E b \in {"ACK", "NAK", "C", "ESC", "junk", "CAN"} :
       /\ ReadByte(b)
       /\ b = "C" \/ ~Aborts(s, b)
       /\ IF b = "C" THEN SendFrom(s)
          ELSE IF s.stray + 1 >= MaxStray THEN SendFrom(NoteCan(s, b))
          ELSE s' = [NoteCan(s, b) EXCEPT !.stray = @ + 1] /\ UNCHANGED toR
  /\ TakeByte

(* Answers to a data block.                                                 *)

\* Seeded bug: the offset does not follow the size of the block just sent.
BlockAckedAsSoh ==
  /\ s.pc = "data" /\ ReadByte("ACK")
  /\ SendFrom([s EXCEPT !.pend = FALSE, !.off = @ + 1, !.idx = @ + 1])
  /\ TakeByte

BlockAcked ==
  /\ s.pc = "data" /\ ReadByte("ACK")
  /\ SendFrom([s EXCEPT !.pend = FALSE, !.off = @ + BlockLen(s), !.idx = @ + 1])
  /\ TakeByte

\* A first STX block answered by NAK is taken for a receiver without 1K
\* support: the same offset goes out again in SOH blocks.
BlockNaked ==
  /\ s.pc = "data" /\ ReadByte("NAK")
  /\ LET t == [s EXCEPT !.pend = FALSE] IN
     IF UseStx(t) /\ t.idx = 1 /\ t.tries = 0
     THEN SendFrom([t EXCEPT !.big = FALSE])
     ELSE ResendBlock(t)
  /\ TakeByte

BlockAnsweredOddly ==
  /\ s.pc = "data"
  /\ \E b \in {"ESC", "junk"} : ReadByte(b)
  /\ ResendBlock([s EXCEPT !.pend = FALSE])
  /\ TakeByte

\* A start request or a lone CAN is no answer to a block: keep waiting.
BlockStrayByte ==
  /\ s.pc = "data"
  /\ \E b \in {"C", "CAN"} :
       /\ ReadByte(b) /\ ~Aborts(s, b)
       /\ LET t == NoteCan(s, b) IN
          IF b = "CAN" THEN s' = t /\ UNCHANGED toR
          ELSE IF t.stray + 1 >= MaxStray THEN ResendBlock(t)
          ELSE s' = [t EXCEPT !.stray = @ + 1] /\ UNCHANGED toR
  /\ TakeByte

\* Answers to EOT: ACK and every byte that is neither NAK nor CAN end the file.
EotAnswered ==
  /\ s.pc = "eot"
  /\ \E b \in {"ACK", "C", "ESC", "junk"} :
       /\ ReadByte(b)
       /\ LET t == [s EXCEPT !.pend = FALSE] IN
          CASE ~Ymodem -> Succeed(t)
            [] Ymodem /\ b = "C" -> EndOrNextFile(t)
            [] OTHER -> s' = [t EXCEPT !.pc = "eob"] /\ UNCHANGED toR
  /\ TakeByte

\* Seeded bug: a NAK is taken for any other answer to EOT.
EotNakedTakenForAck ==
  /\ s.pc = "eot" /\ ReadByte("NAK")
  /\ Succeed([s EXCEPT !.pend = FALSE])
  /\ TakeByte

EotNaked ==
  /\ s.pc = "eot" /\ ReadByte("NAK")
  /\ ResendEot([s EXCEPT !.pend = FALSE])
  /\ TakeByte

EotLoneCan ==
  /\ s.pc = "eot" /\ ReadByte("CAN") /\ ~s.pend
  /\ s' = [s EXCEPT !.pend = TRUE, !.lone = TRUE]
  /\ TakeByte /\ UNCHANGED toR

EndOfBatchRequest ==
  /\ s.pc = "eob"
  /\ \E b \in {"ACK", "NAK", "C", "ESC", "junk", "CAN"} :
       /\ ReadByte(b)
       /\ IF b = "C" THEN EndOrNextFile(s) ELSE Succeed(s)
  /\ TakeByte

EobMaxRetries == 2

EndOfBatchReply ==
  /\ s.pc = "eobAck"
  /\ \E b \in {"ACK", "NAK", "C", "ESC", "junk", "CAN"} :
       /\ ReadByte(b)
       /\ IF b # "ACK" /\ s.tries + 1 < EobMaxRetries
          THEN s' = [s EXCEPT !.tries = @ + 1] /\ toR' = WriteToR(<<EndBlock>>)
          ELSE Succeed(s)
  /\ TakeByte

\* Silence for the whole of the current wait.  A lone CAN before it is taken
\* as an acceptance of the EOT.
SenderSilence ==
  /\ s.pc \notin Done
  /\ CASE s.pc = "neg"   -> Fail(s)
       [] s.pc = "zero"  -> ResendZero(s)
       [] s.pc = "dataC" -> SendFrom(s)
       [] s.pc = "data"  -> ResendBlock(s)
       [] s.pc = "eot" /\ s.lone /\ Ymodem -> s' = [s EXCEPT !.pc = "eob"] /\ UNCHANGED toR
       [] s.pc = "eot" /\ s.lone /\ ~Ymodem -> Succeed(s)
       [] s.pc = "eot" /\ ~s.lone -> ResendEot(s)
       [] OTHER -> Succeed(s)

\* A read or write on a dropped connection.  Block 0 spends its retries on it;
\* a lone CAN and the end-of-batch courtesy are still a success.
SenderLineDown ==
  /\ ~up /\ s.pc \notin Done
  /\ IF s.pc \in {"eob", "eobAck"} \/ (s.pc = "eot" /\ s.lone)
     THEN Succeed(s) ELSE Fail(s)
  /\ UNCHANGED <<xfer, r, toS, up, faults>>

SenderRead ==
  \/ SenderCancelled \/ SenderStart \/ SenderIgnore \/ SenderZeroReply
  \/ SenderDataRequest \/ BlockAcked \/ BlockNaked \/ BlockAnsweredOddly
  \/ BlockStrayByte \/ EotAnswered \/ EotNaked \/ EotLoneCan
  \/ EndOfBatchRequest \/ EndOfBatchReply
=============================================================================
