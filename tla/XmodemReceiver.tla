--------------------------- MODULE XmodemReceiver ---------------------------
(***************************************************************************)
(* receive_batch_into, receive_block(_body), read_ymodem_block_zero_body    *)
(* and purge_line (src/xmodem.rs), one action per item the receiver reads   *)
(* or timeout it takes.  r.pc is where the function is:                     *)
(*   negSend  top of the negotiation loop                                   *)
(*   neg      start request sent, waiting for the first block               *)
(*   main     the receive loop                                              *)
(*   inter    EOT of a YMODEM file ACKed, waiting for the next block 0      *)
(*   ok err   returned                                                      *)
(* r.intact is history: every unit appended to the current file came from   *)
(* the sender's current file, in order and without a gap.                   *)
(***************************************************************************)
EXTENDS XmodemWire

ReceiverPcs == {"negSend", "neg", "main", "inter", "ok", "err"}

\* The per-file state, as it is at the first block of every file.
FreshFile(t) ==
  [t EXCEPT !.exp = 1, !.got = 0, !.intact = TRUE, !.errs = 0,
            !.eotNaked = FALSE, !.awaitEot = FALSE]

ReceiverInit ==
  r = [pc |-> "negSend", mode |-> "crc", att |-> 0, early |-> FALSE, reqSent |-> FALSE,
       ymodem |-> FALSE, f |-> 1, exp |-> 1, got |-> 0, intact |-> TRUE,
       errs |-> 0, eotNaked |-> FALSE, awaitEot |-> FALSE, shortCan |-> FALSE,
       b0 |-> 0, pend |-> FALSE, files |-> <<>>]

\* Write bytes to the sender and go on as t.
Reply(t, bytes) == r' = t /\ toS' = WriteToS(bytes)

\* Seeded bug: an error throws away the files already received.
AbortDroppingFiles(t) == Reply([t EXCEPT !.pc = "err", !.files = <<>>], Cancel)

Abort(t) == Reply([t EXCEPT !.pc = "err"], Cancel)

GiveUp(t) == Reply([t EXCEPT !.pc = "err"], <<>>)

\* The file ends here: it is handed to the caller's list and never touched again.
FileReceived(t) ==
  [t EXCEPT !.files = Append(@, [f |-> t.f, got |-> t.got, intact |-> t.intact])]

Append128(t, b) ==
  [t EXCEPT !.exp = (@ + 1) % SeqMod,
            !.got = @ + b.len,
            !.intact = @ /\ b.good /\ b.kind = "data" /\ b.f = t.f /\ b.off = t.got]

-----------------------------------------------------------------------------
(* Reads.  b is the item at the head of toR.                                *)

ReadItem(b) ==
  /\ r.pc \in {"neg", "main", "inter"}
  /\ toR # <<>> /\ b = Head(toR)

TakeItem == toR' = Tail(toR) /\ UNCHANGED <<xfer, s, up, faults>>

NoteRead(t, b) == [t EXCEPT !.pend = (b.k = "CAN"), !.shortCan = FALSE]

\* CAN CAN, and the Escape key while negotiating.
ReceiverCancelled ==
  /\ \E b \in {Ctl("CAN"), Ctl("ESC")} :
       /\ ReadItem(b)
       /\ \/ b.k = "CAN" /\ r.pend /\ r.pc \in {"neg", "main"}
          \/ b.k = "ESC" /\ r.pc = "neg"
  /\ GiveUp(r)
  /\ TakeItem

\* Top of the negotiation loop: give up, or ask the sender to start.  The
\* deadline can only have passed once some wait has run out.
StartRequest ==
  /\ r.pc = "negSend"
  /\ \/ r.att >= CrcAttempts + MaxRetries /\ GiveUp(r)
     \/ r.att >= 1 /\ GiveUp(r)
     \/ /\ r.att < CrcAttempts + MaxRetries
        /\ LET t == [r EXCEPT !.pc = "neg", !.reqSent = FALSE,
                              !.mode = IF r.att = CrcAttempts THEN "sum" ELSE @]
               request == IF r.att < CrcAttempts THEN "C" ELSE "NAK"
           IN Reply(t, IF r.reqSent THEN <<>> ELSE <<request>>)
  /\ UNCHANGED <<xfer, s, toR, up, faults>>

NextAttempt(t) == [t EXCEPT !.pc = "negSend", !.att = @ + 1]

\* A byte that is no block: a lone CAN costs no attempt, the first EOT is
\* NAKed, the second believed, anything else is ignored.
NegotiationByte ==
  /\ r.pc = "neg"
  /\ \E b \in {Ctl(k) : k \in {"CAN", "EOT", "junk"}} :
       /\ ReadItem(b)
       /\ ~(b.k = "CAN" /\ r.pend)
       /\ LET t == [r EXCEPT !.pend = (b.k = "CAN")] IN
          CASE b.k = "CAN" -> Reply([t EXCEPT !.pc = "negSend"], <<>>)
            [] b.k = "EOT" /\ ~r.early ->
                 Reply([t EXCEPT !.pc = "negSend", !.early = TRUE, !.reqSent = TRUE], <<"NAK">>)
            [] b.k = "EOT" /\ r.early ->
                 Reply([FileReceived(t) EXCEPT !.pc = "ok"], <<"ACK">>)
            [] OTHER -> Reply(NextAttempt(t), <<>>)
  /\ TakeItem

\* A block numbered 0 always has its trailer read as CRC-16.  A data block that
\* wrapped to 0 reads as either kind of block 0, as its first byte happens to be.
ValidZero(b) == b.good /\ b.mode = "crc"
IsTerminator(b) == ValidZero(b) /\ b.kind # "head"
IsHeader(b) == ValidZero(b) /\ b.kind # "end"

\* Block 0 while negotiating.  One damaged in its number or complement is not
\* seen as block 0 at all but as a bad first data block.
NegotiationBlock0 ==
  /\ r.pc = "neg"
  /\ LET b == Head(toR)
         t == [r EXCEPT !.pend = FALSE]
     IN /\ ReadItem(b) /\ b.k = "blk" /\ b.num = 0
        /\ \/ IsTerminator(b) /\ Reply([t EXCEPT !.pc = "ok"], <<"ACK">>)
           \/ /\ IsHeader(b)
              /\ Reply([t EXCEPT !.pc = "main", !.mode = "crc", !.ymodem = TRUE, !.f = b.f],
                       <<"ACK", "C">>)
           \/ ~ValidZero(b) /\ Reply(NextAttempt(t), <<"NAK">>)
           \/ ~b.good /\ Reply([t EXCEPT !.pc = "main"], <<"NAK">>)
  /\ TakeItem

\* The first data block fixes the trailer (auto_detect); it is taken when it is
\* block 1, and NAKed otherwise.  A block cut inside its header ends the receive.
FirstBlock ==
  /\ r.pc = "neg"
  /\ LET b == Head(toR)
         t == [r EXCEPT !.pend = FALSE, !.pc = "main"]
     IN /\ ReadItem(b) /\ b.k = "blk" /\ b.num # 0
        /\ \/ /\ b.good /\ b.num = r.exp
              /\ Reply([Append128(t, b) EXCEPT !.mode = b.mode], <<"ACK">>)
           \/ ~(b.good /\ b.num = r.exp) /\ Reply(t, <<"NAK">>)
           \/ ~b.good /\ GiveUp(t)
  /\ TakeItem

-----------------------------------------------------------------------------
(* The receive loop.                                                        *)

Valid(b) == b.good /\ b.mode = r.mode

Duplicate(b) == b.num \in {(r.exp + SeqMod - 1) % SeqMod, (r.exp + SeqMod - 2) % SeqMod}

\* A new block.  One that would pass the size limit ends the transfer.
BlockAccepted ==
  /\ r.pc = "main"
  /\ LET b == Head(toR)
         t == NoteRead(r, b)
     IN /\ ReadItem(b) /\ b.k = "blk" /\ Valid(b) /\ b.num = r.exp
        /\ IF r.got + b.len > MaxUnits THEN Abort(t)
           ELSE Reply([Append128(t, b) EXCEPT !.errs = 0, !.eotNaked = FALSE, !.awaitEot = FALSE],
                      <<"ACK">>)
  /\ TakeItem

\* One of the last two blocks again: the sender is still mid-file.
BlockDuplicate ==
  /\ r.pc = "main"
  /\ LET b == Head(toR) IN
       /\ ReadItem(b) /\ b.k = "blk" /\ Valid(b) /\ Duplicate(b)
       /\ Reply([NoteRead(r, b) EXCEPT !.awaitEot = FALSE], <<"ACK">>)
  /\ TakeItem

\* A valid block with any other number is a loss of sync.
BlockMismatch ==
  /\ r.pc = "main"
  /\ LET b == Head(toR) IN
       /\ ReadItem(b) /\ b.k = "blk" /\ Valid(b) /\ ~Duplicate(b) /\ b.num # r.exp
       /\ Abort(NoteRead(r, b))
  /\ TakeItem

\* purge_line: whatever else arrives before a second of quiet is dropped; the
\* CANs it ends in tell a sender that gave up.
TrailingCans(items) ==
  Cardinality({i \in 1..Len(items) : \A j \in i..Len(items) : items[j].k = "CAN"})

PurgeThenNak(t) ==
  \E n \in 0..Len(Tail(toR)) :
    LET cans == TrailingCans(SubSeq(Tail(toR), 1, n)) IN
    /\ toR' = SubSeq(Tail(toR), n + 1, Len(Tail(toR)))
    /\ IF cans >= 4 THEN GiveUp(t)
       ELSE Reply([t EXCEPT !.shortCan = cans >= 2], <<"NAK">>)

\* One more block error; past the retry budget the transfer is cancelled.
CountError(t) ==
  IF t.errs + 1 > MaxRetries
  THEN Abort(t) /\ toR' = Tail(toR)
  ELSE PurgeThenNak([t EXCEPT !.errs = @ + 1])

BlockBad ==
  /\ r.pc = "main"
  /\ LET b == Head(toR) IN
       /\ ReadItem(b) /\ b.k = "blk" /\ ~Valid(b)
       /\ CountError(NoteRead(r, b))
  /\ UNCHANGED <<xfer, s, up, faults>>

\* A byte that starts no block; what follows a NAKed EOT re-arms its check.
StrayByte ==
  /\ r.pc = "main"
  /\ \E b \in {Ctl("junk"), Ctl("ESC")} :
       /\ ReadItem(b)
       /\ CountError([NoteRead(r, b) EXCEPT !.eotNaked = FALSE, !.awaitEot = FALSE])
  /\ UNCHANGED <<xfer, s, up, faults>>

LoneCan ==
  /\ r.pc = "main" /\ ReadItem(Ctl("CAN")) /\ ~r.pend
  /\ Reply(NoteRead(r, Ctl("CAN")), <<>>)
  /\ TakeItem

\* A YMODEM file more than 254 bytes short of the size its block 0 declared.
Short(t) == t.ymodem /\ FileBytes - t.got * UnitBytes > 254

\* Seeded bug: the first EOT is believed.
EndOfFileUnverified(t) ==
  LET done == FileReceived(t) IN
  IF t.ymodem
  THEN Reply([done EXCEPT !.pc = "inter", !.b0 = 0, !.got = 0, !.intact = TRUE], <<"ACK", "C">>)
  ELSE Reply([done EXCEPT !.pc = "ok"], <<"ACK">>)

\* An EOT, read or taken for granted: verified by a NAK the first time unless
\* YMODEM's size says the file is whole; then ACKed and the file recorded.
EndOfFile(t) ==
  IF (~t.ymodem \/ Short(t)) /\ ~t.eotNaked
  THEN Reply([t EXCEPT !.eotNaked = TRUE, !.awaitEot = TRUE], <<"NAK">>)
  ELSE LET done == FileReceived(t) IN
       IF t.ymodem
       THEN Reply([done EXCEPT !.pc = "inter", !.b0 = 0, !.got = 0, !.intact = TRUE],
                  <<"ACK", "C">>)
       ELSE Reply([done EXCEPT !.pc = "ok"], <<"ACK">>)

ReadEot ==
  /\ r.pc = "main" /\ ReadItem(Ctl("EOT"))
  /\ EndOfFile(NoteRead(r, Ctl("EOT")))
  /\ TakeItem

-----------------------------------------------------------------------------
(* Between two files of a YMODEM batch.                                     *)

\* The next file's block 0, the end of the batch, a damaged or stray block
\* (NAKed within the retry budget), or a byte that is no block at all.  Of a block
\* whose header is not a block 0's, only the header is taken: the rest is junk.
InterFile ==
  /\ r.pc = "inter"
  /\ LET b == Head(toR)
         zero == b.k = "blk" /\ b.num = 0
     IN /\ ReadItem(b)
        /\ \/ b.k # "blk" /\ Reply([r EXCEPT !.pc = "ok"], <<>>)
           \/ zero /\ IsTerminator(b) /\ Reply([r EXCEPT !.pc = "ok"], <<"ACK">>)
           \/ /\ zero /\ IsHeader(b)
              /\ IF Len(r.files) >= MaxBatchFiles THEN Abort(r)
                 ELSE Reply([FreshFile(r) EXCEPT !.pc = "main", !.f = b.f], <<"ACK", "C">>)
           \/ /\ b.k = "blk" /\ ~(zero /\ ValidZero(b))
              /\ IF r.b0 + 1 > MaxRetries THEN Reply([r EXCEPT !.pc = "ok"], <<>>)
                 ELSE Reply([r EXCEPT !.b0 = @ + 1], <<"NAK">>)
        /\ \/ (b.k = "blk" => zero) /\ toR' = Tail(toR)
           \/ b.k = "blk" /\ (zero => ~b.good) /\ toR' = <<Ctl("junk")>> \o Tail(toR)
  /\ UNCHANGED <<xfer, s, up, faults>>

-----------------------------------------------------------------------------
\* Silence for the whole of the current wait.  After a NAKed EOT it is the
\* sender having finished; after a short CAN tail, having cancelled.
ReceiverSilence ==
  \/ r.pc = "neg" /\ Reply(NextAttempt(r), <<>>)
  \/ r.pc = "inter" /\ Reply([r EXCEPT !.pc = "ok"], <<>>)
  \/ /\ r.pc = "main" /\ r.awaitEot /\ r.got > 0
     /\ EndOfFile(NoteRead(r, Ctl("EOT")))
  \/ /\ r.pc = "main" /\ ~(r.awaitEot /\ r.got > 0)
     /\ IF r.shortCan THEN Abort([r EXCEPT !.shortCan = FALSE])
        ELSE IF r.errs + 1 > MaxRetries THEN Abort(r)
        ELSE Reply([r EXCEPT !.errs = @ + 1], <<"NAK">>)

\* A read or write on a dropped connection: the files received so far are kept.
ReceiverLineDown ==
  /\ ~up /\ r.pc \notin Done
  /\ r' = [r EXCEPT !.pc = IF r.pc = "inter" THEN "ok" ELSE "err"]
  /\ UNCHANGED <<xfer, s, toR, toS, up, faults>>

ReceiverRead ==
  \/ ReceiverCancelled \/ StartRequest \/ NegotiationByte \/ NegotiationBlock0
  \/ FirstBlock \/ BlockAccepted \/ BlockDuplicate \/ BlockMismatch \/ BlockBad
  \/ StrayByte \/ LoneCan \/ ReadEot \/ InterFile
=============================================================================
