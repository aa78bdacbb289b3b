------------------------------- MODULE Zmodem -------------------------------
(***************************************************************************)
(* One ZMODEM batch (src/zmodem.rs): zmodem_send at one end of a faulty      *)
(* line, receive_into and receive_one_file at the other.  Headers and data   *)
(* subpackets are separate items of the line.  A subpacket has no number     *)
(* (f and pos only say what it carries), so its place in the file follows    *)
(* from the ZDATA header before it.                                         *)
(*                                                                          *)
(* The sender waits in init (for ZRINIT), file (ZRPOS), data (ZACK), eof     *)
(* (ZRINIT) and fin (ZFIN).  The receiver waits for a header in wait (no     *)
(* file open), again (a damaged ZFILE to be repeated) and data, and for a    *)
(* subpacket in info (of ZFILE) and sub (of ZDATA).                         *)
(***************************************************************************)
EXTENDS Line

CONSTANTS
  Transfers,      \* the transfers considered
  MaxRetries,     \* zmodem_max_retries
  NegRetries,     \* retry intervals in zmodem_negotiation_timeout
  MaxBatchFiles   \* MAX_BATCH_FILES

VARIABLE
  xfer    \* files; size of each, in subpackets; segmented: the receiver has a
          \* small buffer; skip: the files decide() turns down

VARIABLE
  amiss   \* history: something neither half can notice has happened (Strays,
          \* DataHeaderAlone)

vars == <<xfer, s, r, toR, toS, up, faults, amiss>>

ASSUME ZmodemAssumption ==
  /\ \A x \in Transfers : /\ {x.files, x.size} \subseteq Nat /\ x.files > 0
                          /\ x.segmented \in BOOLEAN /\ x.skip \subseteq 1..x.files
  /\ {MaxRetries, NegRetries, MaxBatchFiles} \subseteq Nat \ {0}

Header(k, f, pos) == [k |-> k, f |-> f, pos |-> pos, ok |-> TRUE]
Plain(k) == Header(k, 0, 0)

\* A data subpacket and how it ends its frame: E ends the file's data, Q and W ask
\* for a ZACK, after W a new ZDATA follows.
Subpacket(f, pos, mark) == [k |-> "sub", f |-> f, pos |-> pos, mark |-> mark, ok |-> TRUE]

IsSub(p) == p.k = "sub"

\* A run of CANs: the peer's, or the send_cancel of the other half.
CancelItem == [k |-> "CAN", ok |-> TRUE]

\* What a half does next: its new state and what it writes.
Does(t, out) == [st |-> t, out |-> out]
Plus(out, d) == Does(d.st, out \o d.out)

-----------------------------------------------------------------------------
(* The sender.  att counts the tries of the current phase, eofs those of the  *)
(* ZEOF of the file, stray the ZRINITs or ZACKs passed over.                  *)

Fails(t) == Does([t EXCEPT !.pc = "err"], <<>>)
GivesUp(t) == Does([t EXCEPT !.pc = "err"], <<CancelItem>>)

SendFile(t) ==
  IF t.att > MaxRetries THEN GivesUp(t)
  ELSE Does([t EXCEPT !.pc = "file", !.att = @ + 1, !.stray = 0],
            <<Plain("ZFILE"), Subpacket(t.f, 0, "W")>>)

\* The next file, or ZFIN behind the last one.
NextFile(t) ==
  IF t.f < xfer.files THEN SendFile([t EXCEPT !.f = @ + 1, !.att = 0, !.eofs = 0])
  ELSE Does([t EXCEPT !.pc = "fin"], <<Plain("ZFIN")>>)

SendEof(t) ==
  IF t.eofs > MaxRetries THEN GivesUp(t)
  ELSE Does([t EXCEPT !.pc = "eof", !.eofs = @ + 1], <<Header("ZEOF", t.f, xfer.size)>>)

\* The chunk at t.pos; the last one is not acknowledged, ZEOF follows it.
SendChunk(t) ==
  IF t.pos + 1 = xfer.size
  THEN Plus(<<Subpacket(t.f, t.pos + 1, "E")>>, SendEof(t))
  ELSE Does([t EXCEPT !.pc = "data", !.stray = 0],
            <<Subpacket(t.f, t.pos + 1, IF xfer.segmented THEN "W" ELSE "Q")>>)

\* The top of send_zdata_run's loop.
SendRun(t) ==
  IF t.pos >= xfer.size THEN SendEof(t)
  ELSE IF t.att > MaxRetries THEN GivesUp(t)
  ELSE Plus(<<Header("ZDATA", t.f, t.pos)>>, SendChunk([t EXCEPT !.att = @ + 1]))

Lower(a, b) == IF a <= b THEN a ELSE b

\* send_zdata_run from the position a ZRPOS asks for.
RunFrom(t, pos) == SendRun([t EXCEPT !.pos = Lower(pos, xfer.size), !.att = 0])

SendInit(t) ==
  IF t.att + 1 > MaxRetries THEN Fails(t)
  ELSE Does([t EXCEPT !.att = @ + 1], <<Plain("ZRQINIT")>>)

\* A ZACK of the chunk just sent, or of another one.
DataAcked(t, p) ==
  LET u == [t EXCEPT !.pos = @ + 1, !.att = 0] IN
  IF p.pos = t.pos + 1
  THEN IF xfer.segmented THEN SendRun(u) ELSE SendChunk(u)
  ELSE IF t.stray + 1 > MaxRetries THEN SendRun(t)
  ELSE Does([t EXCEPT !.stray = @ + 1], <<>>)

AfterEof(t, p) ==
  CASE p.k = "ZRINIT" -> NextFile(t)
    [] p.k = "ZRPOS"  -> RunFrom(t, p.pos)
    [] OTHER          -> SendEof(t)

\* The answer to an intact header, and to a wait that ends without one.
SenderHeader(t, p) ==
  CASE t.pc = "init" -> IF p.k = "ZRINIT" THEN SendFile([t EXCEPT !.att = 0]) ELSE Does(t, <<>>)
    [] t.pc = "file" ->
         (CASE p.k = "ZRPOS"  -> RunFrom(t, p.pos)
            [] p.k = "ZSKIP"  -> NextFile(t)
            [] p.k = "ZRINIT" /\ t.stray + 1 <= MaxRetries -> Does([t EXCEPT !.stray = @ + 1], <<>>)
            [] OTHER          -> SendFile(t))
    [] t.pc = "data" ->
         (CASE p.k = "ZACK"   -> DataAcked(t, p)
            [] p.k = "ZRPOS"  -> SendRun([t EXCEPT !.pos = Lower(p.pos, xfer.size)])
            [] OTHER          -> SendRun(t))
    [] t.pc = "eof"  -> AfterEof(t, p)
    [] t.pc = "fin"  -> Does(IF p.k = "ZFIN" THEN [t EXCEPT !.pc = "ok"] ELSE t, <<>>)

\* Seeded bug: a repeated ZEOF is not counted.
SenderNothingEndless(t) ==
  CASE t.pc = "init" -> SendInit(t)
    [] t.pc = "file" -> SendFile(t)
    [] t.pc = "data" -> SendRun(t)
    [] t.pc = "eof"  -> SendEof([t EXCEPT !.eofs = 0])
    [] t.pc = "fin"  -> Does([t EXCEPT !.pc = "ok"], <<>>)

SenderNothing(t) ==
  CASE t.pc = "init" -> SendInit(t)
    [] t.pc = "file" -> SendFile(t)
    [] t.pc = "data" -> SendRun(t)
    [] t.pc = "eof"  -> SendEof(t)
    [] t.pc = "fin"  -> Does([t EXCEPT !.pc = "ok"], <<>>)

\* A cancel or a hang-up ends every wait but the one for the last ZFIN badly.
SenderGone(t) == [t EXCEPT !.pc = IF @ = "fin" THEN "ok" ELSE "err"]

SenderDoes(d) == s' = d.st /\ toR' = WriteToR(d.out)

\* A ZSKIP does not say which file it is about: the sender takes it for the file it
\* offers, though the receiver has turned down another one.
Strays(p) == s.pc = "file" /\ p.k = "ZSKIP" /\ p.ok /\ s.f \notin xfer.skip

SenderRead ==
  /\ s.pc \notin Done /\ toS # <<>>
  /\ LET p == Head(toS) IN
     \/ p.k = "CAN" /\ SenderDoes(Does(SenderGone(s), <<>>))
     \/ p.k = "ESC" /\ UNCHANGED <<s, toR>>
     \/ p.k \notin {"CAN", "ESC"} /\ p.ok /\ SenderDoes(SenderHeader(s, p))
     \/ p.k \notin {"CAN", "ESC"} /\ ~p.ok /\ SenderDoes(SenderNothing(s))
  /\ toS' = Tail(toS)
  /\ amiss' = (amiss \/ Strays(Head(toS)))
  /\ UNCHANGED <<xfer, r, up, faults>>

SenderSilence == s.pc \notin Done /\ SenderDoes(SenderNothing(s))

SenderLineDown ==
  /\ ~up /\ toS = <<>> /\ s.pc \notin Done
  /\ s' = SenderGone(s)
  /\ UNCHANGED <<xfer, r, toR, toS, up, faults, amiss>>

-----------------------------------------------------------------------------
(* The receiver.  seen is zfile_seen; errs the error count of the loop it is  *)
(* in (inter_file_header_errors, zfile_errors, errors); idle                 *)
(* progressless_frames; f and pos the open file and expected_pos, good the   *)
(* part of it that is the sent file's; skipped eof_ignored; junk: a header    *)
(* was read into the subpacket; files the ones received.                     *)

ReceiverInit ==
  r = [pc |-> "wait", seen |-> 0, errs |-> 0, idle |-> 0, f |-> 0, pos |-> 0, good |-> 0,
       skipped |-> FALSE, junk |-> FALSE, files |-> <<>>]

\* One more error of a loop: answer it, or cancel at the limit.
Retry(t, out) ==
  IF t.errs + 1 > MaxRetries THEN GivesUp(t) ELSE Does([t EXCEPT !.errs = @ + 1], out)

Rpos(t) == <<Header("ZRPOS", 0, t.pos)>>

\* nak_or_abort, back in the data loop.
Nak(t) == Retry([t EXCEPT !.pc = "data", !.junk = FALSE], Rpos(t))

ToWait(t) == [t EXCEPT !.pc = "wait", !.errs = 0, !.f = 0, !.pos = 0, !.good = 0]

\* The file is one more than a batch may have.
BatchFull(t) == t.seen >= MaxBatchFiles

\* Between files, and while negotiating: receive_into.
WaitHeader(t0, p) ==
  LET t == [t0 EXCEPT !.errs = IF @ > 0 /\ t0.seen > 0 THEN 0 ELSE @, !.idle = @ + 1] IN
  IF t.idle > 2 * MaxRetries THEN GivesUp(t)
  ELSE CASE p.k \in {"ZRQINIT", "ZEOF"} -> Does(t, <<Plain("ZRINIT")>>)
         [] p.k = "ZFILE" ->
              IF BatchFull(t) THEN GivesUp(t)
              ELSE Does([t EXCEPT !.pc = "info", !.seen = @ + 1, !.idle = 0, !.errs = 0], <<>>)
         [] p.k = "ZFIN"  -> Does([t EXCEPT !.pc = IF t.seen = 0 THEN "err" ELSE "ok"], <<Plain("ZFIN")>>)
         [] OTHER         -> Does(t, <<>>)

\* The ZFILE header came through: its info subpacket, or a demand to repeat it.
InfoError(t) == Retry([t EXCEPT !.pc = "again", !.junk = FALSE], <<Plain("ZNAK")>>)

TakeInfo(t, p) ==
  IF p.f \in xfer.skip THEN Does(ToWait(t), <<Plain("ZSKIP")>>)
  ELSE LET u == [t EXCEPT !.pc = "data", !.f = p.f, !.pos = 0, !.good = 0, !.errs = 0,
                          !.skipped = FALSE]
       IN Does(u, Rpos(u))

AgainHeader(t, p) ==
  IF p.k = "ZFILE" THEN Does([t EXCEPT !.pc = "info"], <<>>) ELSE Retry(t, <<>>)

\* Seeded bug: the length a ZEOF gives is not looked at.
TakeEofAny(t, p) ==
  Does([ToWait(t) EXCEPT !.files = Append(@, [f |-> t.f, len |-> t.pos, good |-> t.good])],
       <<Plain("ZRINIT")>>)

\* A ZEOF at another length than received is passed over once: data may have been
\* overtaken by it.
TakeEof(t, p) ==
  IF p.pos = t.pos
  THEN Does([ToWait(t) EXCEPT !.files = Append(@, [f |-> t.f, len |-> t.pos, good |-> t.good])],
            <<Plain("ZRINIT")>>)
  ELSE IF t.skipped THEN Nak([t EXCEPT !.skipped = FALSE])
  ELSE Retry([t EXCEPT !.skipped = TRUE], <<>>)

\* Seeded bug: the position of a ZDATA is not looked at.
TakeDataHeaderAny(t, p) == Does([t EXCEPT !.pc = "sub"], <<>>)

TakeDataHeader(t, p) == IF p.pos = t.pos THEN Does([t EXCEPT !.pc = "sub"], <<>>) ELSE Nak(t)

DataHeader(t, p) ==
  CASE p.k = "ZDATA"   -> TakeDataHeader(t, p)
    [] p.k = "ZEOF"    -> TakeEof(t, p)
    [] p.k = "ZRQINIT" -> Retry(t, <<Plain("ZRINIT")>>)
    [] OTHER           -> Nak(t)

\* A good subpacket of a ZDATA frame; the mark says where the next one goes.
TakeSub(t, p) ==
  LET next == t.good = t.pos /\ p.f = t.f /\ p.pos = t.pos + 1
      u == [t EXCEPT !.errs = 0, !.skipped = FALSE, !.pos = @ + 1,
                     !.good = IF next THEN @ + 1 ELSE @,
                     !.pc = IF p.mark = "Q" THEN "sub" ELSE "data"]
  IN Does(u, IF p.mark = "E" THEN <<>> ELSE <<Header("ZACK", 0, u.pos)>>)

\* A read that fails: a damaged or missing header or subpacket.
WaitError(t, timeout) ==
  IF t.seen = 0
  THEN IF t.errs + 1 > NegRetries THEN GivesUp(t)
       ELSE Does([t EXCEPT !.errs = @ + 1], <<Plain("ZRINIT")>>)
  ELSE IF timeout THEN Does([t EXCEPT !.pc = "ok"], <<>>)
  ELSE Retry(t, <<Plain("ZNAK")>>)

ReceiverNothing(t, timeout) ==
  CASE t.pc = "wait"           -> WaitError(t, timeout)
    [] t.pc = "info"           -> InfoError(t)
    [] t.pc = "again"          -> Retry(t, <<Plain("ZNAK")>>)
    [] t.pc \in {"data", "sub"} -> Nak(t)

\* A header read hunts past subpackets; a subpacket read takes a header's bytes in.
ReceiverItem(t, p) ==
  IF t.pc \in {"info", "sub"}
  THEN IF ~IsSub(p) THEN Does([t EXCEPT !.junk = TRUE], <<>>)
       ELSE IF ~p.ok \/ t.junk THEN ReceiverNothing(t, FALSE)
       ELSE IF t.pc = "info" THEN TakeInfo(t, p) ELSE TakeSub(t, p)
  ELSE IF IsSub(p) THEN Does(t, <<>>)
  ELSE IF ~p.ok THEN ReceiverNothing(t, FALSE)
  ELSE CASE t.pc = "wait"  -> WaitHeader(t, p)
         [] t.pc = "again" -> AgainHeader(t, p)
         [] t.pc = "data"  -> DataHeader(t, p)

ReceiverDoes(d) == r' = d.st /\ toS' = WriteToS(d.out)

ReceiverRead ==
  /\ r.pc \notin Done /\ toR # <<>>
  /\ LET p == Head(toR) IN
     \/ p.k = "CAN" /\ ReceiverDoes(Fails(r))
     \/ p.k = "ESC" /\ ReceiverDoes(Does([r EXCEPT !.junk = @ \/ r.pc \in {"info", "sub"}], <<>>))
     \/ p.k \notin {"CAN", "ESC"} /\ ReceiverDoes(ReceiverItem(r, p))
  /\ toR' = Tail(toR)
  /\ UNCHANGED <<xfer, s, up, faults, amiss>>

ReceiverSilence == r.pc \notin Done /\ ReceiverDoes(ReceiverNothing(r, TRUE))

ReceiverLineDown ==
  /\ ~up /\ toR = <<>> /\ r.pc \notin Done
  /\ ReceiverDoes(Fails(r))
  /\ UNCHANGED <<xfer, s, toR, up, faults, amiss>>

-----------------------------------------------------------------------------
(* The two halves on the line.                                              *)

SenderInit ==
  s = [pc |-> "init", f |-> 1, pos |-> 0, att |-> 0, eofs |-> 0, stray |-> 0]

Init ==
  /\ xfer \in Transfers
  /\ SenderInit /\ ReceiverInit
  /\ toR = <<Plain("ZRQINIT")>> /\ toS = <<Plain("ZRINIT")>>
  /\ up = TRUE /\ faults = 0 /\ amiss = FALSE

SenderTimeout ==
  /\ SenderQuiet /\ SenderSilence
  /\ UNCHANGED <<xfer, r, toS, up, faults, amiss>>

ReceiverTimeout ==
  /\ ReceiverQuiet /\ ReceiverSilence
  /\ UNCHANGED <<xfer, s, toR, up, faults, amiss>>

BothTimeout ==
  /\ SenderQuiet /\ ReceiverQuiet
  /\ SenderSilence /\ ReceiverSilence
  /\ UNCHANGED <<xfer, up, faults, amiss>>

SenderTimeoutLate ==
  /\ Fault("delay") /\ ~SenderQuiet /\ SenderSilence
  /\ UNCHANGED <<xfer, r, toS, up, amiss>>

ReceiverTimeoutLate ==
  /\ Fault("delay") /\ ~ReceiverQuiet /\ ReceiverSilence
  /\ UNCHANGED <<xfer, s, toR, up, amiss>>

\* The line drops exactly a ZDATA header.  The subpacket behind it arrives intact and
\* without a position.
DataHeaderAlone == Len(toR) > 1 /\ Head(toR).k = "ZDATA" /\ toR' = Tail(toR)

ZmodemLine == LineFault /\ amiss' = (amiss \/ DataHeaderAlone) /\ UNCHANGED xfer

Timeout == SenderTimeout \/ ReceiverTimeout \/ BothTimeout

Terminated == s.pc \in Done /\ r.pc \in Done /\ UNCHANGED vars

\* Some half goes on while one can.
Progress == SenderRead \/ ReceiverRead \/ Timeout \/ SenderLineDown \/ ReceiverLineDown

Next ==
  \/ Progress
  \/ ZmodemLine \/ SenderTimeoutLate \/ ReceiverTimeoutLate
  \/ Terminated

Spec == Init /\ [][Next]_vars

FairSpec == Spec /\ WF_vars(Progress)

-----------------------------------------------------------------------------
\* The locals of the two halves keep their types, and no loop of src/zmodem.rs goes
\* past its limit of retries.
TypeOK ==
  /\ xfer \in Transfers
  /\ s.pc \in {"init", "file", "data", "eof", "fin"} \cup Done
  /\ s.f \in 1..xfer.files /\ s.pos \in 0..xfer.size
  /\ {s.att, s.eofs} \subseteq 0..MaxRetries + 1 /\ s.stray \in 0..MaxRetries
  /\ r.pc \in {"wait", "info", "again", "data", "sub"} \cup Done
  /\ r.seen \in 0..MaxBatchFiles /\ r.idle \in 0..2 * MaxRetries + 1
  /\ r.errs \in 0..IF r.seen = 0 THEN NegRetries ELSE MaxRetries
  /\ r.f \in 0..xfer.files /\ r.good \in 0..xfer.size

Whole(e) == e.len = xfer.size /\ e.good = xfer.size

\* No subpacket is appended out of place: every position of receive_one_file's buffer
\* holds the sender's data, though a subpacket carries no position of its own.
PrefixReceived == ~amiss => r.good = r.pos

AtItsLength == \A i \in DOMAIN r.files : r.files[i].len = xfer.size

\* A file the receiver lists as received has the length the sender gave it, whatever the
\* line does, and its content.
ReceivedIsWhole ==
  AtItsLength /\ (~amiss => \A i \in DOMAIN r.files : r.files[i].good = xfer.size)

Wanted == 1..xfer.files \ xfer.skip

Received(f) == \E i \in DOMAIN r.files : r.files[i].f = f

\* A send that reports success has every file the receiver does not turn down with it.
SenderSuccessIsWhole == s.pc = "ok" /\ ~amiss => \A f \in Wanted : Received(f)

\* What zmodem_send rests on, "every ZFILE we send produces a matching ZRPOS/ZSKIP": no
\* file is passed over that the receiver did not turn down.
SkippedWasTurnedDown == s.pc = "ok" => \A f \in Wanted : Received(f)

\* A line without faults never makes a half give up.
CleanLineSucceeds ==
  faults = 0 /\ xfer.files <= MaxBatchFiles => s.pc # "err" /\ r.pc # "err"

\* The invariants above, together: nothing lands out of place, what is listed is whole, a
\* successful send is a complete one, and a clean line lets both halves succeed
\* (zmodem_send, receive_into).
TransferSound == TypeOK /\ PrefixReceived /\ ReceivedIsWhole /\ SenderSuccessIsWhole /\ CleanLineSucceeds

\* Both halves return, however the two recoveries meet.
BothReturn == <>(s.pc \in Done /\ r.pc \in Done)

Outcome(pc) == IF pc \in Done THEN pc ELSE "run"

Promise == INSTANCE FileTransfer WITH
  job <- [files |-> Cardinality(Wanted), size |-> xfer.size, slack |-> 0, assured |-> TRUE],
  got <- r.good,
  kept <- Cardinality({i \in DOMAIN r.files : Whole(r.files[i])}),
  snd <- Outcome(s.pc),
  rcv <- Outcome(r.pc)

\* The batch does what FileTransfer promises, until something goes amiss.
KeepsPromise == Promise!Init /\ [][amiss' \/ Promise!Next]_(Promise!ftvars)
=============================================================================
