------------------------------- MODULE Punter -------------------------------
(***************************************************************************)
(* One Punter (C1) transfer (src/punter.rs): punter_send at one end of a      *)
(* faulty line and punter_receive at the other, the type phase A and the     *)
(* data phase B, each with its end-off.                                     *)
(*                                                                          *)
(* The handshake is made of codes that carry no number.  accept_code slides   *)
(* past whatever is not the code it waits for; read_block takes exactly the   *)
(* number of bytes the block before announced, whatever they are, so a block  *)
(* of another length leaves a rest that the next wait slides past.  Items of  *)
(* the line therefore have lengths.                                         *)
(*                                                                          *)
(* The sender waits in resp (for GOO, BAD or S/B), sb (for S/B, its ACK sent)  *)
(* and, ending a phase, in eack (S/B) and esyn (SYN).  The receiver waits in  *)
(* ack, reads a block in block and ends a phase in rack (ACK), rsyn (SYN),    *)
(* rsb (S/B) and close (the sender's two last S/B).                         *)
(***************************************************************************)
EXTENDS Line

CONSTANTS
  Transfers,      \* the transfers considered
  NegProbes,      \* probes in punter_negotiation_timeout
  Probes,         \* probes in punter_block_timeout
  MaxRetries,     \* punter_max_retries: how often read_block repeats S/B
  MaxBadRounds    \* punter_max_bad_rounds

VARIABLE
  xfer    \* n: blocks with payload; full, last: lengths of a block and of the last

vars == <<xfer, s, r, toR, toS, up, faults>>

DATAPOS == 7              \* length of a block without payload
TYPE_PHASE_SIZE == 8      \* length of the type block

ASSUME PunterAssumption ==
  /\ \A x \in Transfers : /\ x.n \in Nat
                          /\ {x.full, x.last} \subseteq DATAPOS + 1 .. 255 /\ x.last <= x.full
  /\ {NegProbes, Probes, MaxBadRounds} \subseteq Nat \ {0} /\ MaxRetries \in Nat

Code(c) == [k |-> c, ok |-> TRUE]
Junk(len) == [k |-> "rest", ok |-> TRUE, len |-> len]

\* The blocks of a phase: the type block; block 0 without payload and the data, an
\* empty file's being one more block without payload.
LastBlock(ph) == IF ph = "A" THEN 0 ELSE IF xfer.n = 0 THEN 1 ELSE xfer.n

BlockLength(ph, i) ==
  CASE ph = "A"           -> TYPE_PHASE_SIZE
    [] i = 0 \/ xfer.n = 0 -> DATAPOS
    [] i = xfer.n         -> xfer.last
    [] OTHER              -> xfer.full

Block(ph, i) ==
  LET last == LastBlock(ph)
  IN [k |-> "block", ok |-> TRUE, ph |-> ph, i |-> i, final |-> i = last,
      len |-> BlockLength(ph, i), next |-> BlockLength(ph, IF i = last THEN i ELSE i + 1)]

Length(p) == IF p.k \in {"block", "rest"} THEN p.len
             ELSE IF p.k \in {"ESC", "CAN"} THEN 1 ELSE 3

\* What a half does next: its new state and what it writes.
Does(t, out) == [st |-> t, out |-> out]
Fails(t) == Does([t EXCEPT !.pc = "err"], <<>>)

-----------------------------------------------------------------------------
(* The sender: idx is the block it is at, att counts the probes of a wait,    *)
(* rounds the consecutive demands to repeat the block.                      *)

SenderInit == s = [pc |-> "resp", ph |-> "A", idx |-> 0, started |-> FALSE, att |-> 0, rounds |-> 0]

\* In phase A the sender opens with GOO until it hears something (specmode).
Probe(t) == IF t.ph = "A" /\ ~t.started THEN <<Code("GOO")>> ELSE <<>>

SendAck(t) == Does([t EXCEPT !.pc = "sb", !.att = 0], <<Code("ACK")>>)

SendSyn(t) == Does([t EXCEPT !.pc = "esyn", !.att = 0], <<Code("SYN")>>)

\* Three closing S/B; phase B follows phase A.
Close(t) ==
  Does(IF t.ph = "B" THEN [t EXCEPT !.pc = "ok"]
       ELSE [t EXCEPT !.pc = "resp", !.ph = "B", !.idx = 0, !.started = FALSE, !.att = 0, !.rounds = 0],
       <<Code("S/B"), Code("S/B"), Code("S/B")>>)

\* GOO: the block last sent was accepted.
BlockAccepted(t) ==
  IF t.started /\ t.idx = LastBlock(t.ph)
  THEN Does([t EXCEPT !.pc = "eack", !.att = 0], <<Code("ACK")>>)
  ELSE SendAck([t EXCEPT !.idx = IF t.started THEN @ + 1 ELSE @, !.started = TRUE, !.rounds = 0])

\* BAD or S/B: the block is sent again.
BlockRefused(t) ==
  IF t.rounds + 1 > MaxBadRounds THEN Fails(t)
  ELSE SendAck([t EXCEPT !.rounds = @ + 1, !.started = TRUE])

SenderCode(t, c) ==
  CASE t.pc = "resp" /\ c = "GOO"           -> BlockAccepted(t)
    [] t.pc = "resp" /\ c \in {"BAD", "S/B"} -> BlockRefused(t)
    [] t.pc = "sb"   /\ c = "S/B" -> Does([t EXCEPT !.pc = "resp", !.att = 0], <<Block(t.ph, t.idx)>>)
    [] t.pc = "eack" /\ c = "S/B" -> SendSyn(t)
    [] t.pc = "esyn" /\ c = "SYN" -> Close(t)
    [] OTHER                      -> Does(t, <<>>)

\* Seeded bug: the wait for the receiver's response has no limit.
SenderNothingEndless(t) ==
  IF t.pc = "resp" THEN Does(t, Probe(t))
  ELSE LET more == t.att + 1 < Probes
           u == [t EXCEPT !.att = @ + 1]
       IN CASE t.pc = "sb"   -> IF more THEN Does(u, <<Code("ACK")>>) ELSE Fails(t)
            [] t.pc = "eack" -> IF more THEN Does(u, <<Code("ACK")>>) ELSE SendSyn(t)
            [] t.pc = "esyn" -> IF more THEN Does(u, <<Code("SYN")>>) ELSE Close(t)

\* A probe went unanswered.
SenderNothing(t) ==
  LET more == t.att + 1 < IF t.pc = "resp" /\ ~t.started THEN NegProbes ELSE Probes
      u == [t EXCEPT !.att = @ + 1]
  IN CASE t.pc = "resp" -> IF more THEN Does(u, Probe(t)) ELSE Fails(t)
       [] t.pc = "sb"   -> IF more THEN Does(u, <<Code("ACK")>>) ELSE Fails(t)
       [] t.pc = "eack" -> IF more THEN Does(u, <<Code("ACK")>>) ELSE SendSyn(t)
       [] t.pc = "esyn" -> IF more THEN Does(u, <<Code("SYN")>>) ELSE Close(t)

\* A lone Escape or the end of the stream: an end-off just stops early.
SenderStopped(t) == IF t.pc \in {"eack", "esyn"} THEN Close(t) ELSE Fails(t)

-----------------------------------------------------------------------------
(* The receiver: sig is the code that opens the round, size the length of     *)
(* the next block, have and ack what the buffer holds (ack: exactly an ACK),  *)
(* last the index of the last block accepted, none accepted_none; got and     *)
(* good the blocks of payload in out and how many of them are the sender's.   *)

ReceiverInit ==
  r = [pc |-> "ack", ph |-> "A", sig |-> "GOO", size |-> TYPE_PHASE_SIZE, att |-> 0, have |-> 0,
       ack |-> FALSE, last |-> -1, none |-> TRUE, bad |-> 0, dup |-> 0, empty |-> 0,
       got |-> 0, good |-> 0, final |-> FALSE]

\* Open a round, and ask for the block.
Signal(t) == Does([t EXCEPT !.pc = "ack", !.att = 0], <<Code(t.sig)>>)

AskBlock(t, att) ==
  Does([t EXCEPT !.pc = "block", !.att = att, !.have = 0, !.ack = FALSE], <<Code("S/B")>>)

BadBlock(t) ==
  IF t.bad + 1 > MaxBadRounds THEN Fails(t) ELSE Signal([t EXCEPT !.sig = "BAD", !.bad = @ + 1])

\* Seeded bug: no block is taken for a repeated one.
RepeatedNever(t, p) == FALSE

\* A block seen twice: its index did not advance.
Repeated(t, p) == ~p.final /\ p.len > DATAPOS /\ t.last = p.i

MAX_EMPTY_NONFINAL_BLOCKS == 4

DropBlock(t, p) ==
  IF t.dup + 1 > MaxBadRounds THEN Fails(t)
  ELSE Signal([t EXCEPT !.dup = @ + 1, !.size = p.next, !.sig = "GOO", !.bad = 0])

Accept(t, p) ==
  LET payload == p.len > DATAPOS
      right == t.ph = "B" /\ p.ph = "B" /\ t.good = t.got /\ p.i = t.got + 1
      u == [t EXCEPT !.dup = 0, !.none = FALSE, !.size = p.next, !.sig = "GOO", !.bad = 0,
                     !.last = IF p.final THEN @ ELSE p.i,
                     !.empty = IF ~payload /\ ~p.final THEN @ + 1 ELSE @,
                     !.got = IF t.ph = "B" /\ payload THEN @ + 1 ELSE @,
                     !.good = IF payload /\ right THEN @ + 1 ELSE @,
                     !.final = t.ph = "B" /\ p.final]
  IN IF u.empty > MAX_EMPTY_NONFINAL_BLOCKS THEN Fails(u)
     ELSE IF p.final THEN Does([u EXCEPT !.pc = "rack", !.att = 0], <<Code("GOO")>>)
     ELSE Signal(u)

GoodBlock(t, p) == IF Repeated(t, p) THEN DropBlock(t, p) ELSE Accept(t, p)

\* One more item for read_block's buffer; what does not fit stays on the line.
Taken(t, p) == IF t.have + Length(p) > t.size THEN t.size - t.have ELSE Length(p)

ReadItem(t, p) ==
  LET n == t.have + Taken(t, p) IN
  IF t.have = 0 /\ p.k = "block" /\ p.ok /\ p.len = t.size THEN GoodBlock(t, p)
  ELSE IF n = t.size THEN BadBlock(t)
  ELSE Does([t EXCEPT !.have = n, !.ack = t.have = 0 /\ p.k = "ACK" /\ p.ok], <<>>)

\* No more bytes for the buffer.
ReadEnds(t) ==
  IF t.have > 0 /\ ~t.ack THEN BadBlock(t)
  ELSE IF t.att + 1 > MaxRetries THEN Fails(t)
  ELSE AskBlock(t, t.att + 1)

AwaitSyn(t) == Does([t EXCEPT !.pc = "rsyn", !.att = 0], <<Code("S/B")>>)

SendBackSyn(t) == Does([t EXCEPT !.pc = "rsb", !.att = 0], <<Code("SYN")>>)

\* The phase is over; only the last one waits for the two S/B still to come.
PhaseOver(t) ==
  IF t.ph = "B" THEN Does([t EXCEPT !.pc = "ok"], <<>>)
  ELSE Signal([t EXCEPT !.ph = "B", !.size = DATAPOS, !.sig = "GOO", !.last = -1, !.none = TRUE,
                        !.bad = 0, !.dup = 0, !.empty = 0])

FinalSb(t) == IF t.ph = "B" THEN Does([t EXCEPT !.pc = "close", !.att = 0], <<>>) ELSE PhaseOver(t)

CloseOne(t) == IF t.att + 1 < 2 THEN Does([t EXCEPT !.att = @ + 1], <<>>) ELSE PhaseOver(t)

ReceiverCode(t, c) ==
  CASE t.pc = "ack"   /\ c = "ACK" -> AskBlock(t, 0)
    [] t.pc = "rack"  /\ c = "ACK" -> AwaitSyn(t)
    [] t.pc = "rsyn"  /\ c = "SYN" -> SendBackSyn(t)
    [] t.pc = "rsb"   /\ c = "S/B" -> FinalSb(t)
    [] t.pc = "close" /\ c = "S/B" -> CloseOne(t)
    [] OTHER                       -> Does(t, <<>>)

ReceiverNothing(t) ==
  LET more == t.att + 1 < IF t.pc = "ack" /\ t.none /\ t.sig = "GOO" THEN NegProbes ELSE Probes
      u == [t EXCEPT !.att = @ + 1]
  IN CASE t.pc = "ack"   -> IF more THEN Does(u, <<Code(t.sig)>>) ELSE Fails(t)
       [] t.pc = "block" -> ReadEnds(t)
       [] t.pc = "rack"  -> IF more THEN Does(u, <<Code("GOO")>>) ELSE AwaitSyn(t)
       [] t.pc = "rsyn"  -> IF more THEN Does(u, <<Code("S/B")>>)
                            ELSE LET d == SendBackSyn(t) IN Does(d.st, <<Code("S/B")>> \o d.out)
       [] t.pc = "rsb"   -> IF more THEN Does(u, <<Code("SYN")>>) ELSE PhaseOver(t)
       [] t.pc = "close" -> CloseOne(t)

\* A lone Escape or the end of the stream: the file is complete in an end-off.
ReceiverStopped(t) == IF t.pc \in {"rack", "rsyn", "rsb", "close"} THEN PhaseOver(t) ELSE Fails(t)

-----------------------------------------------------------------------------
(* The two halves on the line.                                              *)

Init ==
  /\ xfer \in Transfers
  /\ SenderInit /\ ReceiverInit
  /\ toR = <<Code("GOO")>> /\ toS = <<Code("GOO")>>
  /\ up = TRUE /\ faults = 0

SenderDoes(d) == s' = d.st /\ toR' = WriteToR(d.out)
ReceiverDoes(d) == r' = d.st /\ toS' = WriteToS(d.out)

\* accept_code: an Escape with bytes right behind it is data.
SenderRead ==
  /\ s.pc \notin Done /\ toS # <<>>
  /\ LET p == Head(toS) IN
     \/ p.k = "ESC" /\ SenderDoes(SenderStopped(s))
     \/ p.k = "ESC" /\ Len(toS) > 1 /\ UNCHANGED <<s, toR>>
     \/ p.k # "ESC" /\ SenderDoes(IF p.ok THEN SenderCode(s, p.k) ELSE Does(s, <<>>))
  /\ toS' = Tail(toS)
  /\ UNCHANGED <<xfer, r, up, faults>>

ReceiverRead ==
  /\ r.pc \notin Done /\ r.pc # "block" /\ toR # <<>>
  /\ LET p == Head(toR) IN
     \/ p.k = "ESC" /\ ReceiverDoes(ReceiverStopped(r))
     \/ p.k = "ESC" /\ Len(toR) > 1 /\ UNCHANGED <<r, toS>>
     \/ p.k # "ESC" /\ ReceiverDoes(IF p.ok THEN ReceiverCode(r, p.k) ELSE Does(r, <<>>))
  /\ toR' = Tail(toR)
  /\ UNCHANGED <<xfer, s, up, faults>>

\* read_block.
ReceiverBlock ==
  /\ r.pc = "block" /\ toR # <<>>
  /\ LET p == Head(toR)
         rest == Length(p) - Taken(r, p)
     IN /\ ReceiverDoes(ReadItem(r, p))
        /\ toR' = (IF rest > 0 THEN <<Junk(rest)>> ELSE <<>>) \o Tail(toR)
  /\ UNCHANGED <<xfer, s, up, faults>>

SenderSilence == s.pc \notin Done /\ SenderDoes(SenderNothing(s))
ReceiverSilence == r.pc \notin Done /\ ReceiverDoes(ReceiverNothing(r))

SenderLineDown ==
  /\ ~up /\ toS = <<>> /\ s.pc \notin Done
  /\ SenderDoes(SenderStopped(s))
  /\ UNCHANGED <<xfer, r, toS, up, faults>>

ReceiverLineDown ==
  /\ ~up /\ toR = <<>> /\ r.pc \notin Done
  /\ ReceiverDoes(ReceiverStopped(r))
  /\ UNCHANGED <<xfer, s, toR, up, faults>>

SenderTimeout ==
  /\ SenderQuiet /\ SenderSilence
  /\ UNCHANGED <<xfer, r, toS, up, faults>>

ReceiverTimeout ==
  /\ ReceiverQuiet /\ ReceiverSilence
  /\ UNCHANGED <<xfer, s, toR, up, faults>>

BothTimeout ==
  /\ SenderQuiet /\ ReceiverQuiet
  /\ SenderSilence /\ ReceiverSilence
  /\ UNCHANGED <<xfer, up, faults>>

SenderTimeoutLate ==
  /\ Fault("delay") /\ ~SenderQuiet /\ SenderSilence
  /\ UNCHANGED <<xfer, r, toS, up>>

ReceiverTimeoutLate ==
  /\ Fault("delay") /\ ~ReceiverQuiet /\ ReceiverSilence
  /\ UNCHANGED <<xfer, s, toR, up>>

Timeout == SenderTimeout \/ ReceiverTimeout \/ BothTimeout

Terminated == s.pc \in Done /\ r.pc \in Done /\ UNCHANGED vars

\* Some half goes on while one can.
Progress ==
  SenderRead \/ ReceiverRead \/ ReceiverBlock \/ Timeout \/ SenderLineDown \/ ReceiverLineDown

Next ==
  \/ Progress
  \/ (LineFault /\ UNCHANGED xfer) \/ SenderTimeoutLate \/ ReceiverTimeoutLate
  \/ Terminated

Spec == Init /\ [][Next]_vars

FairSpec == Spec /\ WF_vars(Progress)

-----------------------------------------------------------------------------
\* The locals of the two halves keep their types, and no loop of src/punter.rs goes
\* past its limit.
TypeOK ==
  /\ xfer \in Transfers
  /\ s.pc \in {"resp", "sb", "eack", "esyn"} \cup Done /\ s.ph \in {"A", "B"}
  /\ s.idx \in 0..LastBlock(s.ph) /\ s.started \in BOOLEAN
  /\ s.att < NegProbes \/ s.att < Probes
  /\ s.rounds \in 0..MaxBadRounds
  /\ r.pc \in {"ack", "block", "rack", "rsyn", "rsb", "close"} \cup Done /\ r.ph \in {"A", "B"}
  /\ r.size \in DATAPOS..255 /\ r.have \in 0..r.size
  /\ {r.bad, r.dup} \subseteq 0..MaxBadRounds /\ r.empty \in 0..MAX_EMPTY_NONFINAL_BLOCKS + 1
  /\ r.last \in -1..xfer.n

\* Every block in the receiver's out is the sender's, in its place: a repeated block is
\* not appended twice and none is left out, though no code carries a number.
PrefixReceived == r.good = r.got

\* A file that punter_receive takes for complete is the sender's whole file.
FinalIsWhole == r.final => r.got = xfer.n /\ r.good = xfer.n

\* A send that reports success has the whole file with the receiver.
SenderSuccessIsWhole == s.pc = "ok" => r.final /\ r.good = xfer.n

\* On a line without faults nobody gives up, and nothing is repeated.
CleanLineSucceeds == faults = 0 => s.pc # "err" /\ r.pc # "err" /\ r.bad = 0 /\ r.dup = 0

\* The invariants above, together: nothing lands out of place, what is taken for complete is
\* whole, a successful send is a complete one, and a clean line repeats nothing
\* (punter_send, punter_receive).
TransferSound == TypeOK /\ PrefixReceived /\ FinalIsWhole /\ SenderSuccessIsWhole /\ CleanLineSucceeds

\* read_block: "this degrades to a failed transfer, never silent file corruption": a
\* receive that returns a file returns the sender's.
NeverSilentlyWrong == r.pc = "ok" => r.got = xfer.n /\ r.good = xfer.n

\* Both halves return, however their probes and end-offs meet.
BothReturn == <>(s.pc \in Done /\ r.pc \in Done)

Outcome(pc) == IF pc \in Done THEN pc ELSE "run"

WholeFile == r.final /\ r.got = xfer.n /\ r.good = xfer.n

\* The last block of a file hands it over.
Promise == INSTANCE FileTransfer WITH
  job <- [files |-> 1, size |-> IF xfer.n = 0 THEN 0 ELSE xfer.n - 1, slack |-> 0, assured |-> TRUE],
  got <- IF WholeFile THEN 0 ELSE r.good,
  kept <- IF WholeFile THEN 1 ELSE 0,
  snd <- Outcome(s.pc),
  rcv <- Outcome(r.pc)

\* The transfer does what FileTransfer promises.
KeepsPromise == Promise!Spec
=============================================================================
