------------------------------- MODULE Kermit -------------------------------
(***************************************************************************)
(* One Kermit transfer (src/kermit.rs): kermit_send at one end of a faulty   *)
(* line, kermit_receive_committing at the other.  The sender's pc is the     *)
(* packet it waits to see acknowledged:                                     *)
(*   poke        waiting for the receiver's first NAK, before Send-Init      *)
(*   S F A D Z B stop and wait (send_and_await_ack_opts)                     *)
(*   W           the data of a file in a sliding window                     *)
(*   T           the data and the Z of a file, streamed                     *)
(* The receiver's pc is init before Send-Init, run in its loop, and drain    *)
(* while a packet it had put aside is next.                                 *)
(*                                                                          *)
(* A file is a row of chunks, one data packet each; pos is a chunk's place.  *)
(***************************************************************************)
EXTENDS Line, FiniteSetsExt, SequencesExt

CONSTANTS
  Transfers,      \* the transfers considered
  Numbers,         \* packet numbers are taken modulo this (64 in the code)
  MaxRetries,     \* kermit_max_retries
  InitAttempts,   \* attempts of the classic Send-Init (send_init_attempts_for)
  NoProgress,     \* packets in a row without the expected one, per window place
  MaxBatchFiles   \* MAX_BATCH_FILES

VARIABLE
  xfer    \* the transfer this is: files, chunks of each, ours and theirs (the
          \* capabilities configured at each end), partial (chunks of the first
          \* file an earlier attempt left), poke (wait_for_receiver)

vars == <<xfer, s, r, toR, toS, up, faults>>

Caps == [window : Nat \ {0}, chk : 1..3, attrs : BOOLEAN, stream : BOOLEAN, resend : BOOLEAN]

ASSUME KermitAssumption ==
  /\ \A x \in Transfers :
       /\ x.ours \in Caps /\ x.theirs \in Caps
       /\ {x.files, x.chunks, x.partial} \subseteq Nat /\ x.files > 0
       /\ x.poke \in BOOLEAN
       /\ 2 * x.ours.window < Numbers
  /\ {Numbers, InitAttempts, NoProgress, MaxBatchFiles} \subseteq Nat \ {0}
  /\ MaxRetries \in Nat

Classic == [window |-> 1, chk |-> 1, attrs |-> FALSE, stream |-> FALSE, resend |-> FALSE]

Lower(a, b) == IF a <= b THEN a ELSE b

intersect_capabilities(a, b) ==
  [window |-> Lower(a.window, b.window), chk |-> Lower(a.chk, b.chk),
   attrs |-> a.attrs /\ b.attrs, stream |-> a.stream /\ b.stream,
   resend |-> a.resend /\ b.resend]

Succ(n) == (n + 1) % Numbers

\* b - a, on the circle of packet numbers.
Dist(a, b) == (b - a + Numbers) % Numbers

-----------------------------------------------------------------------------
(* Packets.  f and pos say which chunk a D carries; pos is also the length   *)
(* an A declares and the offset its ACK asks for; caps goes with S and its   *)
(* ACK.  Y is an ACK, N a NAK, E an error.                                  *)

Packet(k, seq, chk, f, pos, caps) ==
  [k |-> k, seq |-> seq, chk |-> chk, f |-> f, pos |-> pos, caps |-> caps, ok |-> TRUE]

Reply(k, seq, chk) == Packet(k, seq, chk, 0, 0, Classic)

\* read_packet fails on a wrong check; an S is checked with type 1 whatever the
\* session uses.
Readable(p, chk) == p.ok /\ p.k \notin {"ESC", "CAN"} /\ (p.chk = chk \/ p.k = "S")

Cancels(p) == p.k \in {"ESC", "CAN"}

-----------------------------------------------------------------------------
(* The sender.  seq is the number of the packet waited for, in W and T the   *)
(* next one; off counts the chunks of the file sent; out holds the packets   *)
(* outstanding in W and T, in the order they were last sent.                *)

StopAndWait == {"S", "F", "A", "D", "Z", "B"}

\* The packet a stop-and-wait state stands for.
Current(t) ==
  CASE t.pc = "S" -> Packet("S", t.seq, 1, 0, 0, t.ours)
    [] t.pc = "A" -> Packet("A", t.seq, t.sess.chk, t.f, xfer.chunks, Classic)
    [] t.pc = "D" -> Packet("D", t.seq, t.sess.chk, t.f, t.off + 1, Classic)
    [] OTHER      -> Packet(t.pc, t.seq, t.sess.chk, t.f, 0, Classic)

Outgoing(t, o) == Packet(o.k, o.seq, t.sess.chk, t.f, o.pos, Classic)

Entry(k, seq, pos) == [k |-> k, seq |-> seq, pos |-> pos, retries |-> 0]

\* The deque's front: the packet of the lowest chunk.
Lowest(out, is) == CHOOSE i \in is : \A j \in is : out[i].pos <= out[j].pos
Oldest(out) == out[Lowest(out, DOMAIN out)].seq

\* Seeded bug: the window is measured by the packets outstanding alone.
window_by_count(count, oldest, next, window) == count < window

window_has_room(count, oldest, next, window) ==
  count < window /\ Dist(oldest, next) < window

\* As many chunks as the window has room for.
Fill(t) ==
  LET oldest == IF t.out = <<>> THEN t.seq ELSE Oldest(t.out)
      Room(i) == window_has_room(Len(t.out) + i, oldest, (t.seq + i) % Numbers, t.sess.window)
      n == Max({k \in 0..xfer.chunks - t.off : \A i \in 0..k - 1 : Room(i)})
  IN [t EXCEPT !.out = @ \o [i \in 1..n |-> Entry("D", (t.seq + i - 1) % Numbers, t.off + i)],
               !.seq = (@ + n) % Numbers, !.off = @ + n]

\* What a state's entry writes, given how many packets were outstanding before.
Entering(t, before) ==
  IF t.pc \in StopAndWait
  THEN <<Current(t)>>
  ELSE [i \in 1..Len(t.out) - before |-> Outgoing(t, t.out[before + i])]

Enter(t, before) == s' = t /\ toR' = WriteToR(Entering(t, before))

\* The window's loop: fill it, and go on to Z when nothing is outstanding.
WindowLoop(t) ==
  LET u == Fill(t) IN
  IF u.out = <<>> THEN [u EXCEPT !.pc = "Z"] ELSE u

Stream(t) ==
  LET n == xfer.chunks - t.off
      D == [i \in 1..n |-> Entry("D", (t.seq + i - 1) % Numbers, t.off + i)]
      z == (t.seq + n) % Numbers
  IN [t EXCEPT !.pc = "T", !.out = Append(D, Entry("Z", z, xfer.chunks + 1)),
               !.seq = Succ(z), !.off = xfer.chunks]

\* The data of a file, from off on.
DataPhase(t) ==
  CASE t.sess.stream        -> Stream(t)
    [] ~t.sess.stream /\ t.sess.window > 1 -> WindowLoop([t EXCEPT !.pc = "W"])
    [] OTHER                -> [t EXCEPT !.pc = IF t.off < xfer.chunks THEN "D" ELSE "Z"]

\* Past the Z of a file: the next file or the end of the batch.
NextFile(t) ==
  IF t.f < xfer.files THEN [t EXCEPT !.pc = "F", !.f = @ + 1, !.off = 0] ELSE [t EXCEPT !.pc = "B"]

\* What an acknowledged packet leads to; ack is its answer.
Acked(t, ack) ==
  LET u == [t EXCEPT !.seq = Succ(@), !.att = 0] IN
  CASE t.pc = "S" -> [u EXCEPT !.pc = "F", !.sess = intersect_capabilities(t.ours, ack.caps)]
    [] t.pc = "F" -> IF t.sess.attrs THEN [u EXCEPT !.pc = "A"] ELSE DataPhase(u)
    [] t.pc = "A" -> DataPhase([u EXCEPT !.off = Lower(ack.pos, xfer.chunks)])
    [] t.pc = "D" -> DataPhase([u EXCEPT !.off = @ + 1])
    [] t.pc = "Z" -> NextFile(u)
    [] t.pc = "B" -> [u EXCEPT !.pc = "ok"]

\* kermit_send_with_starting_seq: once a session stands, a failure that is not the
\* peer's is reported to it.
SenderFails(byPeer) ==
  /\ s' = [s EXCEPT !.pc = "err", !.out = <<>>]
  /\ toR' = IF byPeer \/ s.pc \in {"poke", "S"} THEN toR
            ELSE WriteToR(<<Reply("E", 0, s.sess.chk)>>)

\* One more attempt at the packet waited for.  An extended Send-Init that was never
\* answered is tried again with classic capabilities.
Resend(silent) ==
  LET limit == IF s.pc = "S" /\ s.legacy THEN InitAttempts ELSE MaxRetries
      t == IF s.att + 1 <= limit THEN [s EXCEPT !.att = @ + 1]
           ELSE [s EXCEPT !.att = 0, !.legacy = TRUE, !.ours = Classic]
  IN IF s.att + 1 <= limit \/ (silent /\ s.pc = "S" /\ ~s.legacy)
     THEN s' = t /\ toR' = WriteToR(<<Current(t)>>)
     ELSE SenderFails(FALSE)

\* The elements of S, those before first.
InOrder(S, Before(_, _)) ==
  [i \in 1..Cardinality(S) |-> CHOOSE e \in S : Cardinality({d \in S : Before(d, e)}) = i - 1]

\* Another attempt at the outstanding packets in es, a set of indices of out; each
\* one has its own retries.  Z goes first, then the data in order.
Retransmit(es) ==
  LET again == InOrder({[s.out[i] EXCEPT !.retries = @ + 1] : i \in es},
                       LAMBDA a, b : a # b /\ (a.k = "Z" \/ (b.k # "Z" /\ a.pos < b.pos)))
      rest == InOrder(DOMAIN s.out \ es, <)
      kept == [i \in DOMAIN rest |-> s.out[rest[i]]]
  IN IF \A i \in DOMAIN again : again[i].retries <= MaxRetries
     THEN /\ s' = [s EXCEPT !.out = kept \o again]
          /\ toR' = WriteToR([i \in DOMAIN again |-> Outgoing(s, again[i])])
     ELSE SenderFails(FALSE)

-----------------------------------------------------------------------------
SenderReads(p) == s.pc \notin Done /\ toS # <<>> /\ p = Head(toS)

SenderTook == toS' = Tail(toS) /\ UNCHANGED <<xfer, r, up, faults>>

\* Escape (and CAN CAN, which is the peer's abort) ends any wait at once.
SenderCancelled ==
  /\ \E p \in Range(toS) : SenderReads(p) /\ Cancels(p) /\ SenderFails(p.k = "CAN")
  /\ SenderTook

SenderPeerError ==
  /\ s.pc # "poke"
  /\ \E p \in Range(toS) : SenderReads(p) /\ Readable(p, s.sess.chk) /\ p.k = "E" /\ SenderFails(TRUE)
  /\ SenderTook

\* wait_for_initiating_nak: whatever arrives starts Send-Init.
SenderPoked ==
  /\ s.pc = "poke"
  /\ \E p \in Range(toS) : SenderReads(p) /\ ~Cancels(p) /\ Enter([s EXCEPT !.pc = "S"], 0)
  /\ SenderTook

\* Seeded bug: the NAK of the next packet stands for the ACK of an A too.
AcknowledgesA(p) ==
  \/ p.k = "Y" /\ (p.seq = s.seq \/ s.pc = "S")
  \/ p.k = "N" /\ p.seq = Succ(s.seq) /\ s.pc # "S"

\* A NAK of the next packet stands for an ACK, except where the ACK carries data.
Acknowledges(p) ==
  \/ p.k = "Y" /\ (p.seq = s.seq \/ s.pc = "S")
  \/ p.k = "N" /\ p.seq = Succ(s.seq) /\ s.pc \notin {"S", "A"}

Refuses(p) == p.k = "N" /\ (p.seq = s.seq \/ (p.seq = Succ(s.seq) /\ s.pc \in {"S", "A"}))

SenderReply ==
  /\ s.pc \in StopAndWait
  /\ \E p \in Range(toS) :
       /\ SenderReads(p) /\ Readable(p, s.sess.chk) /\ p.k # "E"
       /\ \/ /\ Acknowledges(p)
             /\ LET t == Acked(s, p) IN
                IF t.pc = "ok" THEN s' = t /\ UNCHANGED toR ELSE Enter(t, 0)
          \/ Refuses(p) /\ ~Acknowledges(p) /\ Resend(FALSE)
          \/ p.k = "Y" /\ ~Acknowledges(p) /\ UNCHANGED <<s, toR>>
          \/ p.k = "N" /\ ~Acknowledges(p) /\ ~Refuses(p) /\ SenderFails(FALSE)
  /\ SenderTook

SenderUnreadable ==
  /\ s.pc \in StopAndWait
  /\ \E p \in Range(toS) :
       SenderReads(p) /\ ~Readable(p, s.sess.chk) /\ ~Cancels(p) /\ Resend(TRUE)
  /\ SenderTook

\* The outstanding packets of a kind with a number.
Indices(k, seq) == {i \in DOMAIN s.out : s.out[i].k = k /\ s.out[i].seq = seq}

\* send_d_packets_windowed: an ACK clears its packet wherever it stands, a NAK
\* sends it again, anything else is ignored; a packet that cannot be read only
\* makes the loop look for expired ones.
SenderWindow ==
  /\ s.pc = "W"
  /\ \E p \in Range(toS) :
       /\ SenderReads(p) /\ ~Cancels(p)
       /\ LET hit == IF Readable(p, s.sess.chk) THEN Indices("D", p.seq) ELSE {} IN
          \/ /\ Readable(p, s.sess.chk) /\ p.k = "Y" /\ hit # {}
             /\ LET t == [s EXCEPT !.out = RemoveAt(@, Lowest(@, hit))]
                IN Enter(WindowLoop(t), Len(t.out))
          \/ Readable(p, s.sess.chk) /\ p.k = "N" /\ hit # {} /\ Retransmit(hit)
          \/ (Readable(p, s.sess.chk) => p.k # "E" /\ hit = {}) /\ UNCHANGED <<s, toR>>
  /\ SenderTook

\* send_d_and_z_streaming: the ACK of Z confirms the whole file; a NAK whose number
\* stands for two chunks cannot be served.
SenderStream ==
  /\ s.pc = "T"
  /\ \E p \in Range(toS) :
       /\ SenderReads(p) /\ ~Cancels(p)
       /\ IF ~Readable(p, s.sess.chk) THEN UNCHANGED <<s, toR>>
          ELSE LET z == Indices("Z", p.seq)
                   hit == IF z # {} THEN z ELSE Indices("D", p.seq)
               IN \/ p.k = "Y" /\ z # {} /\ Enter(NextFile([s EXCEPT !.out = <<>>, !.att = 0]), 0)
                  \/ p.k = "Y" /\ z = {} /\ hit # {}
                       /\ s' = [s EXCEPT !.out = RemoveAt(@, Lowest(@, hit))] /\ UNCHANGED toR
                  \/ p.k = "N" /\ Cardinality(hit) = 1 /\ Retransmit(hit)
                  \/ p.k = "N" /\ Cardinality(hit) > 1 /\ SenderFails(FALSE)
                  \/ p.k # "E" /\ hit = {} /\ UNCHANGED <<s, toR>>
  /\ SenderTook

\* The wait runs out.  In a window or a stream the packets sent longest ago have
\* expired, a number that stands for two chunks excepted.
SenderSilence ==
  \/ s.pc = "poke" /\ Enter([s EXCEPT !.pc = "S"], 0)
  \/ s.pc \in StopAndWait /\ Resend(TRUE)
  \/ /\ s.pc \in {"W", "T"}
     /\ \E n \in DOMAIN s.out :
          LET es == {i \in 1..n : Cardinality(Indices(s.out[i].k, s.out[i].seq)) = 1} IN
          es # {} /\ Retransmit(es)

SenderLineDown ==
  /\ ~up /\ toS = <<>> /\ s.pc \notin Done
  /\ SenderFails(FALSE)
  /\ UNCHANGED <<xfer, r, toS, up, faults>>

SenderRead ==
  \/ SenderCancelled \/ SenderPeerError \/ SenderPoked \/ SenderReply
  \/ SenderUnreadable \/ SenderWindow \/ SenderStream

-----------------------------------------------------------------------------
(* The receiver.  exp is expected_seq; replay the last ACK that carried data; *)
(* fails consecutive_failures; idle no_progress; buf out_of_order; naked says *)
(* that the gap at exp was NAKed (last_nak_seq); pend pending_resume_offset;  *)
(* files received, len and decl in chunks, good the length of the part that   *)
(* is the sent file's, kept once it was handed to on_complete.               *)

None == -1

NoReplay == Reply("Y", None, 1)

ReceiverInit ==
  r = [pc |-> "init", exp |-> 0, sess |-> Classic, replay |-> NoReplay, fails |-> 0,
       idle |-> 0, buf |-> {}, naked |-> FALSE, pend |-> 0, files |-> <<>>]

ReceiverReads(p) == toR # <<>> /\ p = Head(toR)

ReceiverTook == toR' = Tail(toR) /\ UNCHANGED <<xfer, s, up, faults>>

Answer(t, ps) == r' = t /\ toS' = WriteToS(ps)

ReceiverFails(ps) == Answer([r EXCEPT !.pc = "err", !.buf = {}], ps)

Abort == ReceiverFails(<<Reply("E", r.exp, r.sess.chk)>>)

Nak(t) == Reply("N", t.exp, t.sess.chk)

\* The first packet must be a readable Send-Init; its ACK is checked with type 1.
ReceiverSendInit ==
  /\ r.pc = "init"
  /\ \E p \in Range(toR) :
       /\ ReceiverReads(p)
       /\ IF Readable(p, 1) /\ p.k = "S"
          THEN LET sess == intersect_capabilities(xfer.theirs, p.caps)
                   ack == Packet("Y", p.seq, 1, 0, 0, sess)
               IN Answer([r EXCEPT !.pc = "run", !.exp = Succ(p.seq), !.sess = sess, !.replay = ack],
                         <<ack>>)
          ELSE ReceiverFails(<<>>)
  /\ ReceiverTook

\* Escape is told to the sender, CAN CAN is not.
ReceiverCancelled ==
  /\ r.pc = "run"
  /\ \E p \in Range(toR) :
       /\ ReceiverReads(p) /\ Cancels(p)
       /\ IF p.k = "ESC" THEN Abort ELSE ReceiverFails(<<>>)
  /\ ReceiverTook

\* Seeded bug: read errors are not counted.
ReadErrorUncounted == Answer(r, <<Nak(r)>>)

\* A read error: a NAK of the expected packet, until too many come in a row.
ReadError ==
  IF r.fails + 1 > MaxRetries THEN Abort
  ELSE Answer([r EXCEPT !.fails = @ + 1], <<Nak(r)>>)

ReceiverUnreadable ==
  /\ r.pc = "run"
  /\ \E p \in Range(toR) :
       ReceiverReads(p) /\ ~Readable(p, r.sess.chk) /\ ~Cancels(p) /\ ReadError
  /\ ReceiverTook

\* An intact packet ends the run of failures; a kept ACK is dropped once its packet
\* is further back than the window.
Refreshed(t) ==
  [t EXCEPT !.fails = 0,
            !.replay = IF @.seq # None /\ Dist(@.seq, t.exp) > t.sess.window THEN NoReplay ELSE @]

\* The answer to a repeated packet: the same ACK again, its data included.
ReAck(t, p) == IF t.replay.seq = p.seq THEN t.replay ELSE Reply("Y", p.seq, t.sess.chk)

\* A packet other than the expected one: one ahead in the window is put aside and
\* acknowledged, and the gap NAKed once; one just behind is acknowledged again; any
\* other is answered with a NAK.
OutOfOrder(t0, p) ==
  LET t == [t0 EXCEPT !.idle = @ + 1]
      w == t.sess.window
  IN \/ t.idle > NoProgress * w /\ Abort
     \/ /\ t.idle <= NoProgress * w
        /\ \/ /\ Dist(t.exp, p.seq) < w
              /\ Answer([t EXCEPT !.buf = IF \E b \in @ : b.seq = p.seq THEN @ ELSE @ \cup {p},
                                  !.naked = TRUE],
                        <<Reply("Y", p.seq, t.sess.chk)>> \o IF t.naked THEN <<>> ELSE <<Nak(t)>>)
           \/ /\ Dist(t.exp, p.seq) >= w /\ Dist(p.seq, t.exp) <= w
              /\ Answer(t, <<ReAck(t, p)>>)
           \/ /\ Dist(t.exp, p.seq) >= w /\ Dist(p.seq, t.exp) > w
              /\ Answer(t, <<Nak(t)>>)

\* Past the expected packet; the one after it may be waiting in buf.
Advance(t) ==
  LET exp == Succ(t.exp) IN
  [t EXCEPT !.exp = exp, !.naked = FALSE, !.idle = 0,
            !.pc = IF \E b \in t.buf : b.seq = exp THEN "drain" ELSE "run"]

LastFile(t) == t.files[Len(t.files)]

Advanced(t, p) == Answer(Advance(t), <<Reply("Y", p.seq, t.sess.chk)>>)

\* compute_resume_offset: the part of the file an earlier attempt left on disk.
ResumeOffset(t, f) == IF t.sess.attrs /\ t.sess.resend /\ f = 1 THEN xfer.partial ELSE 0

\* Packets the loop refuses with an error: data, attributes or an end without a
\* file, a batch too long, a file shorter than declared.
Refused(t, p) ==
  \/ p.k \in {"A", "D", "Z"} /\ t.files = <<>>
  \/ p.k = "F" /\ Len(t.files) >= MaxBatchFiles
  \/ p.k = "Z" /\ t.files # <<>> /\ LastFile(t).len < LastFile(t).decl

TakeFile(t, p) ==
  Advanced([t EXCEPT !.pend = ResumeOffset(t, p.f),
                     !.files = Append(@, [f |-> p.f, len |-> 0, good |-> 0, decl |-> None, kept |-> FALSE])], p)

\* The attributes: an earlier part no longer than the file is taken over, and the
\* ACK, which is kept, asks for the rest.
TakeAttributes(t, p) ==
  LET off == IF t.pend <= p.pos THEN t.pend ELSE 0
      ack == Packet("Y", p.seq, t.sess.chk, 0, off, Classic)
  IN Answer(Advance([t EXCEPT !.pend = 0,
                              !.files[Len(t.files)].decl = p.pos,
                              !.files[Len(t.files)].len = off,
                              !.files[Len(t.files)].good = off,
                              !.replay = IF off > 0 THEN ack ELSE @]),
            <<ack>>)

TakeData(t, p) ==
  LET cur == LastFile(t)
      next == cur.good = cur.len /\ p.f = cur.f /\ p.pos = cur.len + 1
      u == [t EXCEPT !.files[Len(t.files)].len = @ + 1,
                     !.files[Len(t.files)].good = IF next THEN @ + 1 ELSE @]
  IN IF t.sess.stream THEN Answer(Advance(u), <<>>) ELSE Advanced(u, p)

\* The file is handed over before its Z is acknowledged.
TakeEof(t, p) == Advanced([t EXCEPT !.files[Len(t.files)].kept = TRUE], p)

TakeBreak(t, p) == Answer([t EXCEPT !.pc = "ok"], <<Reply("Y", p.seq, t.sess.chk)>>)

\* One packet through the receive loop.
Handle(t, p) ==
  \/ p.k = "E" /\ ReceiverFails(<<>>)
  \/ p.k # "E" /\ p.seq # t.exp /\ OutOfOrder(t, p)
  \/ p.k # "E" /\ p.seq = t.exp /\ Refused(t, p) /\ Abort
  \/ /\ p.seq = t.exp /\ ~Refused(t, p)
     /\ \/ p.k = "F" /\ TakeFile(t, p)
        \/ p.k = "A" /\ TakeAttributes(t, p)
        \/ p.k = "D" /\ TakeData(t, p)
        \/ p.k = "Z" /\ TakeEof(t, p)
        \/ p.k = "B" /\ TakeBreak(t, p)

ReceiverPacket ==
  /\ r.pc = "run"
  /\ \E p \in Range(toR) :
       ReceiverReads(p) /\ Readable(p, r.sess.chk) /\ Handle(Refreshed(r), p)
  /\ ReceiverTook

\* The packet put aside comes next (next_drained).
ReceiverDrain ==
  /\ r.pc = "drain"
  /\ \E p \in r.buf : p.seq = r.exp /\ Handle(Refreshed([r EXCEPT !.buf = @ \ {p}]), p)
  /\ UNCHANGED <<xfer, s, toR, up, faults>>

ReceiverSilence ==
  \/ r.pc = "init" /\ s.pc # "poke" /\ ReceiverFails(<<>>)
  \/ r.pc = "run" /\ ReadError

ReceiverLineDown ==
  /\ ~up /\ toR = <<>> /\ r.pc \in {"init", "run"}
  /\ ReceiverFails(<<>>)
  /\ UNCHANGED <<xfer, s, toR, up, faults>>

ReceiverRead ==
  \/ ReceiverSendInit \/ ReceiverCancelled \/ ReceiverUnreadable
  \/ ReceiverPacket \/ ReceiverDrain

-----------------------------------------------------------------------------
(* The two halves on the line.                                              *)

SenderInit ==
  s = [pc |-> IF xfer.poke THEN "poke" ELSE "S", seq |-> 0, f |-> 1, off |-> 0, att |-> 0,
       ours |-> xfer.ours, legacy |-> FALSE, sess |-> Classic, out |-> <<>>]

Init ==
  /\ xfer \in Transfers
  /\ SenderInit /\ ReceiverInit
  /\ toR = Entering(s, 0)
  /\ toS \in IF xfer.poke THEN {<<>>, <<Reply("N", 0, 1)>>} ELSE {<<>>}
  /\ up = TRUE /\ faults = 0

SenderTimeout ==
  /\ SenderQuiet /\ SenderSilence
  /\ UNCHANGED <<xfer, r, toS, up, faults>>

ReceiverTimeout ==
  /\ ReceiverQuiet /\ ReceiverSilence
  /\ UNCHANGED <<xfer, s, toR, up, faults>>

\* Both waits run out before either half hears the other.
BothTimeout ==
  /\ SenderQuiet /\ ReceiverQuiet
  /\ SenderSilence /\ ReceiverSilence
  /\ UNCHANGED <<xfer, up, faults>>

\* A wait runs out though an answer is on its way: a delay of the line.
SenderTimeoutLate ==
  /\ Fault("delay") /\ ~SenderQuiet /\ SenderSilence
  /\ UNCHANGED <<xfer, r, toS, up>>

ReceiverTimeoutLate ==
  /\ Fault("delay") /\ ~ReceiverQuiet /\ ReceiverSilence
  /\ UNCHANGED <<xfer, s, toR, up>>

Timeout == SenderTimeout \/ ReceiverTimeout \/ BothTimeout

Terminated == s.pc \in Done /\ r.pc \in Done /\ UNCHANGED vars

\* Some half goes on while one can: it reads what has reached it, its wait runs out
\* or it finds the line down.
Progress == SenderRead \/ ReceiverRead \/ Timeout \/ SenderLineDown \/ ReceiverLineDown

Next ==
  \/ Progress
  \/ (LineFault /\ UNCHANGED xfer) \/ SenderTimeoutLate \/ ReceiverTimeoutLate
  \/ Terminated

Spec == Init /\ [][Next]_vars

FairSpec == Spec /\ WF_vars(Progress)

-----------------------------------------------------------------------------
\* The locals of the two halves keep their types, and the retry counters of
\* src/kermit.rs stay within the limits their loops are cut at.
TypeOK ==
  /\ xfer \in Transfers
  /\ s.pc \in StopAndWait \cup {"poke", "W", "T"} \cup Done
  /\ s.seq \in 0..Numbers - 1 /\ s.f \in 1..xfer.files /\ s.off \in 0..xfer.chunks
  /\ {s.ours, s.sess, r.sess} \subseteq Caps
  /\ \A i \in DOMAIN s.out : s.out[i].retries <= MaxRetries
  /\ r.pc \in {"init", "run", "drain"} \cup Done
  /\ r.exp \in 0..Numbers - 1 /\ r.fails \in 0..MaxRetries
  /\ r.idle \in 0..NoProgress * r.sess.window
  /\ Len(r.files) <= MaxBatchFiles

WholeFile(e) == e.good = xfer.chunks /\ e.len = xfer.chunks

\* No chunk is taken twice, out of order, after a gap or from another file by the
\* receive loop, whatever the numbers of the window wrap to and however packets and
\* answers are lost, repeated and delayed.  It does not hold of a stream that uses up
\* the packet numbers before its first answer.
PrefixReceived ==
  \A i \in DOMAIN r.files : r.files[i].good = r.files[i].len /\ r.files[i].f = i

\* Whatever the line does, a file handed over to on_complete is whole.
KeptIsWhole == \A i \in DOMAIN r.files : r.files[i].kept => WholeFile(r.files[i])

\* A send that reports success had every file of the batch handed over.  It does not hold
\* of a stream in a window of more than one (MCKermit!WindowedStreams).
SenderSuccessIsWhole ==
  s.pc = "ok" => \A f \in 1..xfer.files : \E i \in DOMAIN r.files : r.files[i].f = f /\ r.files[i].kept

\* A line without faults never makes a half give up, whatever the two ends agreed on:
\* no packet of the negotiated session is taken for a wrong or a stale one.
CleanLineSucceeds ==
  faults = 0 /\ xfer.files <= MaxBatchFiles => s.pc # "err" /\ r.pc # "err"

\* The invariants above, together: nothing lands out of place, what is handed over is whole,
\* a successful send is a complete one, and a clean line lets both halves succeed
\* (kermit_send, kermit_receive_committing).
TransferSound == TypeOK /\ PrefixReceived /\ KeptIsWhole /\ SenderSuccessIsWhole /\ CleanLineSucceeds

\* What send_d_and_z_streaming rests on, "the Z-ACK implicitly confirms every preceding
\* D-packet": a stream is past the end of a file only when the receiver has all of it.
ZAckConfirms ==
  s.sess.stream =>
    \A f \in 1..xfer.files : f < s.f \/ s.pc \in {"B", "ok"} =>
      \E i \in DOMAIN r.files : r.files[i].f = f /\ r.files[i].good = xfer.chunks

\* Both halves return, whatever NAKs, repeats and timeouts cross.
BothReturn == <>(s.pc \in Done /\ r.pc \in Done)

-----------------------------------------------------------------------------
(* The promise of FileTransfer.                                             *)

Outcome(pc) == IF pc \in Done THEN pc ELSE "run"

Open == r.files # <<>> /\ ~LastFile(r).kept

Promise == INSTANCE FileTransfer WITH
  job <- [files |-> xfer.files, size |-> xfer.chunks, slack |-> 0, assured |-> TRUE],
  got <- IF Open THEN LastFile(r).good ELSE 0,
  kept <- Cardinality({i \in DOMAIN r.files : r.files[i].kept /\ WholeFile(r.files[i])}),
  snd <- Outcome(s.pc),
  rcv <- Outcome(r.pc)

\* The transfer does what FileTransfer promises.
KeepsPromise == Promise!Spec
=============================================================================
