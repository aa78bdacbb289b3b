--------------------------- MODULE KermitInvariant ---------------------------
(***************************************************************************)
(* The invariants of a Kermit transfer that is not streamed.                *)
(*                                                                          *)
(* A batch has a plan: the Send-Init, for each file its header, attributes,  *)
(* chunks and end, and the break.  Every packet has a place in the plan, and  *)
(* its number is that place modulo Numbers.  The argument is that only        *)
(* places close together are ever about at once, so that a number stands for  *)
(* one place: packets and answers under way, and packets put aside, are       *)
(* within a window of the hole, the first place the receiver has neither      *)
(* taken nor put aside, and the window is less than half of the numbers.  An  *)
(* answer tells the truth about its place, hence what the sender no longer    *)
(* waits for has arrived.                                                    *)
(***************************************************************************)
EXTENDS Kermit

-----------------------------------------------------------------------------
(* The places of a transfer.  A plan says what the two ends agreed on: att    *)
(* whether attributes are sent, skip how much of the first file is left out   *)
(* because the receiver has it.                                             *)

Plans == {g \in [att : {0, 1}, skip : Nat, chunks : Nat, files : Nat \ {0}] :
            g.skip <= g.chunks /\ (g.att = 0 => g.skip = 0)}

PlanOf(x, attrs, resend) ==
  [att    |-> IF attrs THEN 1 ELSE 0,
   skip   |-> IF attrs /\ resend /\ x.partial <= x.chunks THEN x.partial ELSE 0,
   chunks |-> x.chunks,
   files  |-> x.files]

Skip(g, f) == IF f = 1 THEN g.skip ELSE 0

\* The F of a file, its chunks, its Z and the B of the batch.
First(g, f) == IF f = 1 THEN 1 ELSE 1 + (f - 1) * (2 + g.att + g.chunks) - g.skip
DataAt(g, f, pos) == First(g, f) + g.att + pos - Skip(g, f)
EndAt(g, f) == DataAt(g, f, g.chunks + 1)
BreakAt(g) == First(g, g.files + 1)

Place(g, k, f, pos) ==
  CASE k = "S" -> 0
    [] k = "F" -> First(g, f)
    [] k = "A" -> First(g, f) + 1
    [] k = "D" -> DataAt(g, f, pos)
    [] k = "Z" -> EndAt(g, f)
    [] OTHER   -> BreakAt(g)

At(g, p) == Place(g, p.k, p.f, p.pos)

\* What a packet of the transfer may be.
Sendable(g, k, f, pos) ==
  /\ k \in StopAndWait
  /\ k # "S" => f \in 1..g.files
  /\ k = "A" => g.att = 1 /\ pos = g.chunks
  /\ k = "D" => pos \in Skip(g, f) + 1 .. g.chunks

-----------------------------------------------------------------------------
(* The inductive invariant.  Everything is said of a plan g, a sender u, a    *)
(* receiver t and the queues between them, so that it can be said of the     *)
(* states before and after a step alike.                                    *)

Alive(pc) == pc \notin Done

\* Both ends may stream, and then do unless Send-Init falls back to the classic one.
Streams == xfer.ours.stream /\ xfer.theirs.stream

PacketsOf(kinds) ==
  [k : kinds, seq : Int, chk : 1..3, f : Nat, pos : Nat, caps : Caps, ok : BOOLEAN]

Strikes == [k : {"ESC", "CAN"}, ok : BOOLEAN]

ToR == PacketsOf(StopAndWait \cup {"E"}) \cup Strikes
ToS == PacketsOf({"Y", "N", "E"}) \cup Strikes

Entries == [k : {"D"}, seq : 0..Numbers - 1, pos : Nat, retries : 0..MaxRetries]

Senders(x) ==
  [pc : StopAndWait \cup {"poke", "W"} \cup Done, seq : 0..Numbers - 1, f : 1..x.files,
   off : 0..x.chunks, att : Nat, ours : {x.ours, Classic}, legacy : BOOLEAN, sess : Caps,
   out : Seq(Entries)]

FileRecords == [f : Nat, len : Nat, good : Nat, decl : Nat \cup {None}, kept : BOOLEAN]

Receivers ==
  [pc : {"init", "run", "drain"} \cup Done, exp : 0..Numbers - 1, sess : Caps,
   replay : PacketsOf({"Y"}), fails : 0..MaxRetries, idle : Nat,
   buf : SUBSET PacketsOf({"D"}), naked : BOOLEAN, pend : Nat, files : Seq(FileRecords)]

\* The record types, and the limits on the receiver's counters.
Types(x, u, t, qR, qS) ==
  /\ u \in Senders(x) /\ t \in Receivers /\ qR \in Seq(ToR) /\ qS \in Seq(ToS)
  /\ t.idle <= NoProgress * t.sess.window
  /\ Len(t.files) <= MaxBatchFiles

\* What the two ends agreed on, and how far each is with it.
Sessions(x, u, t, qR) ==
  /\ x \in Transfers /\ ~(x.ours.stream /\ x.theirs.stream)
  /\ ~u.sess.stream /\ ~t.sess.stream
  /\ u.sess.window <= t.sess.window /\ 2 * t.sess.window < Numbers
  /\ u.sess.attrs => t.sess.attrs
  /\ u.pc \in {"poke", "S"} =>
       /\ u.sess = Classic /\ t.files = <<>>
       /\ t.pc \in {"run", "drain"} => t.replay.caps = t.sess /\ t.replay.seq = 0
  /\ t.pc = "init" => t.sess = Classic /\ u.sess = Classic /\ t.idle = 0
  /\ \A j \in DOMAIN qR : qR[j].k = "S" => qR[j].caps \in {x.ours, Classic}

\* A packet that has a place in the transfer.
Carries(p) == p.k \in StopAndWait

GoodPacket(g, p) ==
  /\ Sendable(g, p.k, p.f, p.pos)
  /\ p.seq = At(g, p) % Numbers

(* The sender: Waits is the place of the packet a stop-and-wait state waits   *)
(* for, SendNext the first place never sent, Unacked the places sent and not  *)
(* seen acknowledged.                                                       *)

Waits(g, u) == Place(g, u.pc, u.f, u.off + 1)

SendNext(g, u) ==
  CASE u.pc = "poke" -> 0
    [] u.pc = "W"    -> DataAt(g, u.f, u.off + 1)
    [] OTHER         -> Waits(g, u) + 1

Unacked(g, u) ==
  CASE u.pc = "poke" -> {}
    [] u.pc = "W"    -> {DataAt(g, u.f, u.out[i].pos) : i \in DOMAIN u.out}
    [] OTHER         -> {Waits(g, u)}

\* The window: chunks sent, in place, none twice, none too far ahead of another.
OutShape(g, u) ==
  \A i \in DOMAIN u.out :
    /\ u.out[i].pos \in Skip(g, u.f) + 1 .. u.off
    /\ u.out[i].seq = DataAt(g, u.f, u.out[i].pos) % Numbers
    /\ u.off + 1 <= u.out[i].pos + u.sess.window
    /\ \A j \in DOMAIN u.out : u.out[i].pos = u.out[j].pos => i = j

SenderShape(g, u) ==
  /\ u.pc \in {"poke", "S"} => u.f = 1 /\ u.off = 0 /\ u.seq = 0
  /\ u.pc = "F" => u.off = 0
  /\ u.pc = "A" => g.att = 1
  /\ u.pc = "D" => u.off \in Skip(g, u.f) .. g.chunks - 1
  /\ u.pc = "W" => u.off \in Skip(g, u.f) .. g.chunks /\ u.out # <<>>
  /\ u.pc = "B" => u.f = g.files
  /\ u.pc # "W" => u.out = <<>>
  /\ u.pc \in StopAndWait => u.seq = Waits(g, u) % Numbers
  /\ u.pc = "W" => u.seq = SendNext(g, u) % Numbers
  /\ OutShape(g, u)

(* The receiver: Exp is the place of the packet it expects.  h is the hole,   *)
(* the first place it has neither taken nor put aside: Exp in run, further    *)
(* on while packets put aside are being taken.                               *)

Exp(g, t) ==
  IF t.pc = "init" THEN 0
  ELSE IF t.files = <<>> THEN 1
  ELSE LET n == Len(t.files) IN
       IF LastFile(t).kept THEN First(g, n + 1)
       ELSE IF g.att = 1 /\ LastFile(t).decl = None THEN First(g, n) + 1
       ELSE DataAt(g, n, LastFile(t).len + 1)

\* Every file but the last is handed over whole, and the last is a prefix.
FileShape(g, i, e, last) ==
  /\ e.f = i /\ e.good = e.len /\ e.len <= g.chunks /\ e.decl <= g.chunks
  /\ e.kept => e.len = g.chunks
  /\ e.kept \/ last
  /\ g.att = 1 /\ ~e.kept => IF e.decl = None THEN e.len = 0 ELSE e.len >= Skip(g, i)

FilesShape(g, t) ==
  /\ Len(t.files) <= g.files
  /\ \A i \in DOMAIN t.files : FileShape(g, i, t.files[i], i = Len(t.files))
  /\ t.pc = "init" => t.files = <<>>
  /\ t.pc = "ok" => t.files # <<>> /\ Len(t.files) = g.files /\ LastFile(t).kept

Pending(g, t) ==
  g.att = 1 /\ t.files # <<>> /\ ~LastFile(t).kept /\ LastFile(t).decl = None
    => (IF t.pend <= g.chunks THEN t.pend ELSE 0) = Skip(g, Len(t.files))

\* The ACK that asks for the rest of a file is at hand while its A may come again.
Replay(g, t) ==
  /\ t.replay.seq # None /\ t.replay.pos # 0 =>
       t.replay.pos = g.skip /\ t.replay.seq = 2 % Numbers /\ Exp(g, t) <= 3 + t.sess.window
  /\ g.att = 1 /\ g.skip > 0 /\ Exp(g, t) \in 3 .. 2 + t.sess.window =>
       t.replay.seq = 2 % Numbers /\ t.replay.pos = g.skip

BufAt(g, t) == {At(g, b) : b \in t.buf}

Rcvd(g, t, m) == m < Exp(g, t) \/ m \in BufAt(g, t)

BufShape(g, t, h) ==
  /\ \A b \in t.buf :
       /\ GoodPacket(g, b) /\ At(g, b) # h
       /\ At(g, b) \in Exp(g, t) .. h + t.sess.window - 1
       /\ \A c \in t.buf : At(g, b) = At(g, c) => b = c
  /\ \A m \in Exp(g, t) .. h - 1 : m \in BufAt(g, t)

ReceiverShape(g, t, h) ==
  /\ t.exp = Exp(g, t) % Numbers
  /\ Pending(g, t) /\ Replay(g, t) /\ BufShape(g, t, h)
  /\ h \in Exp(g, t) .. Exp(g, t) + t.sess.window
  /\ t.pc = "init" => t.buf = {}
  /\ t.pc = "drain" <=> h > Exp(g, t)

(* The packets under way: within the window around the hole, and none that a *)
(* packet before it or put aside is a window or more ahead of.               *)

PacketSound(g, t, h, p) ==
  /\ GoodPacket(g, p)
  /\ h <= At(g, p) + t.sess.window
  /\ At(g, p) < h + t.sess.window
  /\ At(g, p) > h => p.k = "D"
  /\ \A b \in t.buf : At(g, b) < At(g, p) + t.sess.window

PacketsSound(g, t, h, q) ==
  \A j \in DOMAIN q : Carries(q[j]) =>
    /\ PacketSound(g, t, h, q[j])
    /\ \A i \in 1..j - 1 : Carries(q[i]) => At(g, q[i]) < At(g, q[j]) + t.sess.window

\* What the sender no longer waits for has been received.
Sent(g, u, t, h, q) ==
  /\ h <= SendNext(g, u)
  /\ \A j \in DOMAIN q : Carries(q[j]) => At(g, q[j]) < SendNext(g, u)
  /\ \A b \in t.buf : At(g, b) < SendNext(g, u)
  /\ \A m \in 0 .. SendNext(g, u) - 1 : m \in Unacked(g, u) \/ Rcvd(g, t, m)

(* The answers under way.  m is the place an answer is about, e was the hole  *)
(* when it was written: the sender still waits for e or has yet to send it,   *)
(* and no answer before this one says that e has arrived.                    *)

Confirms(y, e) == \/ y.k = "Y" /\ y.seq = e % Numbers
                  \/ y.k = "N" /\ y.seq = (e + 1) % Numbers

ReplyTells(g, u, t, y, m) ==
  /\ y.k = "Y" => \A f \in 1..g.files : g.att = 1 /\ m = First(g, f) + 1 => y.pos = Skip(g, f)
  /\ y.k = "Y" /\ u.pc = "S" => y.caps = t.sess
  /\ y.k = "Y" /\ m >= BreakAt(g) => t.pc = "ok"
  /\ y.k = "N" => m <= BreakAt(g)

ReplySound(g, u, t, h, y, m, e) ==
  /\ y.seq = m % Numbers
  /\ e <= m + t.sess.window
  /\ e \in Unacked(g, u) \/ e = SendNext(g, u)
  /\ y.k = "Y" => m < SendNext(g, u)
  /\ y.k = "N" => m = e
  /\ Alive(t.pc) => e <= h /\ (y.k = "Y" => Rcvd(g, t, m)) /\ (y.k = "N" => m <= Exp(g, t))
  /\ ReplyTells(g, u, t, y, m)

RepliesSound(g, u, t, h, q) ==
  \A j \in DOMAIN q : q[j].k \in {"Y", "N"} =>
    \E m \in Nat, e \in Nat :
      ReplySound(g, u, t, h, q[j], m, e) /\ \A i \in 1..j - 1 : ~Confirms(q[i], e)

Core(g, x, u, t, qR, qS, h) ==
  /\ Types(x, u, t, qR, qS) /\ h \in Nat
  /\ Sessions(x, u, t, qR)
  /\ FilesShape(g, t)
  /\ u.pc = "ok" => t.pc = "ok"
  /\ Alive(u.pc) => SenderShape(g, u) /\ RepliesSound(g, u, t, h, qS)
  /\ Alive(t.pc) => ReceiverShape(g, t, h) /\ PacketsSound(g, t, h, qR)
  /\ Alive(u.pc) /\ Alive(t.pc) => Sent(g, u, t, h, qR)

PlanNow(x, u, t) == PlanOf(x, u.sess.attrs, t.sess.resend)

KInv == \E h \in Nat : Core(PlanNow(xfer, s, r), xfer, s, r, toR, toS, h)

-----------------------------------------------------------------------------
(* A line that has added no fault.  The Send-Init goes over and comes back;   *)
(* after it the packets on their way to the receiver are the ones it expects, *)
(* in a row up to what the sender sends next, and every packet the receiver   *)
(* has taken and the sender still waits for is acknowledged on the way back.  *)
(* So one half always has something to read, and no wait runs out.            *)

Busy == {"F", "A", "D", "Z", "B", "W"}

Starting(x, u, t, qR, qS) ==
  /\ u.ours = x.ours
  /\ \/ u.pc = "poke" /\ t.pc = "init" /\ qR = <<>> /\ qS \in {<<>>, <<Reply("N", 0, 1)>>}
     \/ u.pc = "S" /\ t.pc = "init" /\ qR = <<Packet("S", 0, 1, 0, 0, x.ours)>> /\ qS = <<>>
     \/ /\ u.pc = "S" /\ t.pc = "run" /\ qR = <<>>
        /\ t.sess = intersect_capabilities(x.theirs, x.ours)
        /\ qS = <<Packet("Y", 0, 1, 0, 0, t.sess)>>

\* Plain ACKs of the session.
PlainAcks(q, chk) == \A j \in DOMAIN q : q[j].k = "Y" /\ q[j].ok /\ q[j].chk = chk

Acks(q, m) == \E j \in DOMAIN q : q[j].seq = m % Numbers

\* The packets of q are the next ones the receiver expects, up to what is sent next.
InLine(g, u, t, q) ==
  /\ SendNext(g, u) = Exp(g, t) + Len(q)
  /\ \A j \in DOMAIN q : /\ Carries(q[j]) /\ q[j].ok /\ q[j].chk = t.sess.chk
                         /\ At(g, q[j]) = Exp(g, t) + j - 1
                         /\ q[j].k = "B" => u.pc = "B"

InStep(g, u, t, qR, qS) ==
  /\ t.pc \in {"run", "ok"} /\ u.sess = t.sess /\ PlainAcks(qS, t.sess.chk)
  /\ t.pc = "run" => InLine(g, u, t, qR)
  /\ t.pc = "ok" => u.pc = "B"
  /\ \A m \in Unacked(g, u) : m < Exp(g, t) \/ t.pc = "ok" => Acks(qS, m)

Smooth(g, x, u, t, qR, qS) ==
  /\ u.pc # "err" /\ t.pc \in {"init", "run", "ok"} /\ t.buf = {}
  /\ u.pc \in {"poke", "S"} => Starting(x, u, t, qR, qS)
  /\ u.pc \in Busy => InStep(g, u, t, qR, qS)

CInv ==
  /\ faults \in Nat
  /\ faults = 0 /\ xfer.files <= MaxBatchFiles =>
       up /\ Smooth(PlanNow(xfer, s, r), xfer, s, r, toR, toS)
=============================================================================
