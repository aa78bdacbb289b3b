---------------------------- MODULE ZmodemProofs ----------------------------
(***************************************************************************)
(* Proofs about Zmodem, for every batch, every number of faults and every    *)
(* limit of retries.                                                        *)
(*                                                                          *)
(* Neither an answer nor a header says which file it is about.  The argument *)
(* is that the two halves pass through the same stages, one after the other: *)
(* stage 2n is the time between file n and file n + 1, stage 2n + 1 that of  *)
(* the data of file n + 1.  The receiver is at the stage of the sender or at  *)
(* the one after it, because each half leaves a stage only on something that *)
(* the other half sends in the stage to come, and neither channel changes an *)
(* order.  Within a stage the sender is never ahead of the receiver's        *)
(* position, so that the subpacket a receiver waits for cannot be a later    *)
(* one, and the frames in the channel tell that it is not an earlier one.     *)
(*                                                                          *)
(* The parts of the invariant are operators of the two halves' states t (the  *)
(* sender's) and u (the receiver's) and of the two channels q (to the         *)
(* receiver) and a (to the sender), because both halves may move in one step. *)
(***************************************************************************)
EXTENDS Zmodem, SequenceTheorems, FiniteSetTheorems, TLAPS

SenderPcs == {"init", "file", "data", "eof", "fin", "ok", "err"}
ReceiverPcs == {"wait", "info", "again", "data", "sub", "ok", "err"}

HeaderKinds ==
  {"ZRQINIT", "ZFILE", "ZFIN", "ZDATA", "ZEOF", "ZRINIT", "ZNAK", "ZSKIP", "ZRPOS", "ZACK"}

Packet ==
  [k : HeaderKinds, f : Nat, pos : Nat, ok : BOOLEAN]
    \cup [k : {"sub"}, f : Nat, pos : Nat, mark : {"E", "Q", "W"}, ok : BOOLEAN]
    \cup [k : {"CAN", "ESC"}, ok : BOOLEAN]

SenderState == [pc : SenderPcs, f : Nat, pos : Nat, att : Nat, eofs : Nat, stray : Nat]

ReceiverState ==
  [pc : ReceiverPcs, seen : Nat, errs : Nat, idle : Nat, f : Nat, pos : Nat, good : Nat,
   skipped : BOOLEAN, junk : BOOLEAN, files : Seq([f : Nat, len : Nat, good : Nat])]

\* No file, nothing sent.
None == [k |-> "none", f |-> 0, pos |-> 0, ok |-> FALSE]

-----------------------------------------------------------------------------
(* Sequences.                                                               *)

LEMMA TailFacts ==
  ASSUME NEW S, NEW q \in Seq(S), q # <<>>
  PROVE  /\ Tail(q) \in Seq(S) /\ Len(q) \in Nat \ {0} /\ Len(Tail(q)) = Len(q) - 1
         /\ Head(q) = q[1] /\ Head(q) \in S
         /\ \A i \in 1..Len(Tail(q)) : Tail(q)[i] = q[i + 1]
  OBVIOUS

LEMMA ConcatFacts ==
  ASSUME NEW S, NEW q \in Seq(S), NEW o \in Seq(S)
  PROVE  /\ q \o o \in Seq(S) /\ Len(q) \in Nat /\ Len(o) \in Nat
         /\ Len(q \o o) = Len(q) + Len(o)
         /\ \A i \in 1..Len(q) : (q \o o)[i] = q[i]
         /\ \A i \in 1..Len(q \o o) : i > Len(q) => (q \o o)[i] = o[i - Len(q)]
  OBVIOUS

LEMMA TupleFacts ==
  ASSUME NEW S, NEW x \in S, NEW y \in S, NEW z \in S
  PROVE  /\ <<>> \in Seq(S) /\ Len(<<>>) = 0
         /\ <<x>> \in Seq(S) /\ Len(<<x>>) = 1 /\ <<x>>[1] = x
         /\ <<x, y>> \in Seq(S) /\ Len(<<x, y>>) = 2
         /\ <<x, y>>[1] = x /\ <<x, y>>[2] = y
         /\ <<x, y, z>> \in Seq(S) /\ Len(<<x, y, z>>) = 3
         /\ <<x, y, z>>[1] = x /\ <<x, y, z>>[2] = y /\ <<x, y, z>>[3] = z
  OBVIOUS

LEMMA Prepended ==
  ASSUME NEW x, NEW y, NEW z
  PROVE  <<x>> \o <<y>> = <<x, y>> /\ <<x>> \o <<y, z>> = <<x, y, z>>
  <1> DEFINE S == {x, y, z}
  <1>1. <<x>> \in Seq(S) /\ <<y>> \in Seq(S) /\ <<y, z>> \in Seq(S)
        /\ <<x, y>> \in Seq(S) /\ <<x, y, z>> \in Seq(S)
    OBVIOUS
  <1>2. <<x>> \o <<y>> = <<x, y>>
    <2>1. /\ <<x>> \o <<y>> \in Seq(S) /\ Len(<<x>> \o <<y>>) = Len(<<x, y>>)
          /\ \A i \in 1..Len(<<x>> \o <<y>>) : (<<x>> \o <<y>>)[i] = <<x, y>>[i]
      BY <1>1
    <2> QED BY <1>1, <2>1, SeqEqual
  <1>3. <<x>> \o <<y, z>> = <<x, y, z>>
    <2>1. /\ <<x>> \o <<y, z>> \in Seq(S) /\ Len(<<x>> \o <<y, z>>) = Len(<<x, y, z>>)
          /\ \A i \in 1..Len(<<x>> \o <<y, z>>) : (<<x>> \o <<y, z>>)[i] = <<x, y, z>>[i]
      BY <1>1
    <2> QED BY <1>1, <2>1, SeqEqual
  <1> QED BY <1>2, <1>3

LEMMA PacketFields ==
  ASSUME NEW p \in Packet
  PROVE  /\ p.k \in HeaderKinds \cup {"sub", "CAN", "ESC"} /\ p.ok \in BOOLEAN
         /\ p.k \notin {"CAN", "ESC"} => p.f \in Nat /\ p.pos \in Nat
         /\ p.k = "sub" => p.mark \in {"E", "Q", "W"}
  BY DEF Packet, HeaderKinds

LEMMA Damaged ==
  ASSUME NEW p \in Packet, NEW d, d = [p EXCEPT !.ok = FALSE]
  PROVE  d \in Packet /\ d.k = p.k /\ d.ok = FALSE
         /\ (p.k \notin {"CAN", "ESC"} => d.f = p.f /\ d.pos = p.pos)
  BY DEF Packet, HeaderKinds

LEMMA Made ==
  /\ CancelItem \in Packet
  /\ \A k \in HeaderKinds, f, pos \in Nat : Header(k, f, pos) \in Packet
  /\ \A k \in HeaderKinds : Plain(k) \in Packet
  /\ \A f, pos \in Nat, m \in {"E", "Q", "W"} : Subpacket(f, pos, m) \in Packet
  BY DEF CancelItem, Header, Plain, Subpacket, Packet

-----------------------------------------------------------------------------
(* The moves of a half: from state t, on the item p, to state v with out     *)
(* written.                                                                 *)

SenderTyped(x, t) ==
  /\ t \in SenderState
  /\ t.f \in 1..x.files /\ t.pos \in 0..x.size
  /\ t.att <= MaxRetries + 1 /\ t.eofs <= MaxRetries + 1 /\ t.stray <= MaxRetries

Stay(t, v) == v.f = t.f /\ v.pos = t.pos /\ v.pc = t.pc

\* A chunk that waits for its ZACK is not the last one, and the first file is sent first.
Further(x, t) ==
  /\ t.pc = "data" => t.pos + 1 < x.size
  /\ t.pc = "init" => t.f = 1

\* The sender is at the data of its file, at a position it was at or is told.
AtData(t, p, v) ==
  /\ v.f = t.f
  /\ t.pc \in {"data", "eof"} \/ (t.pc = "file" /\ p.k = "ZRPOS")
  /\ \/ v.pos <= t.pos /\ t.pc # "file"
     \/ p.k \in {"ZRPOS", "ZACK"} /\ v.pos <= p.pos

\* The sender is done with its file.
MovesOn(t, p) == (t.pc = "eof" /\ p.k = "ZRINIT") \/ (t.pc = "file" /\ p.k = "ZSKIP")

\* The sender goes on to a file.
AtFile(x, t, p, v) ==
  \/ t.pc = "file" /\ v.f = t.f
  \/ t.pc = "init" /\ v.f = t.f /\ p.k = "ZRINIT"
  \/ v.f = t.f + 1 /\ MovesOn(t, p)

DataSub(v, m) == Subpacket(v.f, v.pos + 1, m)

\* The end of the data: ZEOF, or a cancel when ZEOF has been sent too often.
Ending(x, v, e) ==
  \/ v.pc = "eof" /\ e = Header("ZEOF", v.f, x.size)
  \/ v.pc = "err" /\ e = CancelItem

SenderMoves(x, t, p, v, out) ==
  \/ Stay(t, v) /\ out = <<>>
  \/ v.pc = "err" /\ out \in {<<>>, <<CancelItem>>}
  \/ t.pc = "fin" /\ v.pc = "ok" /\ out = <<>>
  \/ t.pc = "init" /\ Stay(t, v) /\ out = <<Plain("ZRQINIT")>>
  \/ v.pc = "file" /\ AtFile(x, t, p, v) /\ out = <<Plain("ZFILE"), Subpacket(v.f, 0, "W")>>
  \/ /\ v.pc = "fin" /\ t.f = x.files /\ v.f = t.f /\ out = <<Plain("ZFIN")>>
     /\ MovesOn(t, p)
  \/ v.pc = "eof" /\ AtData(t, p, v) /\ out = <<Header("ZEOF", v.f, x.size)>>
  \/ /\ v.pc = "data" /\ AtData(t, p, v)
     /\ \E m \in {"Q", "W"} : out = <<Header("ZDATA", v.f, v.pos), DataSub(v, m)>>
  \/ /\ AtData(t, p, v) /\ v.pos < x.size
     /\ \E e \in {CancelItem, Header("ZEOF", v.f, x.size)} :
          /\ Ending(x, v, e)
          /\ out = <<Header("ZDATA", v.f, v.pos), DataSub(v, "E"), e>>
  \/ /\ v.pc = "data" /\ AtData(t, p, v) /\ t.pc = "data" /\ v.pos = t.pos + 1
     /\ \E m \in {"Q", "W"} : out = <<DataSub(v, m)>>
  \/ /\ AtData(t, p, v) /\ t.pc = "data" /\ v.pos = t.pos + 1 /\ v.pos < x.size
     /\ \E e \in {CancelItem, Header("ZEOF", v.f, x.size)} :
          Ending(x, v, e) /\ out = <<DataSub(v, "E"), e>>

SenderGoes(x, t, p, d) ==
  /\ SenderTyped(x, d.st) /\ Further(x, d.st)
  /\ SenderMoves(x, t, p, d.st, d.out)

LEMMA Pcs ==
  /\ "init" \in SenderPcs /\ "file" \in SenderPcs /\ "data" \in SenderPcs /\ "eof" \in SenderPcs
  /\ "fin" \in SenderPcs /\ "ok" \in SenderPcs /\ "err" \in SenderPcs
  /\ "wait" \in ReceiverPcs /\ "info" \in ReceiverPcs /\ "again" \in ReceiverPcs
  /\ "data" \in ReceiverPcs /\ "sub" \in ReceiverPcs /\ "ok" \in ReceiverPcs
  /\ "err" \in ReceiverPcs
  BY DEF SenderPcs, ReceiverPcs

Limits == MaxRetries \in Nat \ {0} /\ NegRetries \in Nat \ {0} /\ MaxBatchFiles \in Nat \ {0}

LEMMA LimitsHold == Limits
  BY ZmodemAssumption DEF ZmodemAssumption, Limits

XferOK == xfer.files \in Nat \ {0} /\ xfer.size \in Nat

LEMMA SenderMade ==
  ASSUME NEW t \in SenderState, NEW c \in SenderPcs, NEW n \in Nat, NEW m \in Nat
  PROVE  /\ [t EXCEPT !.pc = c] \in SenderState
         /\ [t EXCEPT !.pc = c, !.att = n, !.stray = m] \in SenderState
         /\ [t EXCEPT !.pc = c, !.stray = m] \in SenderState
         /\ [t EXCEPT !.pc = c, !.eofs = m] \in SenderState
         /\ [t EXCEPT !.f = n, !.att = m, !.eofs = m] \in SenderState
         /\ [t EXCEPT !.pos = n, !.att = m] \in SenderState
         /\ [t EXCEPT !.pos = n] \in SenderState
         /\ [t EXCEPT !.att = n] \in SenderState
         /\ [t EXCEPT !.stray = n] \in SenderState
  BY DEF SenderState

LEMMA SenderTypes ==
  ASSUME NEW t, SenderTyped(xfer, t)
  PROVE  /\ t \in SenderState /\ t.att + 1 \in Nat /\ t.eofs + 1 \in Nat /\ t.stray + 1 \in Nat
         /\ t.f + 1 \in Nat /\ t.pos + 1 \in Nat
  BY DEF SenderTyped, SenderState

LEMMA GivesUpGoes ==
  ASSUME NEW t, SenderTyped(xfer, t), NEW o, NEW p
  PROVE  SenderGoes(xfer, o, p, GivesUp(t)) /\ SenderGoes(xfer, o, p, Fails(t))
  <1> DEFINE v == [t EXCEPT !.pc = "err"]
  <1>1. v \in SenderState /\ v.pc = "err"
    BY SenderTypes, SenderMade, Pcs DEF SenderState
  <1>2. SenderTyped(xfer, v)
    BY <1>1 DEF SenderTyped, SenderState
  <1>3. GivesUp(t) = Does(v, <<CancelItem>>) /\ Fails(t) = Does(v, <<>>)
    BY DEF GivesUp, Fails
  <1> HIDE DEF v
  <1> QED BY <1>1, <1>2, <1>3 DEF SenderGoes, Does, SenderMoves, Further

LEMMA SendFileGoes ==
  ASSUME XferOK, Limits, NEW o, NEW t, SenderTyped(xfer, t), NEW p, AtFile(xfer, o, p, t)
  PROVE  SenderGoes(xfer, o, p, SendFile(t))
  <1>1. CASE t.att > MaxRetries
    BY <1>1, GivesUpGoes DEF SendFile
  <1>2. CASE ~(t.att > MaxRetries)
    <2> DEFINE v == [t EXCEPT !.pc = "file", !.att = @ + 1, !.stray = 0]
    <2>1. v \in SenderState /\ v.pc = "file" /\ v.f = t.f
      BY SenderTypes, SenderMade, Pcs DEF SenderState
    <2>2. SenderTyped(xfer, v)
      BY <1>2, <2>1 DEF SenderTyped, SenderState, Limits
    <2>3. AtFile(xfer, o, p, v)
      BY <2>1 DEF AtFile
    <2>4. SendFile(t) = Does(v, <<Plain("ZFILE"), Subpacket(v.f, 0, "W")>>)
      BY <1>2, <2>1 DEF SendFile
    <2> HIDE DEF v
    <2> QED BY <2>1, <2>2, <2>3, <2>4 DEF SenderGoes, Does, SenderMoves, Further
  <1> QED BY <1>1, <1>2

LEMMA NextFileGoes ==
  ASSUME XferOK, Limits, NEW t, SenderTyped(xfer, t), NEW p,
         MovesOn(t, p)
  PROVE  SenderGoes(xfer, t, p, NextFile(t))
  <1>1. CASE t.f < xfer.files
    <2> DEFINE v == [t EXCEPT !.f = @ + 1, !.att = 0, !.eofs = 0]
    <2>1. v \in SenderState /\ v.f = t.f + 1
      <3>1. v \in SenderState
        BY SenderTypes, SenderMade, Pcs
      <3> QED BY <3>1, SenderTypes DEF SenderState
    <2>2. SenderTyped(xfer, v)
      BY <1>1, <2>1 DEF SenderTyped, SenderState, Limits, XferOK
    <2>3. AtFile(xfer, t, p, v)
      BY <2>1 DEF AtFile
    <2> HIDE DEF v
    <2>4. SenderGoes(xfer, t, p, SendFile(v))
      BY <2>2, <2>3, SendFileGoes
    <2> QED BY <1>1, <2>4 DEF NextFile, v
  <1>2. CASE ~(t.f < xfer.files)
    <2> DEFINE v == [t EXCEPT !.pc = "fin"]
    <2>1. v \in SenderState /\ v.f = t.f /\ v.pc = "fin"
      BY SenderTypes, SenderMade, Pcs DEF SenderState
    <2>2. SenderTyped(xfer, v) /\ t.f = xfer.files
      BY <1>2, <2>1 DEF SenderTyped, SenderState, XferOK
    <2>3. NextFile(t) = Does(v, <<Plain("ZFIN")>>)
      BY <1>2 DEF NextFile
    <2> HIDE DEF v
    <2> QED BY <2>1, <2>2, <2>3 DEF SenderGoes, Does, SenderMoves, Further
  <1> QED BY <1>1, <1>2

LEMMA SendEofGoes ==
  ASSUME XferOK, Limits, NEW o, NEW t, SenderTyped(xfer, t), NEW p, AtData(o, p, t)
  PROVE  SenderGoes(xfer, o, p, SendEof(t))
  <1>1. CASE t.eofs > MaxRetries
    BY <1>1, GivesUpGoes DEF SendEof
  <1>2. CASE ~(t.eofs > MaxRetries)
    <2> DEFINE v == [t EXCEPT !.pc = "eof", !.eofs = @ + 1]
    <2>1. v \in SenderState /\ v.pc = "eof" /\ v.f = t.f /\ v.pos = t.pos
      BY SenderTypes, SenderMade, Pcs DEF SenderState
    <2>2. SenderTyped(xfer, v)
      BY <1>2, <2>1 DEF SenderTyped, SenderState, Limits
    <2>3. AtData(o, p, v)
      BY <2>1 DEF AtData
    <2>4. SendEof(t) = Does(v, <<Header("ZEOF", v.f, xfer.size)>>)
      BY <1>2, <2>1 DEF SendEof
    <2> HIDE DEF v
    <2> QED BY <2>1, <2>2, <2>3, <2>4 DEF SenderGoes, Does, SenderMoves, Further
  <1> QED BY <1>1, <1>2

\* What send_zdata_run sends behind a header, or behind the chunk before.
ChunkSent(x, t, d) ==
  /\ SenderTyped(x, d.st) /\ Further(x, d.st) /\ d.st.f = t.f /\ d.st.pos = t.pos
  /\ \/ d.st.pc = "data" /\ \E m \in {"Q", "W"} : d.out = <<DataSub(d.st, m)>>
     \/ \E e \in {CancelItem, Header("ZEOF", d.st.f, x.size)} :
          Ending(x, d.st, e) /\ d.out = <<DataSub(d.st, "E"), e>>

LEMMA SendChunkSends ==
  ASSUME XferOK, Limits, NEW t, SenderTyped(xfer, t), t.pos < xfer.size
  PROVE  ChunkSent(xfer, t, SendChunk(t))
  <1>1. CASE t.pos + 1 = xfer.size
    <2> DEFINE d == SendEof(t)
    <2>1. PICK e \in {CancelItem, Header("ZEOF", t.f, xfer.size)} :
            /\ SenderTyped(xfer, d.st) /\ d.st.f = t.f /\ d.st.pos = t.pos
            /\ Ending(xfer, d.st, e) /\ d.out = <<e>>
      <3>1. CASE t.eofs > MaxRetries
        <4> DEFINE v == [t EXCEPT !.pc = "err"]
        <4>1. v \in SenderState /\ v.pc = "err" /\ v.f = t.f /\ v.pos = t.pos
          BY SenderTypes, SenderMade, Pcs DEF SenderState
        <4>2. SenderTyped(xfer, v)
          BY <4>1 DEF SenderTyped, SenderState
        <4>3. d = Does(v, <<CancelItem>>)
          BY <3>1 DEF SendEof, GivesUp
        <4> HIDE DEF v, d
        <4> QED BY <4>1, <4>2, <4>3 DEF Does, Ending
      <3>2. CASE ~(t.eofs > MaxRetries)
        <4> DEFINE v == [t EXCEPT !.pc = "eof", !.eofs = @ + 1]
        <4>1. v \in SenderState /\ v.pc = "eof" /\ v.f = t.f /\ v.pos = t.pos
          BY SenderTypes, SenderMade, Pcs DEF SenderState
        <4>2. SenderTyped(xfer, v)
          BY <3>2, <4>1 DEF SenderTyped, SenderState, Limits
        <4>3. d = Does(v, <<Header("ZEOF", v.f, xfer.size)>>)
          BY <3>2, <4>1 DEF SendEof
        <4> HIDE DEF v, d
        <4> QED BY <4>1, <4>2, <4>3 DEF Does, Ending
      <3> QED BY <3>1, <3>2
    <2>2. SendChunk(t) = Does(d.st, <<Subpacket(t.f, t.pos + 1, "E")>> \o d.out)
      BY <1>1 DEF SendChunk, Plus
    <2> HIDE DEF d
    <2>3. <<Subpacket(t.f, t.pos + 1, "E")>> \o d.out = <<DataSub(d.st, "E"), e>>
      BY <2>1, Prepended DEF DataSub
    <2> QED BY <2>1, <2>2, <2>3 DEF Does, ChunkSent, Ending, Further
  <1>2. CASE t.pos + 1 # xfer.size
    <2> DEFINE v == [t EXCEPT !.pc = "data", !.stray = 0]
    <2>1. v \in SenderState /\ v.pc = "data" /\ v.f = t.f /\ v.pos = t.pos
      <3>1. v \in SenderState
        BY SenderTypes, SenderMade, Pcs
      <3> QED BY <3>1, SenderTypes DEF SenderState
    <2>2. SenderTyped(xfer, v) /\ Further(xfer, v)
      BY <1>2, <2>1 DEF SenderTyped, SenderState, Limits, XferOK, Further
    <2>3. PICK m \in {"Q", "W"} : SendChunk(t) = Does(v, <<DataSub(v, m)>>)
      BY <1>2, <2>1 DEF SendChunk, DataSub
    <2> HIDE DEF v
    <2> QED BY <2>1, <2>2, <2>3 DEF Does, ChunkSent
  <1> QED BY <1>1, <1>2

LEMMA SendRunGoes ==
  ASSUME XferOK, Limits, NEW o, NEW t, SenderTyped(xfer, t), NEW p, AtData(o, p, t)
  PROVE  SenderGoes(xfer, o, p, SendRun(t))
  <1>1. CASE t.pos >= xfer.size
    BY <1>1, SendEofGoes DEF SendRun
  <1>2. CASE ~(t.pos >= xfer.size) /\ t.att > MaxRetries
    BY <1>2, GivesUpGoes DEF SendRun
  <1>3. CASE ~(t.pos >= xfer.size) /\ ~(t.att > MaxRetries)
    <2> DEFINE v == [t EXCEPT !.att = @ + 1]
               d == SendChunk(v)
               h == Header("ZDATA", t.f, t.pos)
    <2>1. v \in SenderState /\ v.f = t.f /\ v.pos = t.pos /\ v.pc = t.pc
      BY SenderTypes, SenderMade, Pcs DEF SenderState
    <2>2. SenderTyped(xfer, v) /\ v.pos < xfer.size
      BY <1>3, <2>1 DEF SenderTyped, SenderState, Limits, XferOK
    <2> HIDE DEF v
    <2>3. ChunkSent(xfer, v, d)
      BY <2>2, SendChunkSends
    <2>4. SendRun(t) = Does(d.st, <<h>> \o d.out)
      BY <1>3 DEF SendRun, Plus, v
    <2> HIDE DEF d
    <2>5. AtData(o, p, d.st) /\ d.st.pos < xfer.size /\ h = Header("ZDATA", d.st.f, d.st.pos)
      BY <2>1, <2>2, <2>3 DEF ChunkSent, AtData
    <2> HIDE DEF h
    <2>6. CASE d.st.pc = "data" /\ \E m \in {"Q", "W"} : d.out = <<DataSub(d.st, m)>>
      <3>1. PICK m \in {"Q", "W"} : <<h>> \o d.out = <<h, DataSub(d.st, m)>>
        BY <2>6, Prepended, ZenonT(30)
      <3> QED BY <2>3, <2>4, <2>5, <2>6, <3>1 DEF SenderGoes, SenderMoves, Does, ChunkSent
    <2>7. CASE \E e \in {CancelItem, Header("ZEOF", d.st.f, xfer.size)} :
                 Ending(xfer, d.st, e) /\ d.out = <<DataSub(d.st, "E"), e>>
      <3>1. PICK e \in {CancelItem, Header("ZEOF", d.st.f, xfer.size)} :
              Ending(xfer, d.st, e) /\ <<h>> \o d.out = <<h, DataSub(d.st, "E"), e>>
        BY <2>7, Prepended, ZenonT(30)
      <3> QED BY <2>3, <2>4, <2>5, <3>1 DEF SenderGoes, SenderMoves, Does, ChunkSent
    <2> QED BY <2>3, <2>6, <2>7 DEF ChunkSent
  <1> QED BY <1>1, <1>2, <1>3

LEMMA RunFromGoes ==
  ASSUME XferOK, Limits, NEW t, SenderTyped(xfer, t), NEW p, p.pos \in Nat, p.k = "ZRPOS",
         t.pc \in {"file", "data", "eof"}
  PROVE  /\ SenderGoes(xfer, t, p, RunFrom(t, p.pos))
         /\ SenderGoes(xfer, t, p, SendRun([t EXCEPT !.pos = Lower(p.pos, xfer.size)]))
  <1> DEFINE n == Lower(p.pos, xfer.size)
             v == [t EXCEPT !.pos = n, !.att = 0]
             w == [t EXCEPT !.pos = n]
  <1>1. n \in 0..xfer.size /\ n <= p.pos /\ n \in Nat
    BY DEF Lower, XferOK
  <1> HIDE DEF n
  <1>2. v \in SenderState /\ w \in SenderState
    BY <1>1, SenderTypes, SenderMade, Pcs
  <1>3. /\ v.pos = n /\ v.f = t.f /\ v.pc = t.pc
        /\ w.pos = n /\ w.f = t.f /\ w.pc = t.pc
    BY SenderTypes DEF SenderState
  <1>4. SenderTyped(xfer, v) /\ SenderTyped(xfer, w)
    BY <1>1, <1>2 DEF SenderTyped, SenderState, Limits
  <1>5. AtData(t, p, v) /\ AtData(t, p, w)
    BY <1>1, <1>3 DEF AtData
  <1>6. SenderGoes(xfer, t, p, SendRun(v)) /\ SenderGoes(xfer, t, p, SendRun(w))
    BY <1>4, <1>5, SendRunGoes
  <1> QED BY <1>6 DEF RunFrom, n

LEMMA DataAckedGoes ==
  ASSUME XferOK, Limits, NEW t, SenderTyped(xfer, t), Further(xfer, t), NEW p, p.pos \in Nat,
         p.k = "ZACK", t.pc = "data"
  PROVE  SenderGoes(xfer, t, p, DataAcked(t, p))
  <1> DEFINE v == [t EXCEPT !.pos = @ + 1, !.att = 0]
  <1>1. CASE p.pos = t.pos + 1
    <2>1. v \in SenderState /\ v.pos = t.pos + 1 /\ v.f = t.f /\ v.pc = "data"
      <3>1. v \in SenderState
        BY SenderTypes, SenderMade, Pcs
      <3> QED BY <3>1, SenderTypes DEF SenderState
    <2>2. SenderTyped(xfer, v) /\ v.pos < xfer.size
      BY <2>1 DEF SenderTyped, SenderState, Limits, XferOK, Further
    <2>3. AtData(t, p, v)
      BY <1>1, <2>1, SenderTypes DEF AtData
    <2> HIDE DEF v
    <2>4. CASE xfer.segmented
      <3>1. DataAcked(t, p) = SendRun(v)
        BY <1>1, <2>4 DEF DataAcked, v
      <3> QED BY <2>2, <2>3, <3>1, SendRunGoes
    <2>5. CASE ~xfer.segmented
      <3> DEFINE d == SendChunk(v)
      <3>1. DataAcked(t, p) = d
        BY <1>1, <2>5 DEF DataAcked, v
      <3>2. ChunkSent(xfer, v, d)
        BY <2>2, SendChunkSends
      <3> HIDE DEF d
      <3>3. AtData(t, p, d.st) /\ d.st.pos = t.pos + 1 /\ d.st.pos < xfer.size
        BY <2>1, <2>2, <2>3, <3>2 DEF ChunkSent, AtData
      <3> QED BY <3>1, <3>2, <3>3 DEF ChunkSent, SenderGoes, SenderMoves
    <2> QED BY <2>4, <2>5
  <1>2. CASE p.pos # t.pos + 1 /\ t.stray + 1 > MaxRetries
    <2>0. t.pos \in Nat
      BY SenderTypes DEF SenderState
    <2>1. AtData(t, p, t)
      BY <2>0 DEF AtData
    <2>2. DataAcked(t, p) = SendRun(t)
      BY <1>2 DEF DataAcked
    <2> QED BY <2>1, <2>2, SendRunGoes
  <1>3. CASE p.pos # t.pos + 1 /\ ~(t.stray + 1 > MaxRetries)
    <2> DEFINE w == [t EXCEPT !.stray = @ + 1]
    <2>1. w \in SenderState /\ Stay(t, w)
      BY SenderTypes, SenderMade, Pcs DEF SenderState, Stay
    <2>2. SenderTyped(xfer, w) /\ Further(xfer, w)
      BY <1>3, <2>1 DEF SenderTyped, SenderState, Limits, Stay, Further
    <2>3. DataAcked(t, p) = Does(w, <<>>)
      BY <1>3 DEF DataAcked
    <2> HIDE DEF w
    <2> QED BY <2>1, <2>2, <2>3 DEF SenderGoes, SenderMoves, Does
  <1> QED BY <1>1, <1>2, <1>3

LEMMA SenderHeaderGoes ==
  ASSUME XferOK, Limits, NEW t, SenderTyped(xfer, t), Further(xfer, t), t.pc \notin Done,
         NEW p, p.k \in HeaderKinds \cup {"sub"}, p.pos \in Nat
  PROVE  SenderGoes(xfer, t, p, SenderHeader(t, p))
  <1>0. t \in SenderState /\ t.pos \in Nat
    BY SenderTypes DEF SenderState
  <1>s. SenderGoes(xfer, t, p, Does(t, <<>>))
    BY DEF SenderGoes, SenderMoves, Does, Stay
  <1>1. CASE t.pc = "init"
    <2>1. CASE p.k = "ZRINIT"
      <3> DEFINE v == [t EXCEPT !.att = 0]
      <3>1. v \in SenderState
        BY <1>0, SenderMade, Pcs
      <3>2. SenderTyped(xfer, v) /\ AtFile(xfer, t, p, v)
        BY <1>0, <1>1, <2>1, <3>1 DEF SenderTyped, SenderState, AtFile, Limits
      <3>3. SenderHeader(t, p) = SendFile(v)
        BY <1>1, <2>1 DEF SenderHeader
      <3> QED BY <3>2, <3>3, SendFileGoes
    <2>2. CASE p.k # "ZRINIT"
      BY <1>1, <1>s, <2>2 DEF SenderHeader
    <2> QED BY <2>1, <2>2
  <1>2. CASE t.pc = "file"
    <2>1. CASE p.k = "ZRPOS"
      BY <1>2, <2>1, RunFromGoes DEF SenderHeader
    <2>2. CASE p.k = "ZSKIP"
      BY <1>2, <2>2, NextFileGoes DEF MovesOn, SenderHeader
    <2>3. CASE p.k = "ZRINIT" /\ t.stray + 1 <= MaxRetries
      <3> DEFINE w == [t EXCEPT !.stray = @ + 1]
      <3>1. w \in SenderState /\ Stay(t, w)
        BY SenderTypes, SenderMade, Pcs DEF SenderState, Stay
      <3>2. SenderTyped(xfer, w) /\ Further(xfer, w)
        BY <1>2, <2>3, <3>1 DEF SenderTyped, SenderState, Limits, Stay, Further
      <3>3. SenderHeader(t, p) = Does(w, <<>>)
        BY <1>2, <2>3 DEF SenderHeader
      <3> HIDE DEF w
      <3> QED BY <3>1, <3>2, <3>3 DEF SenderGoes, SenderMoves, Does
    <2>4. CASE p.k \notin {"ZRPOS", "ZSKIP"} /\ ~(p.k = "ZRINIT" /\ t.stray + 1 <= MaxRetries)
      <3>1. AtFile(xfer, t, p, t)
        BY <1>2 DEF AtFile
      <3>2. SenderHeader(t, p) = SendFile(t)
        BY <1>2, <2>4 DEF SenderHeader
      <3> QED BY <3>1, <3>2, SendFileGoes
    <2> QED BY <2>1, <2>2, <2>3, <2>4
  <1>3. CASE t.pc = "data"
    <2>1. CASE p.k = "ZACK"
      BY <1>3, <2>1, DataAckedGoes DEF SenderHeader
    <2>2. CASE p.k = "ZRPOS"
      BY <1>3, <2>2, RunFromGoes DEF SenderHeader
    <2>3. CASE p.k \notin {"ZACK", "ZRPOS"}
      <3>1. AtData(t, p, t)
        BY <1>0, <1>3 DEF AtData
      <3>2. SenderHeader(t, p) = SendRun(t)
        BY <1>3, <2>3 DEF SenderHeader
      <3> QED BY <3>1, <3>2, SendRunGoes
    <2> QED BY <2>1, <2>2, <2>3
  <1>4. CASE t.pc = "eof"
    <2>1. CASE p.k = "ZRINIT"
      BY <1>4, <2>1, NextFileGoes DEF MovesOn, SenderHeader, AfterEof
    <2>2. CASE p.k = "ZRPOS"
      BY <1>4, <2>2, RunFromGoes DEF SenderHeader, AfterEof
    <2>3. CASE p.k \notin {"ZRINIT", "ZRPOS"}
      <3>1. AtData(t, p, t)
        BY <1>0, <1>4 DEF AtData
      <3>2. SenderHeader(t, p) = SendEof(t)
        BY <1>4, <2>3 DEF SenderHeader, AfterEof
      <3> QED BY <3>1, <3>2, SendEofGoes
    <2> QED BY <2>1, <2>2, <2>3
  <1>5. CASE t.pc = "fin"
    <2> DEFINE v == [t EXCEPT !.pc = "ok"]
    <2>1. v \in SenderState /\ v.pc = "ok"
      BY <1>0, SenderMade, Pcs DEF SenderState
    <2>2. SenderTyped(xfer, v)
      BY <2>1 DEF SenderTyped, SenderState
    <2>3. SenderHeader(t, p) \in {Does(v, <<>>), Does(t, <<>>)}
      BY <1>5 DEF SenderHeader
    <2> HIDE DEF v
    <2>4. SenderGoes(xfer, t, p, Does(v, <<>>))
      BY <1>5, <2>1, <2>2 DEF SenderGoes, SenderMoves, Does, Further
    <2> QED BY <1>s, <2>3, <2>4
  <1> QED BY <1>0, <1>1, <1>2, <1>3, <1>4, <1>5 DEF SenderState, SenderPcs, Done

LEMMA SenderNothingGoes ==
  ASSUME XferOK, Limits, NEW t, SenderTyped(xfer, t), Further(xfer, t), t.pc \notin Done
  PROVE  SenderGoes(xfer, t, None, SenderNothing(t))
  <1>0. t \in SenderState /\ t.pos \in Nat
    BY SenderTypes DEF SenderState
  <1>1. CASE t.pc = "init"
    <2>1. CASE t.att + 1 > MaxRetries
      BY <1>1, <2>1, GivesUpGoes DEF SenderNothing, SendInit
    <2>2. CASE ~(t.att + 1 > MaxRetries)
      <3> DEFINE v == [t EXCEPT !.att = @ + 1]
      <3>1. v \in SenderState /\ Stay(t, v)
        BY SenderTypes, SenderMade, Pcs DEF SenderState, Stay
      <3>2. SenderTyped(xfer, v) /\ Further(xfer, v)
        BY <1>1, <2>2, <3>1 DEF SenderTyped, SenderState, Limits, Stay, Further
      <3>3. SenderNothing(t) = Does(v, <<Plain("ZRQINIT")>>)
        BY <1>1, <2>2 DEF SenderNothing, SendInit
      <3> HIDE DEF v
      <3> QED BY <1>1, <3>1, <3>2, <3>3 DEF SenderGoes, SenderMoves, Does
    <2> QED BY <2>1, <2>2
  <1>2. CASE t.pc = "file"
    <2>1. AtFile(xfer, t, None, t)
      BY <1>2 DEF AtFile
    <2>2. SenderNothing(t) = SendFile(t)
      BY <1>2 DEF SenderNothing
    <2> QED BY <2>1, <2>2, SendFileGoes
  <1>3. CASE t.pc = "data"
    <2>1. AtData(t, None, t)
      BY <1>0, <1>3 DEF AtData
    <2>2. SenderNothing(t) = SendRun(t)
      BY <1>3 DEF SenderNothing
    <2> QED BY <2>1, <2>2, SendRunGoes
  <1>4. CASE t.pc = "eof"
    <2>1. AtData(t, None, t)
      BY <1>0, <1>4 DEF AtData
    <2>2. SenderNothing(t) = SendEof(t)
      BY <1>4 DEF SenderNothing
    <2> QED BY <2>1, <2>2, SendEofGoes
  <1>5. CASE t.pc = "fin"
    <2> DEFINE v == [t EXCEPT !.pc = "ok"]
    <2>1. v \in SenderState /\ v.pc = "ok"
      BY <1>0, SenderMade, Pcs DEF SenderState
    <2>2. SenderTyped(xfer, v)
      BY <2>1 DEF SenderTyped, SenderState
    <2>3. SenderNothing(t) = Does(v, <<>>)
      BY <1>5 DEF SenderNothing
    <2> HIDE DEF v
    <2> QED BY <1>5, <2>1, <2>2, <2>3 DEF SenderGoes, SenderMoves, Does, Further
  <1> QED BY <1>0, <1>1, <1>2, <1>3, <1>4, <1>5 DEF SenderState, SenderPcs, Done

LEMMA SenderGoneGoes ==
  ASSUME NEW t, SenderTyped(xfer, t), NEW p
  PROVE  SenderGoes(xfer, t, p, Does(SenderGone(t), <<>>))
  <1> DEFINE v == SenderGone(t)
  <1>1. /\ v \in SenderState
        /\ v.pc = "err" \/ (t.pc = "fin" /\ v.pc = "ok")
    <2>1. t \in SenderState
      BY SenderTypes
    <2> QED BY <2>1, SenderMade, Pcs DEF SenderGone, SenderState
  <1>2. SenderTyped(xfer, v)
    BY <1>1 DEF SenderTyped, SenderState, SenderGone
  <1> QED BY <1>1, <1>2 DEF SenderGoes, SenderMoves, Does, Further

-----------------------------------------------------------------------------
ReceiverBase(x, t) ==
  /\ t \in ReceiverState
  /\ t.f <= x.files /\ t.good <= x.size
  /\ t.seen <= MaxBatchFiles /\ t.idle <= 2 * MaxRetries + 1
  /\ t.errs <= IF t.seen = 0 THEN NegRetries ELSE MaxRetries
  /\ t.pc \in {"info", "again", "data", "sub"} => t.seen > 0
  /\ t.pc \in {"wait", "info", "again"} => t.f = 0 /\ t.pos = 0 /\ t.good = 0
  /\ t.pc \in {"data", "sub"} => t.f > 0

ReceiverTyped(x, t) == ReceiverBase(x, t) /\ (t.pc \notin Done => t.idle <= 2 * MaxRetries)

Keeps(t, v) == v.f = t.f /\ v.pos = t.pos /\ v.good = t.good /\ v.files = t.files

ReceiverMoves(x, t, p, v, out) ==
  \/ Keeps(t, v) /\ v.pc \in Done /\ out \in {<<>>, <<CancelItem>>, <<Plain("ZFIN")>>}
  \/ /\ Keeps(t, v) /\ t.pc = "wait" /\ v.pc = "wait"
     /\ out \in {<<>>, <<Plain("ZRINIT")>>, <<Plain("ZNAK")>>}
  \/ /\ Keeps(t, v) /\ t.pc \in {"wait", "again"} /\ v.pc = "info"
     /\ p.k = "ZFILE" /\ out = <<>>
  \/ /\ Keeps(t, v) /\ t.pc \in {"info", "again"} /\ v.pc = "again"
     /\ out \in {<<>>, <<Plain("ZNAK")>>}
  \/ Keeps(t, v) /\ t.pc \in {"info", "sub"} /\ v.pc = t.pc /\ v.junk /\ out = <<>>
  \/ /\ Keeps(t, v) /\ t.pc \in {"data", "sub"} /\ v.pc = "data"
     /\ \/ out \in {<<>>, <<Header("ZRPOS", 0, v.pos)>>}
        \/ p.k = "ZRQINIT" /\ out = <<Plain("ZRINIT")>>
  \/ /\ Keeps(t, v) /\ t.pc = "data" /\ v.pc = "sub" /\ out = <<>>
     /\ p.k = "ZDATA" /\ p.pos = t.pos
  \/ /\ t.pc = "info" /\ ~t.junk /\ p.k = "sub" /\ p.f \notin x.skip /\ v.pc = "data"
     /\ v.f = p.f /\ v.pos = 0 /\ v.good = 0 /\ v.files = t.files
     /\ out = <<Header("ZRPOS", 0, v.pos)>>
  \/ /\ t.pc = "info" /\ p.k = "sub" /\ p.f \in x.skip /\ Keeps(t, v) /\ v.pc = "wait"
     /\ out = <<Plain("ZSKIP")>>
  \/ /\ t.pc = "sub" /\ ~t.junk /\ p.k = "sub" /\ v.pc \in {"sub", "data"}
     /\ v.f = t.f /\ v.pos = t.pos + 1 /\ v.files = t.files
     /\ v.good = IF t.good = t.pos /\ p.f = t.f /\ p.pos = t.pos + 1 THEN t.good + 1 ELSE t.good
     /\ out \in {<<>>, <<Header("ZACK", 0, v.pos)>>}
  \/ /\ t.pc = "data" /\ p.k = "ZEOF" /\ p.pos = t.pos /\ v.pc = "wait"
     /\ v.f = 0 /\ v.pos = 0 /\ v.good = 0
     /\ v.files = Append(t.files, [f |-> t.f, len |-> t.pos, good |-> t.good])
     /\ out = <<Plain("ZRINIT")>>

ReceiverGoes(x, t, p, d) ==
  ReceiverTyped(x, d.st) /\ ReceiverMoves(x, t, p, d.st, d.out)

FileEntries == Seq([f : Nat, len : Nat, good : Nat])

LEMMA ReceiverMade ==
  ASSUME NEW t \in ReceiverState, NEW c \in ReceiverPcs, NEW n \in Nat, NEW m \in Nat, NEW o \in Nat,
         NEW b \in BOOLEAN, NEW e \in FileEntries
  PROVE  /\ [t EXCEPT !.pc = c] \in ReceiverState
         /\ [t EXCEPT !.errs = n] \in ReceiverState
         /\ [t EXCEPT !.junk = b] \in ReceiverState
         /\ [t EXCEPT !.skipped = b] \in ReceiverState
         /\ [t EXCEPT !.pc = c, !.junk = b] \in ReceiverState
         /\ [t EXCEPT !.errs = n, !.idle = m] \in ReceiverState
         /\ [t EXCEPT !.pc = c, !.seen = n, !.idle = m, !.errs = m] \in ReceiverState
         /\ [t EXCEPT !.pc = c, !.errs = n, !.f = n, !.pos = n, !.good = n] \in ReceiverState
         /\ [t EXCEPT !.pc = c, !.f = n, !.pos = m, !.good = m, !.errs = m, !.skipped = b] \in ReceiverState
         /\ [t EXCEPT !.errs = o, !.skipped = b, !.pos = n, !.good = m, !.pc = c] \in ReceiverState
         /\ [t EXCEPT !.files = e] \in ReceiverState
  BY DEF ReceiverState, FileEntries

LEMMA ReceiverTypes ==
  ASSUME NEW t, ReceiverBase(xfer, t)
  PROVE  /\ t \in ReceiverState /\ t.errs + 1 \in Nat /\ t.idle + 1 \in Nat /\ t.seen + 1 \in Nat
         /\ t.pos + 1 \in Nat /\ t.good + 1 \in Nat /\ t.pos \in Nat /\ t.good \in Nat
         /\ t.files \in FileEntries /\ t.junk \in BOOLEAN
  BY DEF ReceiverBase, ReceiverState, FileEntries

LEMMA ReceiverEnds ==
  ASSUME NEW t, ReceiverBase(xfer, t), NEW o, Keeps(o, t), NEW p,
         NEW c \in Done, NEW out \in {<<>>, <<CancelItem>>, <<Plain("ZFIN")>>}
  PROVE  ReceiverGoes(xfer, o, p, Does([t EXCEPT !.pc = c], out))
  <1> DEFINE v == [t EXCEPT !.pc = c]
  <1>0. c \in ReceiverPcs
    BY Pcs DEF Done
  <1>1. v \in ReceiverState
    BY <1>0, ReceiverTypes, ReceiverMade
  <1>2. v.pc = c /\ Keeps(o, v)
    BY ReceiverTypes DEF ReceiverState, Keeps
  <1>3. ReceiverTyped(xfer, v)
    BY <1>1, <1>2 DEF ReceiverTyped, ReceiverBase, ReceiverState, Done
  <1> HIDE DEF v
  <1>4. ReceiverGoes(xfer, o, p, Does(v, out))
    BY <1>2, <1>3 DEF ReceiverGoes, ReceiverMoves, Does
  <1> QED BY <1>4 DEF v

LEMMA ReceiverGivesUp ==
  ASSUME NEW t, ReceiverBase(xfer, t), NEW o, Keeps(o, t), NEW p
  PROVE  ReceiverGoes(xfer, o, p, GivesUp(t)) /\ ReceiverGoes(xfer, o, p, Fails(t))
  BY ReceiverEnds DEF GivesUp, Fails, Done

LEMMA RetryGoes ==
  ASSUME Limits, NEW t, ReceiverTyped(xfer, t), t.seen > 0, NEW o, Keeps(o, t), NEW p, NEW out,
         \A v : Keeps(o, v) /\ v.pc = t.pc /\ v.junk = t.junk => ReceiverMoves(xfer, o, p, v, out)
  PROVE  ReceiverGoes(xfer, o, p, Retry(t, out))
  <1>0. ReceiverBase(xfer, t)
    BY DEF ReceiverTyped
  <1>1. CASE t.errs + 1 > MaxRetries
    BY <1>0, <1>1, ReceiverGivesUp DEF Retry
  <1>2. CASE ~(t.errs + 1 > MaxRetries)
    <2> DEFINE v == [t EXCEPT !.errs = @ + 1]
    <2>1. v \in ReceiverState
      BY <1>0, ReceiverTypes, ReceiverMade, Pcs
    <2>2. /\ v.pc = t.pc /\ v.f = t.f /\ v.pos = t.pos /\ v.good = t.good /\ v.files = t.files
          /\ v.junk = t.junk /\ v.seen = t.seen /\ v.idle = t.idle /\ v.errs = t.errs + 1
      BY <1>0, ReceiverTypes DEF ReceiverState
    <2>k. Keeps(o, v)
      BY <2>2 DEF Keeps
    <2>3. ReceiverTyped(xfer, v)
      <3> HIDE DEF v
      <3>1. t.errs \in Nat /\ t.seen \in Nat
        BY <1>0, ReceiverTypes DEF ReceiverState
      <3> QED BY <1>2, <2>1, <2>2, <3>1 DEF ReceiverTyped, ReceiverBase, Limits
    <2>4. Retry(t, out) = Does(v, out)
      BY <1>2 DEF Retry
    <2> HIDE DEF v
    <2> QED BY <2>2, <2>k, <2>3, <2>4 DEF ReceiverGoes, Does
  <1> QED BY <1>1, <1>2

LEMMA NakGoes ==
  ASSUME Limits, NEW t, ReceiverTyped(xfer, t), t.pc \in {"data", "sub"},
         NEW o, Keeps(o, t), o.pc \in {"data", "sub"}, NEW p
  PROVE  ReceiverGoes(xfer, o, p, Nak(t))
  <1> DEFINE v == [t EXCEPT !.pc = "data", !.junk = FALSE]
  <1>0. ReceiverBase(xfer, t) /\ t \in ReceiverState
    BY ReceiverTypes DEF ReceiverTyped
  <1>1. v \in ReceiverState
    BY <1>0, ReceiverMade, ReceiverTypes, Pcs, ZenonT(60)
  <1>2. /\ v.pc = "data" /\ v.f = t.f /\ v.pos = t.pos /\ v.good = t.good /\ v.files = t.files
        /\ v.seen = t.seen /\ v.idle = t.idle /\ v.errs = t.errs
    BY <1>0 DEF ReceiverState
  <1>3. Nak(t) = Retry(v, <<Header("ZRPOS", 0, t.pos)>>)
    BY DEF Nak, Rpos
  <1> HIDE DEF v
  <1>4. ReceiverTyped(xfer, v) /\ v.seen > 0
    BY <1>0, <1>1, <1>2 DEF ReceiverTyped, ReceiverBase, Done
  <1>5. Keeps(o, v) /\ o.pos = t.pos
    BY <1>2 DEF Keeps
  <1>6. ASSUME NEW w, Keeps(o, w), w.pc = v.pc
        PROVE  ReceiverMoves(xfer, o, p, w, <<Header("ZRPOS", 0, t.pos)>>)
    BY <1>2, <1>5, <1>6 DEF ReceiverMoves, Keeps
  <1> QED BY <1>3, <1>4, <1>5, <1>6, RetryGoes

LEMMA InfoErrorGoes ==
  ASSUME Limits, NEW t, ReceiverTyped(xfer, t), t.pc = "info", NEW p
  PROVE  ReceiverGoes(xfer, t, p, InfoError(t))
  <1> DEFINE v == [t EXCEPT !.pc = "again", !.junk = FALSE]
  <1>0. ReceiverBase(xfer, t) /\ t \in ReceiverState
    BY ReceiverTypes DEF ReceiverTyped
  <1>1. v \in ReceiverState
    BY <1>0, ReceiverMade, ReceiverTypes, Pcs, ZenonT(60)
  <1>2. /\ v.pc = "again" /\ v.f = t.f /\ v.pos = t.pos /\ v.good = t.good /\ v.files = t.files
        /\ v.seen = t.seen /\ v.idle = t.idle /\ v.errs = t.errs
    BY <1>0 DEF ReceiverState
  <1>3. InfoError(t) = Retry(v, <<Plain("ZNAK")>>)
    BY DEF InfoError
  <1> HIDE DEF v
  <1>4. ReceiverTyped(xfer, v) /\ v.seen > 0
    BY <1>0, <1>1, <1>2 DEF ReceiverTyped, ReceiverBase, Done
  <1>5. Keeps(t, v)
    BY <1>2 DEF Keeps
  <1>6. ASSUME NEW w, Keeps(t, w), w.pc = v.pc
        PROVE  ReceiverMoves(xfer, t, p, w, <<Plain("ZNAK")>>)
    BY <1>2, <1>6 DEF ReceiverMoves
  <1> QED BY <1>3, <1>4, <1>5, <1>6, RetryGoes

LEMMA AgainGoes ==
  ASSUME Limits, NEW t, ReceiverTyped(xfer, t), t.pc = "again", NEW p
  PROVE  /\ ReceiverGoes(xfer, t, p, AgainHeader(t, p))
         /\ ReceiverGoes(xfer, t, p, Retry(t, <<Plain("ZNAK")>>))
  <1>0. ReceiverBase(xfer, t) /\ t \in ReceiverState /\ Keeps(t, t) /\ t.seen > 0
    BY ReceiverTypes DEF ReceiverTyped, ReceiverBase, Keeps
  <1>1. ASSUME NEW w, Keeps(t, w), w.pc = t.pc
        PROVE  /\ ReceiverMoves(xfer, t, p, w, <<Plain("ZNAK")>>)
               /\ ReceiverMoves(xfer, t, p, w, <<>>)
    BY <1>1 DEF ReceiverMoves
  <1>2. /\ ReceiverGoes(xfer, t, p, Retry(t, <<>>))
        /\ ReceiverGoes(xfer, t, p, Retry(t, <<Plain("ZNAK")>>))
    BY <1>0, <1>1, RetryGoes
  <1>3. CASE p.k = "ZFILE"
    <2> DEFINE v == [t EXCEPT !.pc = "info"]
    <2>1. v \in ReceiverState
      BY <1>0, ReceiverMade, ReceiverTypes, Pcs, ZenonT(60)
    <2>2. /\ v.pc = "info" /\ v.f = t.f /\ v.pos = t.pos /\ v.good = t.good /\ v.files = t.files
          /\ v.seen = t.seen /\ v.idle = t.idle /\ v.errs = t.errs
      BY <1>0 DEF ReceiverState
    <2>3. AgainHeader(t, p) = Does(v, <<>>)
      BY <1>3 DEF AgainHeader
    <2> HIDE DEF v
    <2>4. ReceiverTyped(xfer, v)
      BY <1>0, <2>1, <2>2 DEF ReceiverTyped, ReceiverBase, Done
    <2>5. Keeps(t, v)
      BY <2>2 DEF Keeps
    <2>6. ReceiverMoves(xfer, t, p, v, <<>>)
      BY <1>3, <2>2, <2>5 DEF ReceiverMoves
    <2>7. ReceiverGoes(xfer, t, p, Does(v, <<>>))
      BY <2>4, <2>6 DEF ReceiverGoes, Does
    <2> QED BY <1>2, <2>3, <2>7
  <1> QED BY <1>2, <1>3 DEF AgainHeader

LEMMA WaitHeaderGoes ==
  ASSUME Limits, NEW t, ReceiverTyped(xfer, t), t.pc = "wait", NEW p
  PROVE  ReceiverGoes(xfer, t, p, WaitHeader(t, p))
  <1> DEFINE e == IF t.errs > 0 /\ t.seen > 0 THEN 0 ELSE t.errs
             u == [t EXCEPT !.errs = IF @ > 0 /\ t.seen > 0 THEN 0 ELSE @, !.idle = @ + 1]
  <1>0. /\ ReceiverBase(xfer, t) /\ t \in ReceiverState
        /\ t.errs \in Nat /\ t.idle + 1 \in Nat /\ t.seen \in Nat
    BY ReceiverTypes DEF ReceiverTyped, ReceiverState
  <1>e. e \in Nat /\ e <= t.errs
    BY <1>0
  <1>1. u \in ReceiverState
    <2>1. u = [t EXCEPT !.errs = e, !.idle = t.idle + 1]
      OBVIOUS
    <2> HIDE DEF u, e
    <2>2. "wait" \in ReceiverPcs /\ 0 \in Nat /\ TRUE \in BOOLEAN /\ t.files \in FileEntries
      BY <1>0, Pcs, ReceiverTypes
    <2> QED BY <1>0, <1>e, <2>1, <2>2, ReceiverMade
  <1>2. /\ u.pc = "wait" /\ u.f = t.f /\ u.pos = t.pos /\ u.good = t.good /\ u.files = t.files
        /\ u.seen = t.seen /\ u.idle = t.idle + 1 /\ u.errs = e
    BY <1>0 DEF ReceiverState
  <1>3. WaitHeader(t, p) =
          IF u.idle > 2 * MaxRetries THEN GivesUp(u)
          ELSE CASE p.k \in {"ZRQINIT", "ZEOF"} -> Does(u, <<Plain("ZRINIT")>>)
                 [] p.k = "ZFILE" ->
                      IF BatchFull(u) THEN GivesUp(u)
                      ELSE Does([u EXCEPT !.pc = "info", !.seen = @ + 1, !.idle = 0, !.errs = 0], <<>>)
                 [] p.k = "ZFIN"  -> Does([u EXCEPT !.pc = IF u.seen = 0 THEN "err" ELSE "ok"],
                                          <<Plain("ZFIN")>>)
                 [] OTHER         -> Does(u, <<>>)
    BY DEF WaitHeader
  <1> HIDE DEF u, e
  <1>4. ReceiverBase(xfer, u)
    <2>1. t.idle + 1 <= 2 * MaxRetries + 1
      BY <1>0 DEF ReceiverTyped, ReceiverState, Limits, Done
    <2>2. e <= IF t.seen = 0 THEN NegRetries ELSE MaxRetries
      BY <1>0, <1>e DEF ReceiverBase, Limits
    <2> QED BY <1>0, <1>1, <1>2, <2>1, <2>2 DEF ReceiverBase
  <1>5. Keeps(t, u)
    BY <1>2 DEF Keeps
  <1>6. CASE u.idle > 2 * MaxRetries
    BY <1>3, <1>4, <1>5, <1>6, ReceiverGivesUp
  <1>7. CASE ~(u.idle > 2 * MaxRetries) /\ p.k \notin {"ZFILE", "ZFIN"}
    <2>1. WaitHeader(t, p) \in {Does(u, <<Plain("ZRINIT")>>), Does(u, <<>>)}
      BY <1>3, <1>7
    <2>2. u.idle <= 2 * MaxRetries
      BY <1>1, <1>7 DEF ReceiverState, Limits
    <2>3. ReceiverTyped(xfer, u)
      BY <1>4, <2>2 DEF ReceiverTyped
    <2> QED BY <1>2, <1>5, <2>1, <2>3 DEF ReceiverGoes, ReceiverMoves, Does
  <1>8. CASE ~(u.idle > 2 * MaxRetries) /\ p.k = "ZFILE" /\ BatchFull(u)
    BY <1>3, <1>4, <1>5, <1>8, ReceiverGivesUp
  <1>9. CASE ~(u.idle > 2 * MaxRetries) /\ p.k = "ZFILE" /\ ~BatchFull(u)
    <2> DEFINE v == [u EXCEPT !.pc = "info", !.seen = @ + 1, !.idle = 0, !.errs = 0]
    <2>1. v \in ReceiverState
      <3>1. u.seen + 1 \in Nat
        BY <1>4, ReceiverTypes
      <3> QED BY <1>1, <3>1, ReceiverMade, <1>4, ReceiverTypes, Pcs
    <2>2. /\ v.pc = "info" /\ v.f = u.f /\ v.pos = u.pos /\ v.good = u.good /\ v.files = u.files
          /\ v.seen = u.seen + 1 /\ v.idle = 0 /\ v.errs = 0
      BY <1>1 DEF ReceiverState
    <2>3. WaitHeader(t, p) = Does(v, <<>>)
      BY <1>3, <1>9
    <2> HIDE DEF v
    <2>4. ReceiverTyped(xfer, v)
      BY <1>0, <1>2, <1>4, <1>9, <2>1, <2>2 DEF ReceiverTyped, ReceiverBase, BatchFull, Limits, Done
    <2>5. Keeps(t, v)
      BY <1>2, <2>2 DEF Keeps
    <2> QED BY <1>9, <2>2, <2>3, <2>4, <2>5 DEF ReceiverGoes, ReceiverMoves, Does
  <1>10. CASE ~(u.idle > 2 * MaxRetries) /\ p.k = "ZFIN"
    <2>1. WaitHeader(t, p) \in {Does([u EXCEPT !.pc = "err"], <<Plain("ZFIN")>>),
                                Does([u EXCEPT !.pc = "ok"], <<Plain("ZFIN")>>)}
      BY <1>3, <1>10
    <2> QED BY <1>4, <1>5, <2>1, ReceiverEnds DEF Done
  <1> QED BY <1>6, <1>7, <1>8, <1>9, <1>10

LEMMA WaitErrorGoes ==
  ASSUME Limits, NEW t, ReceiverTyped(xfer, t), t.pc = "wait", NEW p, NEW b
  PROVE  ReceiverGoes(xfer, t, p, WaitError(t, b))
  <1>0. /\ ReceiverBase(xfer, t) /\ t \in ReceiverState /\ Keeps(t, t)
        /\ t.seen \in Nat /\ t.errs \in Nat /\ t.errs + 1 \in Nat
    BY ReceiverTypes DEF ReceiverTyped, ReceiverState, Keeps
  <1>1. CASE t.seen = 0 /\ t.errs + 1 > NegRetries
    BY <1>0, <1>1, ReceiverGivesUp DEF WaitError
  <1>2. CASE t.seen = 0 /\ ~(t.errs + 1 > NegRetries)
    <2> DEFINE v == [t EXCEPT !.errs = @ + 1]
    <2>1. v \in ReceiverState
      BY <1>0, ReceiverTypes, ReceiverMade, Pcs
    <2>2. /\ v.pc = t.pc /\ v.f = t.f /\ v.pos = t.pos /\ v.good = t.good /\ v.files = t.files
          /\ v.junk = t.junk /\ v.seen = t.seen /\ v.idle = t.idle /\ v.errs = t.errs + 1
      BY <1>0 DEF ReceiverState
    <2>3. WaitError(t, b) = Does(v, <<Plain("ZRINIT")>>)
      BY <1>2 DEF WaitError
    <2> HIDE DEF v
    <2>4. ReceiverTyped(xfer, v)
      BY <1>0, <1>2, <2>1, <2>2 DEF ReceiverTyped, ReceiverBase, Limits, Done
    <2>5. Keeps(t, v)
      BY <2>2 DEF Keeps
    <2> QED BY <2>2, <2>3, <2>4, <2>5 DEF ReceiverGoes, ReceiverMoves, Does
  <1>3. CASE t.seen # 0 /\ b
    BY <1>0, <1>3, ReceiverEnds DEF WaitError, Done
  <1>4. CASE t.seen # 0 /\ ~b
    <2>1. ASSUME NEW w, Keeps(t, w), w.pc = t.pc
          PROVE  ReceiverMoves(xfer, t, p, w, <<Plain("ZNAK")>>)
      BY <2>1 DEF ReceiverMoves
    <2>2. t.seen > 0
      BY <1>0, <1>4
    <2> QED BY <1>0, <1>4, <2>1, <2>2, RetryGoes DEF WaitError
  <1> QED BY <1>1, <1>2, <1>3, <1>4

LEMMA TakeInfoGoes ==
  ASSUME XferOK, Limits, NEW t, ReceiverTyped(xfer, t), t.pc = "info", ~t.junk,
         NEW p, p.k = "sub", p.f \in 1..xfer.files
  PROVE  ReceiverGoes(xfer, t, p, TakeInfo(t, p))
  <1>0. ReceiverBase(xfer, t) /\ t \in ReceiverState /\ p.f \in Nat
    BY ReceiverTypes DEF ReceiverTyped
  <1>1. CASE p.f \in xfer.skip
    <2> DEFINE v == [t EXCEPT !.pc = "wait", !.errs = 0, !.f = 0, !.pos = 0, !.good = 0]
    <2>1. v \in ReceiverState
      BY <1>0, ReceiverMade, ReceiverTypes, Pcs, ZenonT(60)
    <2>2. /\ v.pc = "wait" /\ v.f = 0 /\ v.pos = 0 /\ v.good = 0 /\ v.files = t.files
          /\ v.seen = t.seen /\ v.idle = t.idle /\ v.errs = 0
      BY <1>0 DEF ReceiverState
    <2>3. TakeInfo(t, p) = Does(v, <<Plain("ZSKIP")>>)
      BY <1>1 DEF TakeInfo, ToWait
    <2> HIDE DEF v
    <2>4. ReceiverTyped(xfer, v)
      BY <1>0, <2>1, <2>2 DEF ReceiverTyped, ReceiverBase, Limits, XferOK, Done
    <2>5. Keeps(t, v)
      BY <1>0, <2>2 DEF Keeps, ReceiverBase
    <2> QED BY <1>1, <2>2, <2>3, <2>4, <2>5 DEF ReceiverGoes, ReceiverMoves, Does
  <1>2. CASE p.f \notin xfer.skip
    <2> DEFINE v == [t EXCEPT !.pc = "data", !.f = p.f, !.pos = 0, !.good = 0, !.errs = 0,
                              !.skipped = FALSE]
    <2>1. v \in ReceiverState
      BY <1>0, ReceiverMade, ReceiverTypes, Pcs, ZenonT(60)
    <2>2. /\ v.pc = "data" /\ v.f = p.f /\ v.pos = 0 /\ v.good = 0 /\ v.files = t.files
          /\ v.seen = t.seen /\ v.idle = t.idle /\ v.errs = 0
      BY <1>0 DEF ReceiverState
    <2>3. TakeInfo(t, p) = Does(v, <<Header("ZRPOS", 0, v.pos)>>)
      BY <1>2 DEF TakeInfo, Rpos
    <2> HIDE DEF v
    <2>4. ReceiverTyped(xfer, v)
      BY <1>0, <2>1, <2>2 DEF ReceiverTyped, ReceiverBase, Limits, XferOK, Done
    <2> QED BY <1>2, <2>2, <2>3, <2>4 DEF ReceiverGoes, ReceiverMoves, Does
  <1> QED BY <1>1, <1>2

LEMMA TakeSubGoes ==
  ASSUME XferOK, Limits, NEW t, ReceiverTyped(xfer, t), t.pc = "sub", ~t.junk,
         NEW p, p.k = "sub", p.pos <= xfer.size
  PROVE  ReceiverGoes(xfer, t, p, TakeSub(t, p))
  <1> DEFINE next == t.good = t.pos /\ p.f = t.f /\ p.pos = t.pos + 1
             g == IF next THEN t.good + 1 ELSE t.good
             c == IF p.mark = "Q" THEN "sub" ELSE "data"
             v == [t EXCEPT !.errs = 0, !.skipped = FALSE, !.pos = @ + 1,
                            !.good = IF next THEN @ + 1 ELSE @,
                            !.pc = IF p.mark = "Q" THEN "sub" ELSE "data"]
  <1>0. ReceiverBase(xfer, t) /\ t \in ReceiverState /\ t.pos + 1 \in Nat /\ g \in Nat /\ c \in ReceiverPcs
    BY ReceiverTypes, Pcs DEF ReceiverTyped
  <1>g. g <= xfer.size
    BY <1>0 DEF ReceiverBase
  <1>1. v \in ReceiverState
    <2>1. v = [t EXCEPT !.errs = 0, !.skipped = FALSE, !.pos = t.pos + 1, !.good = g, !.pc = c]
      BY <1>0 DEF ReceiverState
    <2> HIDE DEF v, g, c
    <2> QED BY <1>0, <2>1 DEF ReceiverState
  <1>2. /\ v.pc = c /\ v.f = t.f /\ v.pos = t.pos + 1 /\ v.good = g /\ v.files = t.files
        /\ v.seen = t.seen /\ v.idle = t.idle /\ v.errs = 0
    BY <1>0 DEF ReceiverState
  <1>3. TakeSub(t, p) = Does(v, IF p.mark = "E" THEN <<>> ELSE <<Header("ZACK", 0, v.pos)>>)
    BY DEF TakeSub
  <1>4. g = IF t.good = t.pos /\ p.f = t.f /\ p.pos = t.pos + 1 THEN t.good + 1 ELSE t.good
    OBVIOUS
  <1>5. c \in {"sub", "data"}
    OBVIOUS
  <1> HIDE DEF v, g, c
  <1>6. ReceiverTyped(xfer, v)
    BY <1>0, <1>1, <1>2, <1>5, <1>g DEF ReceiverTyped, ReceiverBase, Limits, Done
  <1> QED BY <1>2, <1>3, <1>4, <1>5, <1>6 DEF ReceiverGoes, ReceiverMoves, Does

LEMMA TakeEofGoes ==
  ASSUME XferOK, Limits, NEW t, ReceiverTyped(xfer, t), t.pc = "data", NEW p, p.k = "ZEOF"
  PROVE  ReceiverGoes(xfer, t, p, TakeEof(t, p))
  <1>0. ReceiverBase(xfer, t) /\ t \in ReceiverState /\ t.seen > 0
    BY ReceiverTypes DEF ReceiverTyped, ReceiverBase
  <1> DEFINE n(b) == [t EXCEPT !.skipped = b]
  <1>n. ASSUME NEW b \in BOOLEAN
        PROVE  ReceiverTyped(xfer, n(b)) /\ Keeps(t, n(b)) /\ n(b).pc = "data" /\ n(b).seen > 0
    <2>1. n(b) \in ReceiverState
      BY <1>0 DEF ReceiverState
    <2>2. /\ n(b).pc = t.pc /\ n(b).f = t.f /\ n(b).pos = t.pos /\ n(b).good = t.good
          /\ n(b).files = t.files /\ n(b).seen = t.seen /\ n(b).idle = t.idle /\ n(b).errs = t.errs
      BY <1>0 DEF ReceiverState
    <2> QED BY <1>0, <2>1, <2>2 DEF ReceiverTyped, ReceiverBase, Keeps
  <1>1. CASE p.pos = t.pos
    <2> DEFINE e == [f |-> t.f, len |-> t.pos, good |-> t.good]
               w == [t EXCEPT !.pc = "wait", !.errs = 0, !.f = 0, !.pos = 0, !.good = 0]
               v == [w EXCEPT !.files = Append(@, e)]
    <2>1. w \in ReceiverState
      BY <1>0, ReceiverMade, ReceiverTypes, Pcs, ZenonT(60)
    <2>2. /\ w.pc = "wait" /\ w.f = 0 /\ w.pos = 0 /\ w.good = 0 /\ w.files = t.files
          /\ w.seen = t.seen /\ w.idle = t.idle /\ w.errs = 0
      BY <1>0 DEF ReceiverState
    <2>3. TakeEof(t, p) = Does(v, <<Plain("ZRINIT")>>)
      BY <1>1 DEF TakeEof, ToWait
    <2> HIDE DEF w
    <2>4. Append(t.files, e) \in FileEntries
      BY <1>0, ReceiverTypes DEF FileEntries, ReceiverState
    <2>5. v \in ReceiverState
      BY <2>1, <2>2, <2>4, ReceiverMade, Pcs
    <2>6. /\ v.pc = "wait" /\ v.f = 0 /\ v.pos = 0 /\ v.good = 0 /\ v.files = Append(t.files, e)
          /\ v.seen = t.seen /\ v.idle = t.idle /\ v.errs = 0
      BY <2>1, <2>2 DEF ReceiverState
    <2> HIDE DEF v
    <2>7. ReceiverTyped(xfer, v)
      BY <1>0, <2>5, <2>6 DEF ReceiverTyped, ReceiverBase, Limits, XferOK, Done
    <2> QED BY <1>1, <2>3, <2>6, <2>7 DEF ReceiverGoes, ReceiverMoves, Does
  <1>2. CASE p.pos # t.pos /\ t.skipped
    <2>1. TakeEof(t, p) = Nak(n(FALSE))
      BY <1>2 DEF TakeEof
    <2> HIDE DEF n
    <2> QED BY <1>n, <2>1, NakGoes
  <1>3. CASE p.pos # t.pos /\ ~t.skipped
    <2>1. TakeEof(t, p) = Retry(n(TRUE), <<>>)
      BY <1>3 DEF TakeEof
    <2> HIDE DEF n
    <2>2. ASSUME NEW w, Keeps(t, w), w.pc = "data"
          PROVE  ReceiverMoves(xfer, t, p, w, <<>>)
      BY <2>2 DEF ReceiverMoves
    <2> QED BY <1>n, <2>1, <2>2, RetryGoes
  <1> QED BY <1>1, <1>2, <1>3

LEMMA DataHeaderGoes ==
  ASSUME XferOK, Limits, NEW t, ReceiverTyped(xfer, t), t.pc = "data", NEW p
  PROVE  ReceiverGoes(xfer, t, p, DataHeader(t, p))
  <1>0. ReceiverBase(xfer, t) /\ t \in ReceiverState /\ Keeps(t, t) /\ t.seen > 0
    BY ReceiverTypes DEF ReceiverTyped, ReceiverBase, Keeps
  <1>n. ReceiverGoes(xfer, t, p, Nak(t))
    BY <1>0, NakGoes
  <1>1. CASE p.k = "ZDATA" /\ p.pos = t.pos
    <2> DEFINE v == [t EXCEPT !.pc = "sub"]
    <2>1. v \in ReceiverState
      BY <1>0, ReceiverMade, ReceiverTypes, Pcs, ZenonT(60)
    <2>2. /\ v.pc = "sub" /\ v.f = t.f /\ v.pos = t.pos /\ v.good = t.good /\ v.files = t.files
          /\ v.seen = t.seen /\ v.idle = t.idle /\ v.errs = t.errs
      BY <1>0 DEF ReceiverState
    <2>3. DataHeader(t, p) = Does(v, <<>>)
      BY <1>1 DEF DataHeader, TakeDataHeader
    <2> HIDE DEF v
    <2>4. ReceiverTyped(xfer, v) /\ Keeps(t, v)
      BY <1>0, <2>1, <2>2 DEF ReceiverTyped, ReceiverBase, Keeps, Done
    <2> QED BY <1>1, <2>2, <2>3, <2>4 DEF ReceiverGoes, ReceiverMoves, Does
  <1>2. CASE p.k = "ZEOF"
    BY <1>2, TakeEofGoes DEF DataHeader
  <1>3. CASE p.k = "ZRQINIT"
    <2>1. ASSUME NEW w, Keeps(t, w), w.pc = t.pc
          PROVE  ReceiverMoves(xfer, t, p, w, <<Plain("ZRINIT")>>)
      BY <1>3, <2>1 DEF ReceiverMoves
    <2>2. DataHeader(t, p) = Retry(t, <<Plain("ZRINIT")>>)
      BY <1>3 DEF DataHeader
    <2> QED BY <1>0, <2>1, <2>2, RetryGoes
  <1>4. CASE p.k \notin {"ZEOF", "ZRQINIT"} /\ ~(p.k = "ZDATA" /\ p.pos = t.pos)
    <2>1. DataHeader(t, p) = Nak(t)
      BY <1>4 DEF DataHeader, TakeDataHeader
    <2> QED BY <1>n, <2>1
  <1> QED BY <1>1, <1>2, <1>3, <1>4

LEMMA ReceiverNothingGoes ==
  ASSUME Limits, NEW t, ReceiverTyped(xfer, t), t.pc \notin Done, NEW p, NEW b
  PROVE  ReceiverGoes(xfer, t, p, ReceiverNothing(t, b))
  <1>0. ReceiverBase(xfer, t) /\ t \in ReceiverState /\ Keeps(t, t)
    BY ReceiverTypes DEF ReceiverTyped, Keeps
  <1>1. CASE t.pc = "wait"
    BY <1>1, WaitErrorGoes DEF ReceiverNothing
  <1>2. CASE t.pc = "info"
    BY <1>2, InfoErrorGoes DEF ReceiverNothing
  <1>3. CASE t.pc = "again"
    BY <1>3, AgainGoes DEF ReceiverNothing
  <1>4. CASE t.pc \in {"data", "sub"}
    BY <1>0, <1>4, NakGoes DEF ReceiverNothing
  <1> QED BY <1>0, <1>1, <1>2, <1>3, <1>4 DEF ReceiverState, ReceiverPcs, Done

\* A header or an Escape that is read into a subpacket.
LEMMA JunkGoes ==
  ASSUME Limits, NEW t, ReceiverTyped(xfer, t), t.pc \in {"info", "sub"}, NEW p
  PROVE  ReceiverGoes(xfer, t, p, Does([t EXCEPT !.junk = TRUE], <<>>))
  <1> DEFINE v == [t EXCEPT !.junk = TRUE]
  <1>0. ReceiverBase(xfer, t) /\ t \in ReceiverState
    BY ReceiverTypes DEF ReceiverTyped
  <1>1. v \in ReceiverState
    BY <1>0 DEF ReceiverState
  <1>2. /\ v.pc = t.pc /\ v.f = t.f /\ v.pos = t.pos /\ v.good = t.good /\ v.files = t.files
        /\ v.seen = t.seen /\ v.idle = t.idle /\ v.errs = t.errs /\ v.junk = TRUE
    BY <1>0 DEF ReceiverState
  <1>3. ReceiverTyped(xfer, v) /\ Keeps(t, v)
    <2> HIDE DEF v
    <2> QED BY <1>0, <1>1, <1>2 DEF ReceiverTyped, ReceiverBase, Keeps
  <1>4. ReceiverGoes(xfer, t, p, Does(v, <<>>))
    <2> HIDE DEF v
    <2> QED BY <1>2, <1>3 DEF ReceiverGoes, ReceiverMoves, Does
  <1> QED BY <1>4

\* A half that passes an item over.
Passes(t, d) == d.st = t /\ d.out = <<>>

LEMMA ReceiverItemGoes ==
  ASSUME XferOK, Limits, NEW t, ReceiverTyped(xfer, t), t.pc \notin Done,
         NEW p, p.k = "sub" => p.f \in 1..xfer.files /\ p.pos <= xfer.size
  PROVE  \/ ReceiverGoes(xfer, t, p, ReceiverItem(t, p))
         \/ Passes(t, ReceiverItem(t, p)) /\ t.pc \notin {"info", "sub"}
  <1>0. ReceiverBase(xfer, t) /\ t \in ReceiverState
    BY ReceiverTypes DEF ReceiverTyped
  <1>n. ReceiverGoes(xfer, t, p, ReceiverNothing(t, FALSE))
    BY ReceiverNothingGoes
  <1>1. CASE t.pc \in {"info", "sub"} /\ ~IsSub(p)
    BY <1>1, JunkGoes DEF ReceiverItem
  <1>2. CASE t.pc \in {"info", "sub"} /\ IsSub(p) /\ (~p.ok \/ t.junk)
    BY <1>2, <1>n DEF ReceiverItem
  <1>3. CASE t.pc \in {"info", "sub"} /\ IsSub(p) /\ ~(~p.ok \/ t.junk)
    <2>1. CASE t.pc = "info"
      BY <1>3, <2>1, TakeInfoGoes DEF ReceiverItem, IsSub
    <2>2. CASE t.pc = "sub"
      BY <1>3, <2>2, TakeSubGoes DEF ReceiverItem, IsSub
    <2> QED BY <1>3, <2>1, <2>2
  <1>4. CASE t.pc \notin {"info", "sub"} /\ IsSub(p)
    BY <1>4 DEF ReceiverItem, Passes, Does
  <1>5. CASE t.pc \notin {"info", "sub"} /\ ~IsSub(p) /\ ~p.ok
    BY <1>5, <1>n DEF ReceiverItem
  <1>6. CASE t.pc \notin {"info", "sub"} /\ ~IsSub(p) /\ p.ok
    <2>1. CASE t.pc = "wait"
      BY <1>6, <2>1, WaitHeaderGoes DEF ReceiverItem
    <2>2. CASE t.pc = "again"
      BY <1>6, <2>2, AgainGoes DEF ReceiverItem
    <2>3. CASE t.pc = "data"
      BY <1>6, <2>3, DataHeaderGoes DEF ReceiverItem
    <2> QED BY <1>0, <1>6, <2>1, <2>2, <2>3 DEF ReceiverState, ReceiverPcs, Done
  <1> QED BY <1>1, <1>2, <1>3, <1>4, <1>5, <1>6

-----------------------------------------------------------------------------
(* The invariant.                                                           *)

ItemTyped(x, p) ==
  /\ p \in Packet
  /\ p.k = "sub" => p.f \in 1..x.files /\ p.pos <= x.size
  /\ p.k = "ZEOF" => p.pos = x.size

\* The files listed have the length their ZEOF gave.
Listed(x, u) == \A i \in 1..Len(u.files) : u.files[i].len = x.size

HalvesTyped(x, t, u) ==
  /\ SenderTyped(x, t) /\ Further(x, t)
  /\ ReceiverTyped(x, u) /\ Listed(x, u)

ChannelsTyped(x, q, a) ==
  /\ q \in Seq(Packet) /\ a \in Seq(Packet)
  /\ \A i \in 1..Len(q) : ItemTyped(x, q[i])

IsCancel(p) == p.k \in {"CAN", "ESC"}
Staged(p) == p.k \in {"sub", "ZDATA", "ZEOF", "ZRQINIT"}
IsData(p) == p.k = "sub" /\ p.pos > 0

\* The stage something belongs to: an item of toR, the receiver, the sender.
Stage(p) == IF p.k = "sub" /\ p.pos = 0 THEN 2 * p.f - 2 ELSE 2 * p.f - 1
RStage(u) == IF u.f = 0 THEN 2 * Len(u.files) ELSE 2 * Len(u.files) + 1
SStage(x, t) ==
  CASE t.pc = "init" -> -1
    [] t.pc = "file" -> 2 * t.f - 2
    [] t.pc = "fin"  -> 2 * x.files
    [] OTHER         -> 2 * t.f - 1

FilesInv(x, u) ==
  /\ Len(u.files) <= x.files
  /\ \A i \in 1..Len(u.files) : u.files[i] = [f |-> i, len |-> x.size, good |-> x.size]
  /\ u.f # 0 => u.f = Len(u.files) + 1
  /\ u.good = u.pos

\* What the sender has sent and the receiver has not read.
ItemOK(x, t, u, p) ==
  Staged(p) =>
    /\ IF p.k = "ZRQINIT" THEN p.f = 0 ELSE p.f \in 1..x.files
    /\ p.pos \in 0..x.size /\ (p.k = "ZEOF" => p.pos = x.size)
    /\ RStage(u) - 1 <= Stage(p) /\ Stage(p) <= RStage(u)
    /\ t.pc \notin Done => Stage(p) <= SStage(x, t)
    /\ u.f # 0 /\ p.k = "sub" /\ p.f = u.f => p.pos <= u.pos + 1
    /\ u.pc \in {"info", "sub"} => RStage(u) <= Stage(p)

ItemsInv(x, t, u, q) == \A i \in 1..Len(q) : ItemOK(x, t, u, q[i])

OrderInv(q) ==
  \A i, j \in 1..Len(q) : i < j /\ Staged(q[i]) /\ Staged(q[j]) => Stage(q[i]) <= Stage(q[j])

\* A ZFILE is followed by its information, a ZDATA by the data at its position; data
\* follows the ZDATA or the data before it; a cancel is at the front or the last of all.
FrameInv(t, q) ==
  \A i \in 1..Len(q) :
    /\ q[i].k = "ZFILE" => i < Len(q) /\ q[i + 1].k = "sub" /\ q[i + 1].pos = 0
    /\ q[i].k = "ZDATA" =>
         i < Len(q) /\ q[i + 1].k = "sub" /\ q[i + 1].f = q[i].f /\ q[i + 1].pos = q[i].pos + 1
    /\ i > 1 /\ IsData(q[i]) =>
         \/ IsCancel(q[i - 1])
         \/ /\ q[i - 1].k \in {"ZDATA", "sub"}
            /\ q[i - 1].f = q[i].f /\ q[i - 1].pos + 1 = q[i].pos
    /\ i > 1 /\ IsCancel(q[i]) => IsCancel(q[i - 1]) \/ (i = Len(q) /\ t.pc \in Done)

\* The next data a receiver in a frame sees is not what it has already.
SubInv(u, q) ==
  u.pc = "sub" /\ ~u.junk =>
    \A i \in 1..Len(q) :
      q[i].k = "sub" /\ (\A j \in 1..i - 1 : IsCancel(q[j])) => q[i].pos >= u.pos + 1

PosInv(x, t, u, a) ==
  t.pc \notin Done =>
    /\ RStage(u) - 1 <= SStage(x, t) /\ SStage(x, t) <= RStage(u)
    /\ u.f # 0 /\ SStage(x, t) = RStage(u) => t.pos <= u.pos
    /\ u.f # 0 => \A i \in 1..Len(a) : a[i].k \in {"ZRPOS", "ZACK"} => a[i].pos <= u.pos
    /\ u.pc \in {"info", "sub"} => SStage(x, t) = RStage(u)

\* The answers a receiver at the sender's stage gives, and one at the stage to come.
Asks(t) == t.pc \in {"file", "fin"}
Coming(t, p) == IF Asks(t) THEN p.k \in {"ZRPOS", "ZACK"} ELSE p.k = "ZRINIT"
Current(t, p) == IF Asks(t) THEN p.k = "ZRINIT" ELSE p.k \in {"ZRPOS", "ZACK"}

AnswerInv(x, t, u, a) ==
  t.pc \notin Done =>
    \A i \in 1..Len(a) :
      /\ a[i].k # "ZSKIP"
      /\ Coming(t, a[i]) => /\ RStage(u) = SStage(x, t) + 1
                            /\ \A j \in 1..Len(a) : j > i => ~Current(t, a[j])

\* A sender that waits for a ZACK has its chunk last in the channel, and a receiver in
\* the frame is not past that chunk when nothing is left to read.
RunInv(t, u, q, b) ==
  t.pc = "data" /\ b /\ u.pc \notin Done =>
    /\ Len(q) > 0 =>
         \/ IsCancel(q[Len(q)])
         \/ q[Len(q)].k = "sub" /\ q[Len(q)].f = t.f /\ q[Len(q)].pos = t.pos + 1
    /\ u.pc = "sub" /\ ~u.junk /\ (\A i \in 1..Len(q) : IsCancel(q[i])) => u.pos <= t.pos + 1

FinInv(x, t, u) == t.pc \in {"fin", "ok"} => Len(u.files) = x.files

StepInv(x, t, u, q, a, b) ==
  /\ FilesInv(x, u) /\ ItemsInv(x, t, u, q) /\ OrderInv(q) /\ FrameInv(t, q) /\ SubInv(u, q)
  /\ PosInv(x, t, u, a) /\ AnswerInv(x, t, u, a) /\ RunInv(t, u, q, b) /\ FinInv(x, t, u)

\* The batches the theorems about the bytes are for: no file is turned down.
TakesAll == xfer.skip = {}

Inv ==
  /\ xfer \in Transfers
  /\ HalvesTyped(xfer, s, r) /\ ChannelsTyped(xfer, toR, toS)
  /\ TakesAll /\ ~amiss => StepInv(xfer, s, r, toR, toS, up)

-----------------------------------------------------------------------------
(* What the sender's moves have in common.                                   *)

NewItem(x, v, e) ==
  /\ ItemTyped(x, e)
  /\ Staged(e) =>
       /\ e.f = IF e.k = "ZRQINIT" THEN 0 ELSE v.f
       /\ e.pos \in 0..x.size /\ (e.k = "ZEOF" => e.pos = x.size)
       /\ Stage(e) = SStage(x, v)
       /\ e.k = "sub" => e.pos <= v.pos + 1

\* The frames of what is written; data that comes first goes on behind the chunk before.
NewFrames(t, v, out) ==
  /\ \A i \in 1..Len(out) :
       /\ out[i].k = "ZFILE" => i < Len(out) /\ out[i + 1].k = "sub" /\ out[i + 1].pos = 0
       /\ out[i].k = "ZDATA" =>
            /\ i < Len(out) /\ out[i + 1].k = "sub" /\ out[i + 1].f = out[i].f
            /\ out[i + 1].pos = out[i].pos + 1
       /\ i > 1 /\ IsData(out[i]) =>
            /\ out[i - 1].k \in {"ZDATA", "sub"}
            /\ out[i - 1].f = out[i].f /\ out[i - 1].pos + 1 = out[i].pos
       /\ IsCancel(out[i]) => i = Len(out) /\ v.pc \in Done
  /\ Len(out) > 0 /\ out[1].k = "sub" =>
       t.pc = "data" /\ out[1].f = t.f /\ out[1].pos = t.pos + 2
  /\ v.pc = "data" =>
       \/ t.pc = "data" /\ v.f = t.f /\ v.pos = t.pos /\ Len(out) = 0
       \/ /\ Len(out) > 0
          /\ out[Len(out)].k = "sub" /\ out[Len(out)].f = v.f /\ out[Len(out)].pos = v.pos + 1

\* The sender stays at its stage, or goes to the next one on an answer from there.
NewStage(x, t, p, v) ==
  \/ /\ SStage(x, v) = SStage(x, t) /\ Asks(v) = Asks(t)
     /\ Asks(v) \/ v.pos <= t.pos \/ (p.k \in {"ZRPOS", "ZACK"} /\ v.pos <= p.pos)
     /\ v.pc = "fin" => t.pc = "fin"
  \/ /\ SStage(x, v) = SStage(x, t) + 1 /\ Asks(v) # Asks(t)
     /\ Coming(t, p)
     /\ ~Asks(v) => v.pos <= p.pos

\* The sender goes on, with or without success; only one that ends may be of no stage.
SenderStage(x, t, p, v, out) ==
  /\ v.pc = "ok" => t.pc = "fin" /\ Len(out) = 0
  /\ \/ v.pc \in Done /\ \A i \in 1..Len(out) : ~Staged(out[i])
     \/ v.pc # "ok" /\ NewStage(x, t, p, v)

Sent(x, t, v, out) ==
  /\ out \in Seq(Packet) /\ \A i \in 1..Len(out) : NewItem(x, v, out[i])
  /\ NewFrames(t, v, out)

LEMMA NoItems ==
  ASSUME NEW x, NEW t, NEW v, v.pc = "data" => Stay(t, v)
  PROVE  Sent(x, t, v, <<>>)
  <1>1. <<>> \in Seq(Packet) /\ Len(<<>>) = 0
    OBVIOUS
  <1> QED BY <1>1 DEF Sent, NewFrames, Stay

LEMMA CancelSent ==
  ASSUME NEW x, NEW t, NEW v, v.pc \in Done
  PROVE  Sent(x, t, v, <<CancelItem>>)
  <1> DEFINE o == <<CancelItem>>
  <1>1. o \in Seq(Packet) /\ Len(o) = 1 /\ o[1] = CancelItem /\ CancelItem.k = "CAN"
    BY Made, TupleFacts DEF CancelItem
  <1>2. CancelItem \in Packet
    BY Made
  <1> HIDE DEF o
  <1>3. \A i \in 1..Len(o) : NewItem(x, v, o[i])
    BY <1>1, <1>2 DEF NewItem, Staged, ItemTyped
  <1>4. NewFrames(t, v, o)
    BY <1>1 DEF NewFrames, IsData, IsCancel, Done
  <1> QED BY <1>1, <1>3, <1>4 DEF Sent, o

LEMMA ItemsSent ==
  ASSUME XferOK, NEW v, SenderTyped(xfer, v), NEW m \in {"E", "Q", "W"}
  PROVE  /\ v.pc = "init" => NewItem(xfer, v, Plain("ZRQINIT"))
         /\ NewItem(xfer, v, Plain("ZFILE")) /\ NewItem(xfer, v, Plain("ZFIN"))
         /\ NewItem(xfer, v, CancelItem)
         /\ v.pc = "file" => NewItem(xfer, v, Subpacket(v.f, 0, "W"))
         /\ v.pc \in {"data", "eof", "err"} =>
              /\ NewItem(xfer, v, Header("ZEOF", v.f, xfer.size))
              /\ NewItem(xfer, v, Header("ZDATA", v.f, v.pos))
              /\ v.pos < xfer.size => NewItem(xfer, v, DataSub(v, m))
  <1>0. v.f \in Nat /\ v.f \in 1..xfer.files /\ v.pos \in Nat /\ v.pos <= xfer.size /\ xfer.size \in Nat
    BY DEF SenderTyped, SenderState, XferOK
  <1>1. v.pc = "init" => NewItem(xfer, v, Plain("ZRQINIT"))
    <2>1. Plain("ZRQINIT") \in Packet
      BY Made DEF HeaderKinds
    <2> QED BY <1>0, <2>1 DEF NewItem, ItemTyped, Plain, Header, Stage, SStage, Staged
  <1>2. NewItem(xfer, v, Plain("ZFILE")) /\ NewItem(xfer, v, Plain("ZFIN"))
    <2>1. Plain("ZFILE") \in Packet /\ Plain("ZFIN") \in Packet
      BY Made DEF HeaderKinds
    <2> QED BY <2>1 DEF NewItem, ItemTyped, Plain, Header, Staged
  <1>3. NewItem(xfer, v, CancelItem)
    BY Made DEF NewItem, ItemTyped, CancelItem, Staged
  <1>4. v.pc = "file" => NewItem(xfer, v, Subpacket(v.f, 0, "W"))
    <2>1. Subpacket(v.f, 0, "W") \in Packet
      BY <1>0, Made
    <2> QED BY <1>0, <2>1 DEF NewItem, ItemTyped, Subpacket, Stage, SStage, Staged
  <1>5. ASSUME v.pc \in {"data", "eof", "err"}
        PROVE  /\ NewItem(xfer, v, Header("ZEOF", v.f, xfer.size))
               /\ NewItem(xfer, v, Header("ZDATA", v.f, v.pos))
    <2>1. Header("ZEOF", v.f, xfer.size) \in Packet /\ Header("ZDATA", v.f, v.pos) \in Packet
      BY <1>0, Made DEF HeaderKinds
    <2> QED BY <1>0, <1>5, <2>1 DEF NewItem, ItemTyped, Header, Stage, SStage, Staged
  <1>6. ASSUME v.pc \in {"data", "eof", "err"}, v.pos < xfer.size
        PROVE  NewItem(xfer, v, DataSub(v, m))
    <2>1. DataSub(v, m) \in Packet
      BY <1>0, Made DEF DataSub
    <2> QED BY <1>0, <1>6, <2>1 DEF NewItem, ItemTyped, DataSub, Subpacket, Stage, SStage, Staged
  <1> QED BY <1>1, <1>2, <1>3, <1>4, <1>5, <1>6

\* The kinds of what is sent.
LEMMA SentFields ==
  ASSUME NEW v, NEW x, NEW m
  PROVE  /\ CancelItem.k = "CAN" /\ Plain("ZFILE").k = "ZFILE" /\ Plain("ZFIN").k = "ZFIN"
         /\ Plain("ZRQINIT").k = "ZRQINIT"
         /\ Subpacket(v.f, 0, "W").k = "sub" /\ Subpacket(v.f, 0, "W").pos = 0
         /\ Header("ZEOF", v.f, x.size).k = "ZEOF"
         /\ Header("ZDATA", v.f, v.pos).k = "ZDATA" /\ Header("ZDATA", v.f, v.pos).f = v.f
         /\ Header("ZDATA", v.f, v.pos).pos = v.pos
         /\ DataSub(v, m).k = "sub" /\ DataSub(v, m).f = v.f /\ DataSub(v, m).pos = v.pos + 1
  BY DEF CancelItem, Plain, Header, Subpacket, DataSub

LEMMA FirstFrames ==
  ASSUME XferOK, NEW t, NEW v, SenderTyped(xfer, v)
  PROVE  /\ v.pc = "init" => Sent(xfer, t, v, <<Plain("ZRQINIT")>>)
         /\ v.pc = "file" => Sent(xfer, t, v, <<Plain("ZFILE"), Subpacket(v.f, 0, "W")>>)
         /\ v.pc = "fin" => Sent(xfer, t, v, <<Plain("ZFIN")>>)
         /\ v.pc = "eof" => Sent(xfer, t, v, <<Header("ZEOF", v.f, xfer.size)>>)
  <1>1. ASSUME NEW e, NewItem(xfer, v, e), e.k \in {"ZRQINIT", "ZFIN", "ZEOF"}, v.pc # "data"
        PROVE  Sent(xfer, t, v, <<e>>)
    <2> DEFINE o == <<e>>
    <2>1. e \in Packet
      BY <1>1 DEF NewItem, ItemTyped
    <2>2. o \in Seq(Packet) /\ Len(o) = 1 /\ o[1] = e
      BY <2>1, TupleFacts
    <2> HIDE DEF o
    <2>3. Sent(xfer, t, v, o)
      BY <1>1, <2>2 DEF Sent, NewFrames, IsData, IsCancel
    <2> QED BY <2>3 DEF o
  <1>2. ASSUME v.pc = "file"
        PROVE  Sent(xfer, t, v, <<Plain("ZFILE"), Subpacket(v.f, 0, "W")>>)
    <2> DEFINE e == Plain("ZFILE")
               g == Subpacket(v.f, 0, "W")
               o == <<e, g>>
    <2>0. e.k = "ZFILE" /\ g.k = "sub" /\ g.pos = 0
      BY SentFields
    <2>1. NewItem(xfer, v, e) /\ NewItem(xfer, v, g)
      BY <1>2, ItemsSent
    <2> HIDE DEF e, g
    <2>2. e \in Packet /\ g \in Packet
      BY <2>1 DEF NewItem, ItemTyped
    <2>3. o \in Seq(Packet) /\ Len(o) = 2 /\ o[1] = e /\ o[2] = g
      BY <2>2, TupleFacts
    <2> HIDE DEF o
    <2>4. Sent(xfer, t, v, o)
      BY <1>2, <2>0, <2>1, <2>3 DEF Sent, NewFrames, IsData, IsCancel
    <2> QED BY <2>4 DEF o, e, g
  <1>3. /\ v.pc = "init" => NewItem(xfer, v, Plain("ZRQINIT"))
        /\ NewItem(xfer, v, Plain("ZFIN"))
        /\ v.pc = "eof" => NewItem(xfer, v, Header("ZEOF", v.f, xfer.size))
    BY ItemsSent
  <1>4. /\ Plain("ZRQINIT").k = "ZRQINIT" /\ Plain("ZFIN").k = "ZFIN"
        /\ Header("ZEOF", v.f, xfer.size).k = "ZEOF"
    BY SentFields
  <1> QED BY <1>1, <1>2, <1>3, <1>4

LEMMA DataFrames ==
  ASSUME XferOK, NEW t, NEW v, SenderTyped(xfer, v), v.pos < xfer.size, NEW m \in {"E", "Q", "W"},
         v.pc \in {"data", "eof", "err"}, NEW e \in {CancelItem, Header("ZEOF", v.f, xfer.size)}
  PROVE  /\ v.pc = "data" => Sent(xfer, t, v, <<Header("ZDATA", v.f, v.pos), DataSub(v, m)>>)
         /\ Ending(xfer, v, e) => Sent(xfer, t, v, <<Header("ZDATA", v.f, v.pos), DataSub(v, m), e>>)
         /\ t.pc = "data" /\ t.f = v.f /\ v.pos = t.pos + 1 /\ t.pos \in Nat =>
              /\ v.pc = "data" => Sent(xfer, t, v, <<DataSub(v, m)>>)
              /\ Ending(xfer, v, e) => Sent(xfer, t, v, <<DataSub(v, m), e>>)
  <1> DEFINE h == Header("ZDATA", v.f, v.pos)
             d == DataSub(v, m)
  <1>0. h.k = "ZDATA" /\ h.f = v.f /\ h.pos = v.pos /\ d.k = "sub" /\ d.f = v.f /\ d.pos = v.pos + 1
    BY SentFields
  <1>1. NewItem(xfer, v, h) /\ NewItem(xfer, v, d) /\ NewItem(xfer, v, e)
    BY ItemsSent
  <1>2. h \in Packet /\ d \in Packet /\ e \in Packet
    BY <1>1 DEF NewItem, ItemTyped
  <1>3. e.k \in {"CAN", "ZEOF"} /\ (Ending(xfer, v, e) => v.pc # "data" /\ (e.k = "CAN" => v.pc = "err"))
    BY SentFields DEF Ending
  <1> HIDE DEF h, d
  <1>4. ASSUME v.pc = "data" PROVE Sent(xfer, t, v, <<h, d>>)
    <2> DEFINE o == <<h, d>>
    <2>1. o \in Seq(Packet) /\ Len(o) = 2 /\ o[1] = h /\ o[2] = d
      BY <1>2, TupleFacts
    <2> HIDE DEF o
    <2>2. Sent(xfer, t, v, o)
      BY <1>0, <1>1, <1>4, <2>1 DEF Sent, NewFrames, IsData, IsCancel
    <2> QED BY <2>2 DEF o
  <1>5. ASSUME Ending(xfer, v, e) PROVE Sent(xfer, t, v, <<h, d, e>>)
    <2> DEFINE o == <<h, d, e>>
    <2>1. o \in Seq(Packet) /\ Len(o) = 3 /\ o[1] = h /\ o[2] = d /\ o[3] = e
      BY <1>2, TupleFacts
    <2> HIDE DEF o
    <2>2. Sent(xfer, t, v, o)
      <3>1. \A i \in 1..Len(o) : i = 1 \/ i = 2 \/ i = 3
        BY <2>1
      <3>2. \A i \in 1..Len(o) : NewItem(xfer, v, o[i])
        BY <1>1, <2>1, <3>1
      <3>3. NewFrames(t, v, o)
        BY <1>0, <1>3, <1>5, <2>1, <3>1 DEF NewFrames, IsData, IsCancel, Done
      <3> QED BY <2>1, <3>2, <3>3 DEF Sent
    <2> QED BY <2>2 DEF o
  <1>6. ASSUME t.pc = "data", t.f = v.f, v.pos = t.pos + 1, t.pos \in Nat, v.pc = "data"
        PROVE  Sent(xfer, t, v, <<d>>)
    <2> DEFINE o == <<d>>
    <2>1. o \in Seq(Packet) /\ Len(o) = 1 /\ o[1] = d
      BY <1>2, TupleFacts
    <2> HIDE DEF o
    <2>2. Sent(xfer, t, v, o)
      BY <1>0, <1>1, <1>6, <2>1 DEF Sent, NewFrames, IsData, IsCancel
    <2> QED BY <2>2 DEF o
  <1>7. ASSUME t.pc = "data", t.f = v.f, v.pos = t.pos + 1, t.pos \in Nat, Ending(xfer, v, e)
        PROVE  Sent(xfer, t, v, <<d, e>>)
    <2> DEFINE o == <<d, e>>
    <2>1. o \in Seq(Packet) /\ Len(o) = 2 /\ o[1] = d /\ o[2] = e
      BY <1>2, TupleFacts
    <2> HIDE DEF o
    <2>2. Sent(xfer, t, v, o)
      BY <1>0, <1>1, <1>3, <1>7, <2>1 DEF Sent, NewFrames, IsData, IsCancel, Done
    <2> QED BY <2>2 DEF o
  <1> QED BY <1>4, <1>5, <1>6, <1>7 DEF h, d

LEMMA SenderSends ==
  ASSUME XferOK, NEW t, SenderTyped(xfer, t), t.pc \notin Done,
         NEW v, SenderTyped(xfer, v), Further(xfer, v), NEW p, NEW out,
         SenderMoves(xfer, t, p, v, out)
  PROVE  Sent(xfer, t, v, out)
  <1>0. t.pos \in Nat /\ v.pos \in Nat /\ xfer.size \in Nat
    BY DEF SenderTyped, SenderState, XferOK
  <1>1. CASE Stay(t, v) /\ out = <<>>
    BY <1>1, NoItems
  <1>2. CASE v.pc = "err" /\ out \in {<<>>, <<CancelItem>>}
    BY <1>2, NoItems, CancelSent DEF Done
  <1>3. CASE t.pc = "fin" /\ v.pc = "ok" /\ out = <<>>
    BY <1>3, NoItems
  <1>4. CASE t.pc = "init" /\ Stay(t, v) /\ out = <<Plain("ZRQINIT")>>
    BY <1>4, FirstFrames DEF Stay
  <1>5. CASE v.pc = "file" /\ out = <<Plain("ZFILE"), Subpacket(v.f, 0, "W")>>
    BY <1>5, FirstFrames
  <1>6. CASE v.pc = "fin" /\ out = <<Plain("ZFIN")>>
    BY <1>6, FirstFrames
  <1>7. CASE v.pc = "eof" /\ out = <<Header("ZEOF", v.f, xfer.size)>>
    BY <1>7, FirstFrames
  <1>8. ASSUME v.pc = "data", NEW m \in {"Q", "W"}, out = <<Header("ZDATA", v.f, v.pos), DataSub(v, m)>>
        PROVE  Sent(xfer, t, v, out)
    <2>1. v.pos < xfer.size
      BY <1>0, <1>8 DEF Further
    <2> QED BY <1>8, <2>1, DataFrames
  <1>9. ASSUME v.pos < xfer.size, NEW e \in {CancelItem, Header("ZEOF", v.f, xfer.size)},
               Ending(xfer, v, e), out = <<Header("ZDATA", v.f, v.pos), DataSub(v, "E"), e>>
        PROVE  Sent(xfer, t, v, out)
    BY <1>9, DataFrames DEF Ending
  <1>10. ASSUME v.pc = "data", t.pc = "data", v.f = t.f, v.pos = t.pos + 1,
                NEW m \in {"Q", "W"}, out = <<DataSub(v, m)>>
         PROVE  Sent(xfer, t, v, out)
    <2>1. v.pos < xfer.size
      BY <1>0, <1>10 DEF Further
    <2> QED BY <1>0, <1>10, <2>1, DataFrames
  <1>11. ASSUME t.pc = "data", v.f = t.f, v.pos = t.pos + 1, v.pos < xfer.size,
                NEW e \in {CancelItem, Header("ZEOF", v.f, xfer.size)},
                Ending(xfer, v, e), out = <<DataSub(v, "E"), e>>
         PROVE  Sent(xfer, t, v, out)
    BY <1>0, <1>11, DataFrames DEF Ending
  <1> QED BY <1>1, <1>2, <1>3, <1>4, <1>5, <1>6, <1>7, <1>8, <1>9, <1>10, <1>11
          DEF SenderMoves, AtData

LEMMA SenderStages ==
  ASSUME XferOK, NEW t, SenderTyped(xfer, t), Further(xfer, t), t.pc \notin Done,
         NEW v, SenderTyped(xfer, v), NEW p, p.k # "ZSKIP", NEW out,
         SenderMoves(xfer, t, p, v, out)
  PROVE  SenderStage(xfer, t, p, v, out)
  <1>0. /\ t.pos \in Nat /\ v.pos \in Nat /\ t.f \in Nat /\ v.f \in Nat /\ xfer.files \in Nat
        /\ t.pc \in SenderPcs /\ v.pc \in SenderPcs
    BY DEF SenderTyped, SenderState, XferOK
  <1>1. CASE Stay(t, v)
    BY <1>0, <1>1 DEF Stay, SenderStage, NewStage, SStage, Asks, Done
  <1>2. CASE /\ v.pc = "err" \/ (v.pc = "ok" /\ t.pc = "fin" /\ out = <<>>)
             /\ out \in {<<>>, <<CancelItem>>}
    <2>1. \A i \in 1..Len(out) : out[i] = CancelItem
      BY <1>2
    <2>2. out = <<>> => Len(out) = 0
      OBVIOUS
    <2> QED BY <1>2, <2>1, <2>2, SentFields DEF SenderStage, Staged, Done
  <1>3. CASE v.pc = "file" /\ AtFile(xfer, t, p, v)
    BY <1>0, <1>3 DEF AtFile, Further, MovesOn, SenderStage, NewStage, SStage, Asks, Coming, Done
  <1>4. CASE v.pc = "fin" /\ t.f = xfer.files /\ v.f = t.f /\ MovesOn(t, p)
    BY <1>0, <1>4 DEF MovesOn, SenderStage, NewStage, SStage, Asks, Coming, Done
  <1>5. CASE v.pc \in {"data", "eof", "err"} /\ AtData(t, p, v)
    BY <1>0, <1>5 DEF AtData, SenderStage, NewStage, SStage, Asks, Coming, Done
  <1> QED BY <1>1, <1>2, <1>3, <1>4, <1>5 DEF SenderMoves, Ending

-----------------------------------------------------------------------------
(* A step of the sender: v is its new state, z what is in the channel to the  *)
(* receiver then and b what is left in the channel to the sender.            *)

Writes(b, t, q, out, z) == z = IF b /\ t.pc \notin Done THEN q \o out ELSE q
Reads(a, p, b) == (b = a /\ p = None) \/ (a # <<>> /\ p = Head(a) /\ b = Tail(a))

Extended(l, u, q, out, z) ==
  /\ z \in Seq(Packet) /\ Len(q) \in Nat /\ Len(z) \in Nat /\ Len(out) \in Nat
  /\ Len(q) <= Len(z)
  /\ \A i \in 1..Len(q) : z[i] = q[i]
  /\ \/ z = q /\ ~(l /\ u.pc \notin Done)
     \/ /\ l /\ u.pc \notin Done /\ Len(z) = Len(q) + Len(out)
        /\ \A i \in 1..Len(z) : i > Len(q) => i - Len(q) \in 1..Len(out) /\ z[i] = out[i - Len(q)]

Left(a, p, b) ==
  /\ b \in Seq(Packet) /\ Len(a) \in Nat /\ Len(b) \in Nat
  /\ \/ b = a /\ p = None
     \/ /\ Len(a) > 0 /\ p = a[1] /\ Len(b) = Len(a) - 1 /\ p \in Packet
        /\ \A i \in 1..Len(b) : b[i] = a[i + 1]

LEMMA Written ==
  ASSUME NEW l, NEW u, NEW q \in Seq(Packet), NEW out \in Seq(Packet), NEW z, Writes(l, u, q, out, z)
  PROVE  Extended(l, u, q, out, z)
  <1>1. CASE l /\ u.pc \notin Done
    <2>1. z = q \o out
      BY <1>1 DEF Writes
    <2> QED BY <1>1, <2>1, ConcatFacts DEF Extended
  <1>2. CASE ~(l /\ u.pc \notin Done)
    <2>1. z = q
      BY <1>2 DEF Writes
    <2> QED BY <1>2, <2>1 DEF Extended
  <1> QED BY <1>1, <1>2

LEMMA Rest ==
  ASSUME NEW a \in Seq(Packet), NEW p, NEW b, Reads(a, p, b)
  PROVE  Left(a, p, b)
  BY TailFacts DEF Reads, Left

LEMMA Ranges ==
  ASSUME XferOK, NEW t, NEW u, HalvesTyped(xfer, t, u)
  PROVE  /\ RStage(u) \in Nat /\ SStage(xfer, t) \in Int /\ Len(u.files) \in Nat
         /\ t.pos \in Nat /\ t.f \in Nat /\ u.pos \in Nat /\ u.f \in Nat
         /\ t.pc \in SenderPcs /\ u.pc \in ReceiverPcs
  <1>1. /\ t.pos \in Nat /\ t.f \in Nat /\ u.pos \in Nat /\ u.f \in Nat
        /\ t.pc \in SenderPcs /\ u.pc \in ReceiverPcs /\ xfer.files \in Nat
        /\ u.files \in Seq([f : Nat, len : Nat, good : Nat])
    BY DEF HalvesTyped, SenderTyped, SenderState, ReceiverTyped, ReceiverBase, ReceiverState, XferOK
  <1>2. Len(u.files) \in Nat
    BY <1>1
  <1>3. RStage(u) \in Nat
    <2>1. RStage(u) = 2 * Len(u.files) \/ RStage(u) = 2 * Len(u.files) + 1
      BY <1>2 DEF RStage
    <2> QED BY <1>2, <2>1
  <1>4. SStage(xfer, t) \in {-1, 2 * t.f - 2, 2 * xfer.files, 2 * t.f - 1}
    BY DEF SStage
  <1>5. SStage(xfer, t) \in Int
    BY <1>1, <1>4
  <1> QED BY <1>1, <1>2, <1>3, <1>5

LEMMA Parity ==
  ASSUME NEW m \in Int, NEW n \in Int
  PROVE  /\ 2 * m - 1 <= 2 * n - 2 /\ 2 * n - 2 <= 2 * m => n = m + 1
         /\ (2 * m + 1) - 1 <= 2 * n - 1 /\ 2 * n - 1 <= 2 * m + 1 => n = m + 1
         /\ 2 * m + 1 # 2 * n - 2 /\ (2 * m + 1 = 2 * n - 1 => n = m + 1)
  OBVIOUS

LEMMA Squeeze ==
  ASSUME NEW m \in Int, NEW n \in Int
  PROVE  /\ m <= n /\ n <= m => m = n
         /\ m - 1 <= n /\ n <= m /\ m # n => m = n + 1
  OBVIOUS

LEMMA ItemRange ==
  ASSUME NEW p \in Packet
  PROVE  Staged(p) => Stage(p) \in Int /\ p.f \in Nat /\ p.pos \in Nat
  BY PacketFields DEF Staged, Stage

LEMMA SenderKeeps ==
  ASSUME XferOK, NEW t, NEW u, NEW v, HalvesTyped(xfer, t, u), HalvesTyped(xfer, v, u),
         NEW q, NEW a, ChannelsTyped(xfer, q, a), NEW l, StepInv(xfer, t, u, q, a, l), t.pc \notin Done,
         NEW p, NEW out, SenderMoves(xfer, t, p, v, out),
         NEW z, Writes(l, u, q, out, z), NEW b, Reads(a, p, b)
  PROVE  StepInv(xfer, v, u, z, b, l)
  <1>q. q \in Seq(Packet) /\ a \in Seq(Packet)
    BY DEF ChannelsTyped
  <1>s. Sent(xfer, t, v, out)
    BY SenderSends DEF HalvesTyped
  <1>o. out \in Seq(Packet)
    BY <1>s DEF Sent
  <1>z. Extended(l, u, q, out, z)
    BY <1>q, <1>o, Written
  <1>b. Left(a, p, b)
    BY <1>q, Rest
  <1>k. p.k # "ZSKIP"
    BY <1>b DEF StepInv, AnswerInv, None, Left
  <1>g. SenderStage(xfer, t, p, v, out)
    BY <1>k, SenderStages DEF HalvesTyped
  <1>r. /\ RStage(u) \in Nat /\ SStage(xfer, t) \in Int /\ SStage(xfer, v) \in Int
        /\ Len(u.files) \in Nat /\ u.pos \in Nat /\ u.f \in Nat
        /\ t.pos \in Nat /\ v.pos \in Nat /\ t.f \in Nat /\ v.f \in Nat
    BY Ranges
  <1>n. \A i \in 1..Len(out) : NewItem(xfer, v, out[i])
    BY <1>s DEF Sent
  <1>p. PosInv(xfer, t, u, a) /\ AnswerInv(xfer, t, u, a)
    BY DEF StepInv
  \* The new stage, of a sender that ends too.
  <1>w. NewStage(xfer, t, p, v) =>
          /\ SStage(xfer, t) <= SStage(xfer, v)
          /\ RStage(u) - 1 <= SStage(xfer, v) /\ SStage(xfer, v) <= RStage(u)
          /\ u.f # 0 /\ SStage(xfer, v) = RStage(u) => v.pos <= u.pos
          /\ u.pc \in {"info", "sub"} => SStage(xfer, v) = RStage(u)
    <2> SUFFICES ASSUME NewStage(xfer, t, p, v)
                 PROVE  /\ SStage(xfer, t) <= SStage(xfer, v)
                        /\ RStage(u) - 1 <= SStage(xfer, v) /\ SStage(xfer, v) <= RStage(u)
                        /\ u.f # 0 /\ SStage(xfer, v) = RStage(u) => v.pos <= u.pos
                        /\ u.pc \in {"info", "sub"} => SStage(xfer, v) = RStage(u)
      OBVIOUS
    <2>1. /\ RStage(u) - 1 <= SStage(xfer, t) /\ SStage(xfer, t) <= RStage(u)
          /\ u.f # 0 /\ SStage(xfer, t) = RStage(u) => t.pos <= u.pos
          /\ u.f # 0 /\ p.k \in {"ZRPOS", "ZACK"} => p.pos <= u.pos /\ p.pos \in Nat
          /\ u.pc \in {"info", "sub"} => SStage(xfer, t) = RStage(u)
      BY <1>p, <1>b, PacketFields DEF PosInv, None, Left
    <2>2. Coming(t, p) => RStage(u) = SStage(xfer, t) + 1
      BY <1>p, <1>b DEF AnswerInv, Coming, None, Left
    <2>3. u.f # 0 /\ SStage(xfer, v) = RStage(u) => ~Asks(v)
      <3>1. u.f # 0 => RStage(u) = 2 * Len(u.files) + 1
        BY DEF RStage
      <3>2. v.pc = "file" => SStage(xfer, v) = 2 * v.f - 2
        BY DEF SStage
      <3>3. v.pc = "fin" => SStage(xfer, v) = 2 * xfer.files
        BY DEF SStage
      <3> QED BY <1>r, <3>1, <3>2, <3>3 DEF Asks, XferOK
    <2>4. CASE SStage(xfer, v) = SStage(xfer, t)
      BY <1>r, <2>1, <2>3, <2>4 DEF NewStage
    <2>5. CASE SStage(xfer, v) = SStage(xfer, t) + 1
      <3>1. Coming(t, p) /\ (~Asks(v) => v.pos <= p.pos)
        BY <1>r, <2>5 DEF NewStage
      <3>2. ~Asks(v) /\ u.f # 0 => p.k \in {"ZRPOS", "ZACK"}
        BY <1>r, <2>5, <3>1 DEF NewStage, Coming, Asks
      <3> QED BY <1>r, <2>1, <2>2, <2>3, <2>5, <3>1, <3>2
    <2> QED BY <2>4, <2>5 DEF NewStage
  <1>1. FilesInv(xfer, u)
    BY DEF StepInv
  <1>2. ItemsInv(xfer, v, u, z)
    <2> SUFFICES ASSUME NEW i \in 1..Len(z) PROVE ItemOK(xfer, v, u, z[i])
      BY DEF ItemsInv
    <2>1. CASE i <= Len(q)
      <3>1. ItemOK(xfer, t, u, q[i]) /\ z[i] = q[i] /\ q[i] \in Packet
        BY <1>q, <1>z, <2>1 DEF StepInv, ItemsInv, Extended
      <3>2. v.pc \notin Done => SStage(xfer, t) <= SStage(xfer, v)
        BY <1>g, <1>w DEF SenderStage
      <3> QED BY <1>r, <3>1, <3>2, ItemRange DEF ItemOK
    <2>2. CASE i > Len(q)
      <3>1. PICK k \in 1..Len(out) : z[i] = out[k]
        BY <1>z, <2>2 DEF Extended
      <3>2. NewItem(xfer, v, out[k])
        BY <1>n
      <3>3. SUFFICES ASSUME Staged(out[k]) PROVE ItemOK(xfer, v, u, out[k])
        BY <3>1 DEF ItemOK
      <3>4. NewStage(xfer, t, p, v)
        BY <1>g, <3>3 DEF SenderStage
      <3>5. v.f \in 1..xfer.files
        BY DEF HalvesTyped, SenderTyped
      <3>6. u.f # 0 /\ out[k].k = "sub" /\ out[k].f = u.f => out[k].pos <= u.pos + 1
        <4> SUFFICES ASSUME u.f # 0, out[k].k = "sub", out[k].f = u.f
                     PROVE  out[k].pos <= u.pos + 1
          OBVIOUS
        <4>1. out[k].pos \in Nat /\ out[k].pos <= v.pos + 1 /\ Stage(out[k]) = SStage(xfer, v)
          BY <1>o, <3>2, <3>3, ItemRange DEF NewItem
        <4>2. CASE out[k].pos = 0
          BY <1>r, <4>2
        <4>3. CASE out[k].pos # 0
          <5>1. u.f = Len(u.files) + 1
            BY <1>1 DEF FilesInv
          <5>2. SStage(xfer, v) = RStage(u)
            BY <1>r, <4>1, <4>3, <5>1 DEF Stage, RStage
          <5>3. v.pos <= u.pos
            BY <1>w, <3>4, <5>2
          <5>4. v.pos \in Nat /\ u.pos \in Nat
            BY <1>r
          <5>5. out[k].pos \in Nat /\ out[k].pos <= v.pos + 1
            BY <4>1
          <5> QED BY <5>3, <5>4, <5>5
        <4> QED BY <4>2, <4>3
      <3> QED BY <1>r, <1>w, <3>2, <3>3, <3>4, <3>5, <3>6 DEF NewItem, ItemOK
    <2> QED BY <1>z, <2>1, <2>2 DEF Extended
  <1>3. OrderInv(z)
    <2> SUFFICES ASSUME NEW i \in 1..Len(z), NEW j \in 1..Len(z), i < j, Staged(z[i]), Staged(z[j])
                 PROVE  Stage(z[i]) <= Stage(z[j])
      BY DEF OrderInv
    <2>0. z[i] \in Packet /\ z[j] \in Packet
      BY <1>z DEF Extended
    <2>1. CASE j <= Len(q)
      <3>1. z[i] = q[i] /\ z[j] = q[j] /\ i \in 1..Len(q) /\ j \in 1..Len(q)
        BY <1>z, <2>1 DEF Extended
      <3> QED BY <3>1 DEF StepInv, OrderInv
    <2>2. CASE j > Len(q)
      <3>1. PICK k \in 1..Len(out) : z[j] = out[k]
        BY <1>z, <2>2 DEF Extended
      <3>2. NewStage(xfer, t, p, v)
        BY <1>g, <3>1 DEF SenderStage
      <3>3. Stage(z[j]) = SStage(xfer, v)
        BY <1>n, <3>1 DEF NewItem
      <3>4. CASE i <= Len(q)
        <4>1. z[i] = q[i] /\ i \in 1..Len(q)
          BY <1>z, <3>4 DEF Extended
        <4>2. Stage(z[i]) <= SStage(xfer, t)
          BY <4>1 DEF StepInv, ItemsInv, ItemOK
        <4> QED BY <1>r, <1>w, <2>0, <3>2, <3>3, <4>2, ItemRange
      <3>5. CASE i > Len(q)
        <4>1. PICK g \in 1..Len(out) : z[i] = out[g]
          BY <1>z, <3>5 DEF Extended
        <4>2. Stage(z[i]) = SStage(xfer, v)
          BY <1>n, <4>1 DEF NewItem
        <4> QED BY <1>r, <3>3, <4>2
      <3> QED BY <1>z, <3>4, <3>5 DEF Extended
    <2> QED BY <1>z, <2>1, <2>2 DEF Extended
  <1>f. NewFrames(t, v, out) /\ FrameInv(t, q) /\ RunInv(t, u, q, l) /\ SubInv(u, q)
    BY <1>s DEF Sent, StepInv
  <1>4. FrameInv(v, z)
    <2>1. CASE z = q
      BY <1>f, <2>1 DEF FrameInv
    <2>2. CASE /\ l /\ u.pc \notin Done /\ Len(z) = Len(q) + Len(out)
               /\ \A i \in 1..Len(z) : i > Len(q) => i - Len(q) \in 1..Len(out) /\ z[i] = out[i - Len(q)]
      <3> SUFFICES ASSUME NEW i \in 1..Len(z)
                   PROVE  /\ z[i].k = "ZFILE" => i < Len(z) /\ z[i + 1].k = "sub" /\ z[i + 1].pos = 0
                          /\ z[i].k = "ZDATA" =>
                               /\ i < Len(z) /\ z[i + 1].k = "sub" /\ z[i + 1].f = z[i].f
                               /\ z[i + 1].pos = z[i].pos + 1
                          /\ i > 1 /\ IsData(z[i]) =>
                               \/ IsCancel(z[i - 1])
                               \/ /\ z[i - 1].k \in {"ZDATA", "sub"}
                                  /\ z[i - 1].f = z[i].f /\ z[i - 1].pos + 1 = z[i].pos
                          /\ i > 1 /\ IsCancel(z[i]) =>
                               IsCancel(z[i - 1]) \/ (i = Len(z) /\ v.pc \in Done)
        BY DEF FrameInv
      <3>1. CASE i <= Len(q)
        <4>1. i \in 1..Len(q) /\ z[i] = q[i] /\ (i > 1 => z[i - 1] = q[i - 1])
              /\ (i < Len(q) => z[i + 1] = q[i + 1] /\ i < Len(z))
          <5>1. i \in 1..Len(q) /\ i \in Nat /\ Len(q) \in Nat /\ Len(q) <= Len(z) /\ Len(z) \in Nat
            BY <1>z, <3>1 DEF Extended
          <5>2. (i > 1 => i - 1 \in 1..Len(q)) /\ (i < Len(q) => i + 1 \in 1..Len(q) /\ i < Len(z))
            BY <5>1
          <5> QED BY <1>z, <5>1, <5>2 DEF Extended
        <4> QED BY <1>f, <4>1 DEF FrameInv
      <3>2. CASE i > Len(q)
        <4> DEFINE k == i - Len(q)
        <4>1. /\ k \in 1..Len(out) /\ z[i] = out[k] /\ (k > 1 => z[i - 1] = out[k - 1] /\ i > 1)
              /\ (k < Len(out) <=> i < Len(z)) /\ (k < Len(out) => z[i + 1] = out[k + 1])
              /\ (k = Len(out) <=> i = Len(z)) /\ k \in Nat /\ i \in Nat
              /\ (k = 1 => i = Len(q) + 1)
          <5>1. i \in Nat /\ Len(q) \in Nat /\ Len(out) \in Nat /\ i <= Len(z)
            BY <1>z DEF Extended
          <5>2. k \in 1..Len(out) /\ z[i] = out[k] /\ k \in Nat /\ (k = 1 => i = Len(q) + 1)
            BY <2>2, <3>2, <5>1
          <5>3. (k < Len(out) <=> i < Len(z)) /\ (k = Len(out) <=> i = Len(z))
            BY <2>2, <5>1
          <5>4. k > 1 => z[i - 1] = out[k - 1] /\ i > 1
            <6>1. k > 1 => i - 1 \in 1..Len(z) /\ i - 1 > Len(q) /\ (i - 1) - Len(q) = k - 1 /\ i > 1
              BY <2>2, <5>1
            <6> QED BY <2>2, <6>1
          <5>5. k < Len(out) => z[i + 1] = out[k + 1]
            <6>1. k < Len(out) => i + 1 \in 1..Len(z) /\ i + 1 > Len(q) /\ (i + 1) - Len(q) = k + 1
              BY <2>2, <3>2, <5>1
            <6> QED BY <2>2, <6>1
          <5> QED BY <5>1, <5>2, <5>3, <5>4, <5>5
        <4>2. CASE k > 1
          <5> HIDE DEF k
          <5> QED BY <1>f, <4>1, <4>2 DEF NewFrames
        <4>3. CASE k = 1
          <5>1. i > 1 => i - 1 \in 1..Len(q) /\ i - 1 = Len(q) /\ z[i - 1] = q[Len(q)]
            BY <1>z, <4>1, <4>3 DEF Extended
          <5>2. i > 1 /\ IsData(z[i]) =>
                  \/ IsCancel(z[i - 1])
                  \/ /\ z[i - 1].k \in {"ZDATA", "sub"}
                     /\ z[i - 1].f = z[i].f /\ z[i - 1].pos + 1 = z[i].pos
            <6> SUFFICES ASSUME i > 1, IsData(z[i])
                         PROVE  \/ IsCancel(z[i - 1])
                                \/ /\ z[i - 1].k \in {"ZDATA", "sub"}
                                   /\ z[i - 1].f = z[i].f /\ z[i - 1].pos + 1 = z[i].pos
              OBVIOUS
            <6>1. t.pc = "data" /\ z[i].f = t.f /\ z[i].pos = t.pos + 2
              BY <1>f, <4>1, <4>3 DEF NewFrames, IsData
            <6>2. Len(q) > 0
              BY <1>z, <5>1 DEF Extended
            <6>3. z[i - 1] = q[Len(q)]
              BY <5>1
            <6>4. \/ IsCancel(q[Len(q)])
                  \/ q[Len(q)].k = "sub" /\ q[Len(q)].f = t.f /\ q[Len(q)].pos = t.pos + 1
              BY <1>f, <2>2, <6>1, <6>2 DEF RunInv
            <6>5. (t.pos + 1) + 1 = t.pos + 2
              BY <1>r
            <6> QED BY <6>1, <6>3, <6>4, <6>5
          <5> HIDE DEF k
          <5> QED BY <1>f, <4>1, <4>3, <5>2 DEF NewFrames
        <4> QED BY <4>1, <4>2, <4>3
      <3> QED BY <1>z, <3>1, <3>2 DEF Extended
    <2> QED BY <1>z, <2>1, <2>2 DEF Extended
  <1>5. SubInv(u, z)
    <2> SUFFICES ASSUME u.pc = "sub", ~u.junk, NEW i \in 1..Len(z), z[i].k = "sub",
                        \A j \in 1..i - 1 : IsCancel(z[j])
                 PROVE  z[i].pos >= u.pos + 1
      BY DEF SubInv
    <2>1. CASE i <= Len(q)
      <3>1. i \in 1..Len(q) /\ z[i] = q[i] /\ \A j \in 1..i - 1 : z[j] = q[j]
        BY <1>z, <2>1 DEF Extended
      <3> QED BY <1>f, <3>1 DEF SubInv
    <2>2. CASE i > Len(q)
      <3> DEFINE k == i - Len(q)
      <3>1. /\ k \in 1..Len(out) /\ z[i] = out[k] /\ l /\ u.pc \notin Done
            /\ (k > 1 => k - 1 \in 1..Len(out) /\ k - 1 < Len(out) /\ z[i - 1] = out[k - 1] /\ i - 1 \in 1..i - 1)
        BY <1>z, <2>2 DEF Extended
      <3>2. \A j \in 1..Len(q) : IsCancel(q[j])
        BY <1>z, <2>2 DEF Extended
      <3>3. k = 1
        <4>1. ASSUME k > 1 PROVE FALSE
          <5>1. IsCancel(out[k - 1])
            BY <3>1, <4>1
          <5>2. k - 1 = Len(out)
            BY <1>f, <3>1, <4>1, <5>1 DEF NewFrames
          <5> QED BY <3>1, <4>1, <5>2
        <4> QED BY <3>1, <4>1
      <3>4. t.pc = "data" /\ z[i].pos = t.pos + 2
        BY <1>f, <3>1, <3>3 DEF NewFrames
      <3>5. u.pos <= t.pos + 1
        BY <1>f, <3>1, <3>2, <3>4 DEF RunInv
      <3> QED BY <1>r, <3>4, <3>5
    <2> QED BY <1>z, <2>1, <2>2 DEF Extended
  <1>6. PosInv(xfer, v, u, b)
    <2> SUFFICES ASSUME v.pc \notin Done
                 PROVE  /\ RStage(u) - 1 <= SStage(xfer, v) /\ SStage(xfer, v) <= RStage(u)
                        /\ u.f # 0 /\ SStage(xfer, v) = RStage(u) => v.pos <= u.pos
                        /\ u.f # 0 => \A i \in 1..Len(b) : b[i].k \in {"ZRPOS", "ZACK"} => b[i].pos <= u.pos
                        /\ u.pc \in {"info", "sub"} => SStage(xfer, v) = RStage(u)
      BY DEF PosInv
    <2>1. NewStage(xfer, t, p, v)
      BY <1>g DEF SenderStage
    <2>2. u.f # 0 => \A i \in 1..Len(b) : b[i].k \in {"ZRPOS", "ZACK"} => b[i].pos <= u.pos
      <3>1. \A i \in 1..Len(b) : \E j \in 1..Len(a) : b[i] = a[j]
        BY <1>b DEF Left
      <3> QED BY <1>p, <3>1 DEF PosInv
    <2> QED BY <1>w, <2>1, <2>2
  <1>7. AnswerInv(xfer, v, u, b)
    <2> SUFFICES ASSUME v.pc \notin Done, NEW i \in 1..Len(b)
                 PROVE  /\ b[i].k # "ZSKIP"
                        /\ Coming(v, b[i]) => /\ RStage(u) = SStage(xfer, v) + 1
                                              /\ \A j \in 1..Len(b) : j > i => ~Current(v, b[j])
      BY DEF AnswerInv
    <2>1. NewStage(xfer, t, p, v)
      BY <1>g DEF SenderStage
    <2>2. PICK n \in {0, 1} : /\ \A j \in 1..Len(b) : j + n \in 1..Len(a) /\ b[j] = a[j + n]
                              /\ n = 0 => p = None
                              /\ n = 1 => p = a[1] /\ Len(a) > 0
      <3>1. CASE b = a /\ p = None
        BY <1>b, <3>1 DEF Left
      <3>2. CASE /\ Len(a) > 0 /\ p = a[1] /\ Len(b) = Len(a) - 1
                 /\ \A j \in 1..Len(b) : b[j] = a[j + 1]
        <4>1. \A j \in 1..Len(b) : j + 1 \in 1..Len(a)
          BY <1>b, <3>2 DEF Left
        <4> WITNESS 1 \in {0, 1}
        <4> QED BY <3>2, <4>1
      <3> QED BY <1>b, <3>1, <3>2 DEF Left
    <2>3. b[i].k # "ZSKIP"
      BY <1>p, <2>2 DEF AnswerInv
    <2>4. CASE SStage(xfer, v) = SStage(xfer, t)
      <3>1. Asks(v) = Asks(t)
        BY <1>r, <2>1, <2>4 DEF NewStage
      <3>2. \A e : (Coming(v, e) <=> Coming(t, e)) /\ (Current(v, e) <=> Current(t, e))
        BY <3>1 DEF Coming, Current
      <3>3. \A j \in 1..Len(b) : j > i => j + n > i + n
        BY <1>b, <2>2 DEF Left
      <3> QED BY <1>p, <2>2, <2>3, <2>4, <3>2, <3>3 DEF AnswerInv
    <2>5. CASE SStage(xfer, v) = SStage(xfer, t) + 1
      <3>1. Asks(v) # Asks(t) /\ Coming(t, p)
        BY <1>r, <2>1, <2>5 DEF NewStage
      <3>2. n = 1
        BY <2>2, <3>1 DEF Coming, None
      <3>3. i + 1 > 1 /\ 1 \in 1..Len(a) /\ i + 1 \in 1..Len(a) /\ b[i] = a[i + 1]
        BY <1>b, <2>2, <3>2 DEF Left
      <3>4. ~Current(t, b[i])
        BY <1>p, <2>2, <3>1, <3>2, <3>3 DEF AnswerInv
      <3>5. ~Coming(v, b[i])
        BY <3>1, <3>4 DEF Coming, Current, Asks
      <3> QED BY <2>3, <3>5
    <2> QED BY <2>1, <2>4, <2>5 DEF NewStage
  <1>8. RunInv(v, u, z, l)
    <2> SUFFICES ASSUME v.pc = "data", l, u.pc \notin Done
                 PROVE  /\ Len(z) > 0 =>
                             \/ IsCancel(z[Len(z)])
                             \/ z[Len(z)].k = "sub" /\ z[Len(z)].f = v.f /\ z[Len(z)].pos = v.pos + 1
                        /\ u.pc = "sub" /\ ~u.junk /\ (\A i \in 1..Len(z) : IsCancel(z[i])) =>
                             u.pos <= v.pos + 1
      BY DEF RunInv
    <2>1. CASE t.pc = "data" /\ v.f = t.f /\ v.pos = t.pos /\ Len(out) = 0
      <3>1. Len(z) = Len(q) /\ \A i \in 1..Len(q) : z[i] = q[i]
        BY <1>z, <2>1 DEF Extended
      <3>2. Len(z) > 0 => Len(z) \in 1..Len(q)
        BY <1>z, <3>1 DEF Extended
      <3> QED BY <1>f, <2>1, <3>1, <3>2 DEF RunInv
    <2>2. CASE /\ Len(out) > 0
               /\ out[Len(out)].k = "sub" /\ out[Len(out)].f = v.f /\ out[Len(out)].pos = v.pos + 1
      <3>1. Len(z) \in 1..Len(z) /\ z[Len(z)] = out[Len(out)]
        BY <1>z, <2>2 DEF Extended
      <3>2. ~IsCancel(z[Len(z)])
        BY <2>2, <3>1 DEF IsCancel
      <3> QED BY <2>2, <3>1, <3>2
    <2> QED BY <1>f, <2>1, <2>2 DEF NewFrames
  <1>9. FinInv(xfer, v, u)
    <2> SUFFICES ASSUME v.pc \in {"fin", "ok"} PROVE Len(u.files) = xfer.files
      BY DEF FinInv
    <2>1. CASE t.pc = "fin"
      BY <2>1 DEF StepInv, FinInv
    <2>2. CASE t.pc # "fin"
      <3>1. v.pc = "fin" /\ NewStage(xfer, t, p, v)
        BY <1>g, <2>2 DEF SenderStage, Done
      <3>2. SStage(xfer, v) = SStage(xfer, t) + 1 /\ Coming(t, p)
        BY <2>2, <3>1 DEF NewStage
      <3>3. RStage(u) = SStage(xfer, t) + 1
        BY <1>p, <1>b, <3>2 DEF AnswerInv, Coming, None, Left
      <3>4. SStage(xfer, v) = 2 * xfer.files
        BY <3>1 DEF SStage
      <3> QED BY <1>r, <3>2, <3>3, <3>4 DEF RStage, XferOK
    <2> QED BY <2>1, <2>2
  <1> QED BY <1>1, <1>2, <1>3, <1>4, <1>5, <1>6, <1>7, <1>8, <1>9 DEF StepInv

-----------------------------------------------------------------------------
(* Channels that differ at the front: n items are gone, or a cancel is put    *)
(* there (n = -1), and an item may be damaged.                               *)

SameItem(e, d) == e.k = d.k /\ (~IsCancel(d) => e.f = d.f /\ e.pos = d.pos)

Shifted(q, z, n) ==
  /\ n \in {-1, 0, 1} /\ Len(q) \in Nat /\ Len(z) \in Nat /\ Len(z) + n = Len(q)
  /\ \A j \in 1..Len(z) :
       \/ j + n \in 1..Len(q) /\ SameItem(z[j], q[j + n])
       \/ j = 1 /\ n = -1 /\ IsCancel(z[j])

LEMMA ToSShifts ==
  ASSUME NEW x, NEW t, NEW u, NEW a, PosInv(x, t, u, a), AnswerInv(x, t, u, a),
         NEW b, NEW n, Shifted(a, b, n)
  PROVE  PosInv(x, t, u, b) /\ AnswerInv(x, t, u, b)
  <1>1. \A j \in 1..Len(b) : \/ j + n \in 1..Len(a) /\ SameItem(b[j], a[j + n])
                             \/ b[j].k \in {"CAN", "ESC"}
    BY DEF Shifted, IsCancel
  <1>2. PosInv(x, t, u, b)
    <2> SUFFICES ASSUME t.pc \notin Done, u.f # 0, NEW i \in 1..Len(b), b[i].k \in {"ZRPOS", "ZACK"}
                 PROVE  b[i].pos <= u.pos
      BY DEF PosInv
    <2>1. i + n \in 1..Len(a) /\ SameItem(b[i], a[i + n])
      BY <1>1
    <2>2. a[i + n].k \in {"ZRPOS", "ZACK"} /\ b[i].pos = a[i + n].pos
      BY <2>1 DEF SameItem, IsCancel
    <2> QED BY <2>1, <2>2 DEF PosInv
  <1>3. AnswerInv(x, t, u, b)
    <2> SUFFICES ASSUME t.pc \notin Done, NEW i \in 1..Len(b)
                 PROVE  /\ b[i].k # "ZSKIP"
                        /\ Coming(t, b[i]) => /\ RStage(u) = SStage(x, t) + 1
                                              /\ \A j \in 1..Len(b) : j > i => ~Current(t, b[j])
      BY DEF AnswerInv
    <2>1. CASE b[i].k \in {"CAN", "ESC"}
      BY <2>1 DEF Coming
    <2>2. CASE i + n \in 1..Len(a) /\ SameItem(b[i], a[i + n])
      <3>1. b[i].k # "ZSKIP" /\ (Coming(t, b[i]) => Coming(t, a[i + n]))
        BY <2>2 DEF AnswerInv, SameItem, Coming
      <3>2. ASSUME Coming(t, b[i]), NEW j \in 1..Len(b), j > i PROVE ~Current(t, b[j])
        <4>1. CASE b[j].k \in {"CAN", "ESC"}
          BY <4>1 DEF Current
        <4>2. CASE j + n \in 1..Len(a) /\ SameItem(b[j], a[j + n])
          <5>1. j + n > i + n
            BY <3>2 DEF Shifted
          <5>2. ~Current(t, a[j + n])
            BY <2>2, <3>1, <3>2, <4>2, <5>1 DEF AnswerInv
          <5> QED BY <4>2, <5>2 DEF Current, SameItem
        <4> QED BY <1>1, <4>1, <4>2
      <3>3. Coming(t, b[i]) => RStage(u) = SStage(x, t) + 1
        BY <2>2, <3>1 DEF AnswerInv
      <3> QED BY <3>1, <3>2, <3>3
    <2> QED BY <1>1, <2>1, <2>2
  <1> QED BY <1>2, <1>3

LEMMA ToRShifts ==
  ASSUME NEW x, NEW t, NEW u, NEW q, ItemsInv(x, t, u, q), OrderInv(q), FrameInv(t, q),
         NEW z, NEW n, Shifted(q, z, n)
  PROVE  ItemsInv(x, t, u, z) /\ OrderInv(z) /\ FrameInv(t, z)
  <1>1. \A j \in 1..Len(z) :
          \/ j + n \in 1..Len(q) /\ SameItem(z[j], q[j + n])
          \/ j = 1 /\ n = -1 /\ IsCancel(z[j])
    BY DEF Shifted
  <1>2. ASSUME NEW j \in 1..Len(z), Staged(z[j])
        PROVE  /\ j + n \in 1..Len(q) /\ SameItem(z[j], q[j + n]) /\ Staged(q[j + n])
               /\ Stage(z[j]) = Stage(q[j + n])
    <2>1. j + n \in 1..Len(q) /\ SameItem(z[j], q[j + n])
      BY <1>1, <1>2 DEF Staged, IsCancel
    <2> QED BY <1>2, <2>1 DEF SameItem, Staged, Stage, IsCancel
  <1>3. ItemsInv(x, t, u, z)
    <2> SUFFICES ASSUME NEW j \in 1..Len(z), Staged(z[j]) PROVE ItemOK(x, t, u, z[j])
      BY DEF ItemsInv, ItemOK
    <2>1. ItemOK(x, t, u, q[j + n])
      BY <1>2 DEF ItemsInv
    <2>2. z[j].k = q[j + n].k /\ z[j].f = q[j + n].f /\ z[j].pos = q[j + n].pos
      BY <1>2 DEF SameItem, Staged, IsCancel
    <2> QED BY <1>2, <2>1, <2>2 DEF ItemOK
  <1>4. OrderInv(z)
    <2> SUFFICES ASSUME NEW i \in 1..Len(z), NEW j \in 1..Len(z), i < j, Staged(z[i]), Staged(z[j])
                 PROVE  Stage(z[i]) <= Stage(z[j])
      BY DEF OrderInv
    <2>1. i + n < j + n
      BY DEF Shifted
    <2> QED BY <1>2, <2>1 DEF OrderInv
  <1>5. FrameInv(t, z)
    <2> SUFFICES ASSUME NEW i \in 1..Len(z)
                 PROVE  /\ z[i].k = "ZFILE" => i < Len(z) /\ z[i + 1].k = "sub" /\ z[i + 1].pos = 0
                        /\ z[i].k = "ZDATA" =>
                             /\ i < Len(z) /\ z[i + 1].k = "sub" /\ z[i + 1].f = z[i].f
                             /\ z[i + 1].pos = z[i].pos + 1
                        /\ i > 1 /\ IsData(z[i]) =>
                             \/ IsCancel(z[i - 1])
                             \/ /\ z[i - 1].k \in {"ZDATA", "sub"}
                                /\ z[i - 1].f = z[i].f /\ z[i - 1].pos + 1 = z[i].pos
                        /\ i > 1 /\ IsCancel(z[i]) =>
                             IsCancel(z[i - 1]) \/ (i = Len(z) /\ t.pc \in Done)
      BY DEF FrameInv
    <2>1. CASE i = 1 /\ n = -1 /\ IsCancel(z[i])
      BY <2>1 DEF IsCancel, IsData
    <2>2. CASE i + n \in 1..Len(q) /\ SameItem(z[i], q[i + n])
      <3> DEFINE j == i + n
      <3>0. /\ j \in 1..Len(q) /\ SameItem(z[i], q[j]) /\ j \in Nat /\ i \in Nat
            /\ (i < Len(z) <=> j < Len(q)) /\ (i = Len(z) <=> j = Len(q))
        BY <2>2 DEF Shifted
      <3>1. j < Len(q) => SameItem(z[i + 1], q[j + 1])
        <4>1. j < Len(q) => i + 1 \in 1..Len(z) /\ (i + 1) + n = j + 1 /\ ~(i + 1 = 1)
          BY <3>0 DEF Shifted
        <4> QED BY <1>1, <4>1
      <3>2. i > 1 => IsCancel(z[i - 1]) \/ (j > 1 /\ SameItem(z[i - 1], q[j - 1]))
        <4>1. i > 1 => i - 1 \in 1..Len(z) /\ (i - 1) + n = j - 1
          BY <3>0 DEF Shifted
        <4>2. j - 1 \in 1..Len(q) => j > 1
          BY <3>0
        <4> QED BY <1>1, <4>1, <4>2
      <3> HIDE DEF j
      <3>3. /\ q[j].k = "ZFILE" => j < Len(q) /\ q[j + 1].k = "sub" /\ q[j + 1].pos = 0
            /\ q[j].k = "ZDATA" =>
                 /\ j < Len(q) /\ q[j + 1].k = "sub" /\ q[j + 1].f = q[j].f
                 /\ q[j + 1].pos = q[j].pos + 1
            /\ j > 1 /\ IsData(q[j]) =>
                 \/ IsCancel(q[j - 1])
                 \/ /\ q[j - 1].k \in {"ZDATA", "sub"}
                    /\ q[j - 1].f = q[j].f /\ q[j - 1].pos + 1 = q[j].pos
            /\ j > 1 /\ IsCancel(q[j]) => IsCancel(q[j - 1]) \/ (j = Len(q) /\ t.pc \in Done)
        BY <3>0 DEF FrameInv
      <3>4. z[i].k = "ZFILE" => i < Len(z) /\ z[i + 1].k = "sub" /\ z[i + 1].pos = 0
        BY <3>0, <3>1, <3>3 DEF SameItem, IsCancel
      <3>5. z[i].k = "ZDATA" => /\ i < Len(z) /\ z[i + 1].k = "sub" /\ z[i + 1].f = z[i].f
                                /\ z[i + 1].pos = z[i].pos + 1
        BY <3>0, <3>1, <3>3 DEF SameItem, IsCancel
      <3>6. i > 1 /\ IsData(z[i]) =>
              \/ IsCancel(z[i - 1])
              \/ /\ z[i - 1].k \in {"ZDATA", "sub"}
                 /\ z[i - 1].f = z[i].f /\ z[i - 1].pos + 1 = z[i].pos
        BY <3>0, <3>2, <3>3 DEF SameItem, IsCancel, IsData
      <3>7. i > 1 /\ IsCancel(z[i]) => IsCancel(z[i - 1]) \/ (i = Len(z) /\ t.pc \in Done)
        BY <3>0, <3>2, <3>3 DEF SameItem, IsCancel
      <3> QED BY <3>4, <3>5, <3>6, <3>7
    <2> QED BY <1>1, <2>1, <2>2
  <1> QED BY <1>3, <1>4, <1>5

-----------------------------------------------------------------------------
(* A step of the receiver: w is its new state, z what is left in the channel  *)
(* to it and b what is in the channel to the sender then.                    *)

\* The sender and what it has sent are at the receiver's stage.
Abreast(x, t, u, z) ==
  /\ t.pc \notin Done => SStage(x, t) = RStage(u)
  /\ \A i \in 1..Len(z) : Staged(z[i]) => RStage(u) <= Stage(z[i])

ReceiverStage(x, t, u, w, z) ==
  /\ Len(u.files) <= Len(w.files)
  /\ \/ /\ RStage(w) = RStage(u) /\ w.f = u.f /\ u.pos <= w.pos
        /\ w.pc \in {"info", "sub"} => Abreast(x, t, u, z)
     \/ /\ RStage(w) = RStage(u) + 1 /\ Abreast(x, t, u, z)
        /\ w.f = 0 \/ u.f = 0
        /\ w.pc \notin {"info", "sub"}

Answers(w, out) ==
  /\ out \in Seq(Packet) /\ Len(out) <= 1
  /\ \A i \in 1..Len(out) :
       /\ out[i].k # "ZSKIP"
       /\ out[i].k = "ZRINIT" => w.f = 0
       /\ out[i].k \in {"ZRPOS", "ZACK"} => w.f # 0 /\ out[i].pos = w.pos

LEMMA AnswersMade ==
  ASSUME NEW w, w.pos \in Nat
  PROVE  /\ Answers(w, <<>>) /\ Answers(w, <<CancelItem>>)
         /\ Answers(w, <<Plain("ZFIN")>>) /\ Answers(w, <<Plain("ZNAK")>>)
         /\ w.f = 0 => Answers(w, <<Plain("ZRINIT")>>)
         /\ w.f # 0 => /\ Answers(w, <<Header("ZRPOS", 0, w.pos)>>)
                       /\ Answers(w, <<Header("ZACK", 0, w.pos)>>)
  <1>1. Answers(w, <<>>)
    BY DEF Answers
  <1>2. ASSUME NEW e \in Packet, e.k # "ZSKIP", e.k = "ZRINIT" => w.f = 0,
               e.k \in {"ZRPOS", "ZACK"} => w.f # 0 /\ e.pos = w.pos
        PROVE  Answers(w, <<e>>)
    <2> DEFINE o == <<e>>
    <2>1. o \in Seq(Packet) /\ Len(o) = 1 /\ o[1] = e
      BY TupleFacts
    <2> HIDE DEF o
    <2>2. Answers(w, o)
      BY <1>2, <2>1 DEF Answers
    <2> QED BY <2>2 DEF o
  <1>3. /\ CancelItem \in Packet /\ Plain("ZFIN") \in Packet /\ Plain("ZNAK") \in Packet
        /\ Plain("ZRINIT") \in Packet
        /\ Header("ZRPOS", 0, w.pos) \in Packet /\ Header("ZACK", 0, w.pos) \in Packet
    BY Made DEF HeaderKinds
  <1>4. /\ CancelItem.k = "CAN" /\ Plain("ZFIN").k = "ZFIN" /\ Plain("ZNAK").k = "ZNAK"
        /\ Plain("ZRINIT").k = "ZRINIT"
        /\ Header("ZRPOS", 0, w.pos).k = "ZRPOS" /\ Header("ZACK", 0, w.pos).k = "ZACK"
        /\ Header("ZRPOS", 0, w.pos).pos = w.pos /\ Header("ZACK", 0, w.pos).pos = w.pos
    BY DEF CancelItem, Plain, Header
  <1> QED BY <1>1, <1>2, <1>3, <1>4

\* The hypotheses of a step of the receiver.
ReceiverSteps(x, t, u, w, q, a, l, p, out, z) ==
  /\ XferOK /\ TakesAll /\ x = xfer
  /\ HalvesTyped(x, t, u) /\ HalvesTyped(x, t, w) /\ ChannelsTyped(x, q, a)
  /\ StepInv(x, t, u, q, a, l) /\ u.pc \notin Done
  /\ ReceiverMoves(x, u, p, w, out) /\ Reads(q, p, z)

LEMMA ReadsItem ==
  ASSUME NEW t, NEW u, NEW w, NEW q, NEW a, NEW l, NEW p, NEW out, NEW z,
         ReceiverSteps(xfer, t, u, w, q, a, l, p, out, z)
  PROVE  /\ q \in Seq(Packet) /\ a \in Seq(Packet) /\ Left(q, p, z)
         /\ RStage(u) \in Nat /\ RStage(w) \in Nat /\ SStage(xfer, t) \in Int
         /\ Len(u.files) \in Nat /\ Len(w.files) \in Nat
         /\ t.pos \in Nat /\ t.f \in Nat /\ u.pos \in Nat /\ u.f \in Nat /\ w.pos \in Nat /\ w.f \in Nat
         /\ u.pc \in ReceiverPcs /\ w.pc \in ReceiverPcs
  <1>1. q \in Seq(Packet) /\ a \in Seq(Packet) /\ Left(q, p, z)
    BY Rest DEF ReceiverSteps, ChannelsTyped
  <1> QED BY <1>1, Ranges DEF ReceiverSteps

\* An item of the stage brings the receiver abreast, and so does a state in a frame.
LEMMA ComesAbreast ==
  ASSUME NEW t, NEW u, NEW w, NEW q, NEW a, NEW l, NEW p, NEW out, NEW z,
         ReceiverSteps(xfer, t, u, w, q, a, l, p, out, z)
  PROVE  /\ u.pc \in {"info", "sub"} => Abreast(xfer, t, u, z)
         /\ Staged(p) /\ RStage(u) <= Stage(p) => Abreast(xfer, t, u, z)
         /\ p.k = "ZFILE" /\ u.f = 0 => Abreast(xfer, t, u, z)
  <1>0. /\ q \in Seq(Packet) /\ Left(q, p, z)
        /\ RStage(u) \in Nat /\ SStage(xfer, t) \in Int /\ Len(u.files) \in Nat
    BY ReadsItem
  <1>1. /\ ItemsInv(xfer, t, u, q) /\ OrderInv(q) /\ FrameInv(t, q) /\ PosInv(xfer, t, u, a)
    BY DEF ReceiverSteps, StepInv
  <1>2. \A i \in 1..Len(z) : z[i] \in Packet /\ \E j \in 1..Len(q) : z[i] = q[j] /\ (p # None => j > 1)
    BY <1>0 DEF Left
  <1>3. \A i \in 1..Len(z) : ItemOK(xfer, t, u, z[i])
    BY <1>1, <1>2 DEF ItemsInv
  <1>4. ASSUME u.pc \in {"info", "sub"} PROVE Abreast(xfer, t, u, z)
    BY <1>1, <1>3, <1>4 DEF ItemOK, PosInv, Abreast
  <1>5. ASSUME Staged(p), RStage(u) <= Stage(p) PROVE Abreast(xfer, t, u, z)
    <2>1. Len(q) > 0 /\ p = q[1] /\ p \in Packet /\ p # None
      BY <1>0, <1>5 DEF Left, None, Staged
    <2>2. ItemOK(xfer, t, u, p) /\ Stage(p) \in Int
      BY <1>0, <1>1, <1>5, <2>1, ItemRange DEF ItemsInv, Left
    <2>3. t.pc \notin Done => SStage(xfer, t) = RStage(u)
      BY <1>0, <1>1, <1>5, <2>2 DEF ItemOK, PosInv
    <2>4. ASSUME NEW i \in 1..Len(z), Staged(z[i]) PROVE RStage(u) <= Stage(z[i])
      <3>1. PICK j \in 1..Len(q) : z[i] = q[j] /\ j > 1
        BY <1>2, <2>1
      <3>2. Stage(p) <= Stage(z[i])
        BY <1>0, <1>1, <1>5, <2>1, <2>4, <3>1 DEF OrderInv, Left
      <3>3. Stage(z[i]) \in Int
        BY <1>2, <2>4, ItemRange
      <3> QED BY <1>0, <1>5, <2>2, <3>2, <3>3
    <2> QED BY <2>3, <2>4 DEF Abreast
  <1>6. ASSUME p.k = "ZFILE", u.f = 0 PROVE Abreast(xfer, t, u, z)
    <2>1. Len(q) > 0 /\ p = q[1] /\ Len(q) \in Nat /\ p # None
      BY <1>0, <1>6 DEF Left, None
    <2>2. 1 < Len(q) /\ q[2].k = "sub" /\ q[2].pos = 0
      BY <1>1, <1>6, <2>1 DEF FrameInv
    <2>3. 2 \in 1..Len(q) /\ q[2] \in Packet
      BY <1>0, <2>1, <2>2
    <2>4. ItemOK(xfer, t, u, q[2]) /\ Staged(q[2]) /\ q[2].f \in Nat /\ Stage(q[2]) = 2 * q[2].f - 2
      BY <1>1, <2>2, <2>3, ItemRange DEF ItemsInv, Staged, Stage
    <2>5. Stage(q[2]) = RStage(u)
      <3>1. RStage(u) = 2 * Len(u.files)
        BY <1>6 DEF RStage
      <3>2. RStage(u) - 1 <= Stage(q[2]) /\ Stage(q[2]) <= RStage(u)
        BY <2>4 DEF ItemOK
      <3>3. q[2].f = Len(u.files) + 1
        BY <1>0, <2>4, <3>1, <3>2, Parity
      <3> QED BY <1>0, <2>4, <3>1, <3>3
    <2>6. t.pc \notin Done => SStage(xfer, t) = RStage(u)
      BY <1>0, <1>1, <2>4, <2>5 DEF ItemOK, PosInv
    <2>7. ASSUME NEW i \in 1..Len(z), Staged(z[i]) PROVE RStage(u) <= Stage(z[i])
      <3>1. PICK j \in 1..Len(q) : z[i] = q[j] /\ j > 1
        BY <1>2, <2>1
      <3>2. j = 2 \/ 2 < j
        BY <3>1
      <3>3. Stage(q[2]) <= Stage(z[i])
        BY <1>0, <1>1, <2>3, <2>4, <2>5, <2>7, <3>1, <3>2 DEF OrderInv
      <3> QED BY <2>5, <3>3
    <2> QED BY <2>6, <2>7 DEF Abreast
  <1> QED BY <1>4, <1>5, <1>6

LEMMA ReceiverStages ==
  ASSUME NEW t, NEW u, NEW w, NEW q, NEW a, NEW l, NEW p, NEW out, NEW z,
         ReceiverSteps(xfer, t, u, w, q, a, l, p, out, z)
  PROVE  FilesInv(xfer, w) /\ ReceiverStage(xfer, t, u, w, z) /\ Answers(w, out)
  <1>0. /\ q \in Seq(Packet) /\ Left(q, p, z)
        /\ RStage(u) \in Nat /\ SStage(xfer, t) \in Int /\ Len(u.files) \in Nat
        /\ u.pos \in Nat /\ u.f \in Nat /\ w.pos \in Nat /\ w.f \in Nat
        /\ u.pc \in ReceiverPcs
    BY ReadsItem
  <1>1. FilesInv(xfer, u) /\ ItemsInv(xfer, t, u, q) /\ SubInv(u, q)
    BY DEF ReceiverSteps, StepInv
  <1>2. /\ u.pc \in {"wait", "info", "again"} => u.f = 0
        /\ u.pc \in {"data", "sub"} => u.f # 0
        /\ w.f <= xfer.files /\ u.pos <= xfer.size /\ xfer.size \in Nat
        /\ u.files \in Seq([f : Nat, len : Nat, good : Nat])
    <2>1. u.good <= xfer.size /\ u.good = u.pos
      BY <1>1 DEF ReceiverSteps, HalvesTyped, ReceiverTyped, ReceiverBase, FilesInv
    <2>2. xfer.size \in Nat /\ ReceiverBase(xfer, u) /\ ReceiverBase(xfer, w)
      BY DEF ReceiverSteps, HalvesTyped, ReceiverTyped, XferOK
    <2>3. u.files \in Seq([f : Nat, len : Nat, good : Nat])
      BY <2>2 DEF ReceiverBase, ReceiverState
    <2> QED BY <1>0, <2>1, <2>2, <2>3 DEF ReceiverBase
  <1>3. Staged(p) => ItemOK(xfer, t, u, p) /\ Stage(p) \in Int /\ p.f \in Nat /\ p.pos \in Nat
    <2> SUFFICES ASSUME Staged(p)
                 PROVE  ItemOK(xfer, t, u, p) /\ Stage(p) \in Int /\ p.f \in Nat /\ p.pos \in Nat
      OBVIOUS
    <2>1. Len(q) \in Nat /\ Len(q) > 0 /\ p = q[1] /\ p \in Packet
      BY <1>0 DEF Left, None, Staged
    <2> QED BY <1>1, <2>1, ItemRange DEF ItemsInv
  <1>a. /\ u.pc \in {"info", "sub"} => Abreast(xfer, t, u, z)
        /\ Staged(p) /\ RStage(u) <= Stage(p) => Abreast(xfer, t, u, z)
        /\ p.k = "ZFILE" /\ u.f = 0 => Abreast(xfer, t, u, z)
    BY ComesAbreast
  <1>d. \* A data header or a ZEOF that comes while a file is open is of that file.
        u.f # 0 /\ p.k \in {"ZDATA", "ZEOF"} => Stage(p) = RStage(u) /\ p.f = u.f
    <2> SUFFICES ASSUME u.f # 0, p.k \in {"ZDATA", "ZEOF"} PROVE Stage(p) = RStage(u) /\ p.f = u.f
      OBVIOUS
    <2>1. Staged(p) /\ Stage(p) = 2 * p.f - 1 /\ RStage(u) = 2 * Len(u.files) + 1
      BY DEF Staged, Stage, RStage
    <2>2. RStage(u) - 1 <= Stage(p) /\ Stage(p) <= RStage(u) /\ p.f \in Nat
      BY <1>3, <2>1 DEF ItemOK
    <2>3. u.f = Len(u.files) + 1
      BY <1>1 DEF FilesInv
    <2>4. p.f = Len(u.files) + 1
      BY <1>0, <2>1, <2>2, Parity
    <2> QED BY <1>0, <2>1, <2>3, <2>4
  <1>b. /\ Answers(w, <<>>) /\ Answers(w, <<CancelItem>>)
        /\ Answers(w, <<Plain("ZFIN")>>) /\ Answers(w, <<Plain("ZNAK")>>)
        /\ w.f = 0 => Answers(w, <<Plain("ZRINIT")>>)
        /\ w.f # 0 => /\ Answers(w, <<Header("ZRPOS", 0, w.pos)>>)
                      /\ Answers(w, <<Header("ZACK", 0, w.pos)>>)
    BY <1>0, AnswersMade
  \* Nothing is opened, taken or closed.
  <1>4. CASE Keeps(u, w) /\ ~(u.pc = "info" /\ w.pc = "data")
    <2>1. FilesInv(xfer, w)
      BY <1>1, <1>4 DEF FilesInv, Keeps
    <2>2. RStage(w) = RStage(u) /\ w.f = u.f /\ u.pos <= w.pos /\ Len(u.files) <= Len(w.files)
      BY <1>0, <1>4 DEF RStage, Keeps
    <2>3. w.pc \in {"info", "sub"} => Abreast(xfer, t, u, z)
      <3>1. CASE u.pc \in {"info", "sub"}
        BY <1>a, <3>1
      <3>2. CASE u.pc = "data" /\ w.pc = "sub" /\ p.k = "ZDATA"
        <4>1. Staged(p) /\ Stage(p) = RStage(u)
          BY <1>2, <1>d, <3>2 DEF Staged
        <4> QED BY <1>0, <1>a, <4>1
      <3>3. CASE u.pc \in {"wait", "again"} /\ p.k = "ZFILE"
        BY <1>2, <1>a, <3>3
      <3> QED BY <1>0, <3>1, <3>2, <3>3 DEF ReceiverSteps, ReceiverMoves, ReceiverPcs, Done
    <2>4. Answers(w, out)
      <3>1. CASE u.pc \in {"data", "sub"} /\ p.k = "ZRQINIT"
        <4>1. Staged(p) /\ p.f = 0 /\ Stage(p) = -1 /\ RStage(u) = 2 * Len(u.files) + 1
          BY <1>2, <1>3, <3>1 DEF Staged, ItemOK, Stage, RStage
        <4>2. RStage(u) - 1 <= Stage(p)
          BY <1>3, <4>1 DEF ItemOK
        <4> QED BY <1>0, <4>1, <4>2
      <3>2. CASE ~(u.pc \in {"data", "sub"} /\ p.k = "ZRQINIT")
        <4>1. u.pc \in {"data", "sub"} => w.f # 0
          BY <1>2, <2>2
        <4>2. u.pc \in {"wait", "info", "again"} => w.f = 0
          BY <1>2, <2>2
        <4>3. p.k = "sub" => p.f \notin xfer.skip
          BY DEF ReceiverSteps, TakesAll
        <4>4. ReceiverMoves(xfer, u, p, w, out)
          BY DEF ReceiverSteps
        <4>5. \/ out \in {<<>>, <<CancelItem>>, <<Plain("ZFIN")>>, <<Plain("ZNAK")>>}
              \/ u.pc \in {"wait", "data"} /\ out = <<Plain("ZRINIT")>> /\ w.f = 0
              \/ u.pc \in {"data", "sub", "info"} /\ w.f # 0
                 /\ out \in {<<Header("ZRPOS", 0, w.pos)>>, <<Header("ZACK", 0, w.pos)>>}
          BY <1>2, <1>4, <3>2, <4>1, <4>2, <4>3, <4>4 DEF ReceiverMoves, Done
        <4> QED BY <1>b, <4>5
      <3> QED BY <3>1, <3>2
    <2> QED BY <2>1, <2>2, <2>3, <2>4 DEF ReceiverStage
  \* TakeInfo.
  <1>5. CASE /\ u.pc = "info" /\ p.k = "sub" /\ w.pc = "data"
             /\ w.f = p.f /\ w.pos = 0 /\ w.good = 0 /\ w.files = u.files
             /\ out = <<Header("ZRPOS", 0, w.pos)>>
    <2>1. Staged(p) /\ u.f = 0 /\ RStage(u) = 2 * Len(u.files)
      BY <1>2, <1>5 DEF Staged, RStage
    <2>2. /\ RStage(u) <= Stage(p) /\ Stage(p) <= RStage(u) /\ p.f \in 1..xfer.files
          /\ Stage(p) = 2 * p.f - 2 \/ Stage(p) = 2 * p.f - 1
      BY <1>3, <1>5, <2>1 DEF ItemOK, Stage
    <2>3. p.f = Len(u.files) + 1
      BY <1>0, <1>3, <2>1, <2>2
    <2>4. w.f # 0 /\ w.f = Len(u.files) + 1
      BY <1>0, <1>5, <2>3
    <2>5. FilesInv(xfer, w)
      BY <1>1, <1>5, <2>4 DEF FilesInv
    <2>6. RStage(w) = RStage(u) + 1
      BY <1>0, <1>5, <2>1, <2>4 DEF RStage
    <2>7. ReceiverStage(xfer, t, u, w, z)
      BY <1>0, <1>5, <1>a, <2>1, <2>6 DEF ReceiverStage
    <2> QED BY <1>5, <1>b, <2>4, <2>5, <2>7
  \* TakeSub.
  <1>6. CASE /\ u.pc = "sub" /\ ~u.junk /\ p.k = "sub" /\ w.pc \in {"sub", "data"}
             /\ w.f = u.f /\ w.pos = u.pos + 1 /\ w.files = u.files
             /\ w.good = IF u.good = u.pos /\ p.f = u.f /\ p.pos = u.pos + 1 THEN u.good + 1 ELSE u.good
             /\ out \in {<<>>, <<Header("ZACK", 0, w.pos)>>}
    <2>1. Staged(p) /\ u.f # 0 /\ RStage(u) = 2 * Len(u.files) + 1 /\ u.f = Len(u.files) + 1
      BY <1>1, <1>2, <1>6 DEF Staged, RStage, FilesInv
    <2>2. /\ RStage(u) <= Stage(p) /\ Stage(p) <= RStage(u) /\ p.f \in 1..xfer.files
          /\ Stage(p) = 2 * p.f - 2 \/ Stage(p) = 2 * p.f - 1
      BY <1>3, <1>6, <2>1 DEF ItemOK, Stage
    <2>3. p.f = u.f
      <3>1. RStage(u) \in Int /\ Len(u.files) \in Int /\ p.f \in Int /\ Stage(p) \in Int
        BY <1>0, <2>2
      <3>2. Stage(p) = 2 * Len(u.files) + 1
        BY <2>1, <2>2, <3>1, Squeeze
      <3> QED BY <2>1, <2>2, <3>1, <3>2, Parity
    <2>4. p.pos <= u.pos + 1
      BY <1>3, <1>6, <2>1, <2>3 DEF ItemOK
    <2>5. p.pos >= u.pos + 1
      <3>1. Len(q) \in Nat /\ Len(q) > 0 /\ p = q[1]
        BY <1>0, <1>6 DEF Left, None
      <3>2. 1 \in 1..Len(q) /\ \A j \in 1..1 - 1 : IsCancel(q[j])
        BY <3>1
      <3> QED BY <1>1, <1>6, <3>1, <3>2 DEF SubInv
    <2>6. p.pos = u.pos + 1
      BY <1>0, <1>3, <2>1, <2>4, <2>5
    <2>7. w.good = w.pos
      BY <1>1, <1>6, <2>3, <2>6 DEF FilesInv
    <2>8. FilesInv(xfer, w)
      BY <1>1, <1>6, <2>7 DEF FilesInv
    <2>9. ReceiverStage(xfer, t, u, w, z)
      BY <1>0, <1>6, <1>a DEF ReceiverStage, RStage
    <2> QED BY <1>6, <1>b, <2>1, <2>8, <2>9
  \* TakeEof.
  <1>7. CASE /\ u.pc = "data" /\ p.k = "ZEOF" /\ p.pos = u.pos /\ w.pc = "wait"
             /\ w.f = 0 /\ w.pos = 0 /\ w.good = 0
             /\ w.files = Append(u.files, [f |-> u.f, len |-> u.pos, good |-> u.good])
             /\ out = <<Plain("ZRINIT")>>
    <2>1. Staged(p) /\ u.f # 0 /\ Stage(p) = RStage(u) /\ u.f = Len(u.files) + 1 /\ u.good = u.pos
      BY <1>1, <1>2, <1>7, <1>d DEF Staged, FilesInv
    <2>2. u.pos = xfer.size
      BY <1>3, <1>7, <2>1 DEF ItemOK
    <2>3. Len(w.files) = Len(u.files) + 1
      BY <1>2, <1>7
    <2>4. u.f <= xfer.files
      BY DEF ReceiverSteps, HalvesTyped, ReceiverTyped, ReceiverBase
    <2>5. \A i \in 1..Len(w.files) : w.files[i] = [f |-> i, len |-> xfer.size, good |-> xfer.size]
      <3>1. \A i \in 1..Len(w.files) : i \in 1..Len(u.files) \/ i = Len(u.files) + 1
        BY <1>0, <2>3
      <3>2. \A i \in 1..Len(u.files) : w.files[i] = u.files[i]
        BY <1>2, <1>7
      <3>3. w.files[Len(u.files) + 1] = [f |-> u.f, len |-> u.pos, good |-> u.good]
        BY <1>2, <1>7
      <3> QED BY <1>1, <2>1, <2>2, <3>1, <3>2, <3>3 DEF FilesInv
    <2>6. FilesInv(xfer, w)
      BY <1>7, <2>1, <2>3, <2>4, <2>5 DEF FilesInv
    <2>7. RStage(w) = RStage(u) + 1
      BY <1>0, <1>7, <2>1, <2>3 DEF RStage
    <2>8. Abreast(xfer, t, u, z)
      BY <1>0, <1>a, <2>1
    <2>9. ReceiverStage(xfer, t, u, w, z)
      BY <1>0, <1>7, <2>3, <2>7, <2>8 DEF ReceiverStage
    <2> QED BY <1>7, <1>b, <2>6, <2>9
  <1> QED BY <1>4, <1>5, <1>6, <1>7 DEF ReceiverSteps, ReceiverMoves, Done

\* The answer of a receiver belongs to the stage it is at.
LEMMA AnswerStage ==
  ASSUME XferOK, NEW t, NEW w, HalvesTyped(xfer, t, w), t.pc \notin Done, NEW e,
         e.k = "ZRINIT" => w.f = 0, e.k \in {"ZRPOS", "ZACK"} => w.f # 0
  PROVE  /\ Coming(t, e) => RStage(w) # SStage(xfer, t)
         /\ Current(t, e) => RStage(w) # SStage(xfer, t) + 1
  <1>0. Len(w.files) \in Nat /\ t.f \in Nat /\ t.pc \in SenderPcs /\ xfer.files \in Nat
    BY Ranges DEF XferOK
  <1>1. RStage(w) = IF w.f = 0 THEN 2 * Len(w.files) ELSE 2 * Len(w.files) + 1
    BY DEF RStage
  <1>2. Asks(t) => SStage(xfer, t) = 2 * t.f - 2 \/ SStage(xfer, t) = 2 * xfer.files
    BY DEF Asks, SStage
  <1>3. ~Asks(t) => SStage(xfer, t) = -1 \/ SStage(xfer, t) = 2 * t.f - 1
    BY DEF Asks, SStage
  <1>4. w.f = 0 => (Asks(t) => RStage(w) # SStage(xfer, t) + 1) /\ (~Asks(t) => RStage(w) # SStage(xfer, t))
    BY <1>0, <1>1, <1>2, <1>3
  <1>5. w.f # 0 => (Asks(t) => RStage(w) # SStage(xfer, t)) /\ (~Asks(t) => RStage(w) # SStage(xfer, t) + 1)
    BY <1>0, <1>1, <1>2, <1>3
  <1> QED BY <1>4, <1>5 DEF Coming, Current

LEMMA ReceiverKeeps ==
  ASSUME NEW t, NEW u, NEW w, NEW q, NEW a, NEW l, NEW p, NEW out, NEW z,
         ReceiverSteps(xfer, t, u, w, q, a, l, p, out, z), NEW b, b = a \/ b = a \o out
  PROVE  StepInv(xfer, t, w, z, b, l)
  <1>0. /\ q \in Seq(Packet) /\ a \in Seq(Packet) /\ Left(q, p, z)
        /\ RStage(u) \in Nat /\ RStage(w) \in Nat /\ SStage(xfer, t) \in Int
        /\ Len(u.files) \in Nat /\ Len(w.files) \in Nat
        /\ t.pos \in Nat /\ t.f \in Nat /\ u.pos \in Nat /\ u.f \in Nat /\ w.pos \in Nat /\ w.f \in Nat
        /\ u.pc \in ReceiverPcs /\ w.pc \in ReceiverPcs
    BY ReadsItem
  <1>1. FilesInv(xfer, w)
    BY ReceiverStages
  <1>g. ReceiverStage(xfer, t, u, w, z) /\ Answers(w, out)
    BY ReceiverStages
  <1>i. /\ FilesInv(xfer, u) /\ ItemsInv(xfer, t, u, q) /\ OrderInv(q) /\ FrameInv(t, q) /\ SubInv(u, q)
        /\ PosInv(xfer, t, u, a) /\ AnswerInv(xfer, t, u, a) /\ RunInv(t, u, q, l)
        /\ FinInv(xfer, t, u)
    BY DEF ReceiverSteps, StepInv
  <1>z. PICK n \in {0, 1} : /\ Len(q) \in Nat /\ Len(z) \in Nat /\ Len(z) + n = Len(q)
                            /\ \A j \in 1..Len(z) : j + n \in 1..Len(q) /\ z[j] = q[j + n] /\ z[j] \in Packet
                            /\ n = 0 => p = None
                            /\ n = 1 => p = q[1] /\ Len(q) > 0
    <2>1. CASE z = q /\ p = None
      BY <1>0, <2>1 DEF Left
    <2>2. CASE /\ Len(q) > 0 /\ p = q[1] /\ Len(z) = Len(q) - 1
               /\ \A j \in 1..Len(z) : z[j] = q[j + 1]
      <3>1. Len(q) \in Nat /\ Len(z) \in Nat /\ z \in Seq(Packet)
        BY <1>0 DEF Left
      <3>2. Len(z) + 1 = Len(q) /\ \A j \in 1..Len(z) : j + 1 \in 1..Len(q) /\ z[j] \in Packet
        BY <2>2, <3>1
      <3> WITNESS 1 \in {0, 1}
      <3> QED BY <2>2, <3>1, <3>2
    <2> QED BY <1>0, <2>1, <2>2 DEF Left
  <1>2. ItemsInv(xfer, t, w, z)
    <2> SUFFICES ASSUME NEW i \in 1..Len(z), Staged(z[i]) PROVE ItemOK(xfer, t, w, z[i])
      BY DEF ItemsInv, ItemOK
    <2>1. ItemOK(xfer, t, u, z[i]) /\ Stage(z[i]) \in Int /\ z[i].f \in Nat /\ z[i].pos \in Nat
      BY <1>i, <1>z, ItemRange DEF ItemsInv
    <2>2. RStage(w) - 1 <= Stage(z[i]) /\ Stage(z[i]) <= RStage(w)
      BY <1>0, <1>g, <2>1 DEF ItemOK, ReceiverStage, Abreast
    <2>3. w.pc \in {"info", "sub"} => RStage(w) <= Stage(z[i])
      BY <1>g DEF ReceiverStage, Abreast
    <2>4. w.f # 0 /\ z[i].k = "sub" /\ z[i].f = w.f => z[i].pos <= w.pos + 1
      <3>1. CASE w.f = u.f /\ u.pos <= w.pos
        <4> SUFFICES ASSUME w.f # 0, z[i].k = "sub", z[i].f = w.f PROVE z[i].pos <= w.pos + 1
          OBVIOUS
        <4>1. z[i].pos <= u.pos + 1
          BY <2>1, <3>1 DEF ItemOK
        <4>2. z[i].pos \in Nat /\ u.pos \in Nat /\ w.pos \in Nat
          BY <1>0, <2>1
        <4> QED BY <3>1, <4>1, <4>2
      <3>2. CASE RStage(w) = RStage(u) + 1 /\ (w.f = 0 \/ u.f = 0)
        <4> SUFFICES ASSUME w.f # 0, z[i].k = "sub", z[i].f = w.f PROVE z[i].pos = 0
          BY <1>0
        <4>1. u.f = 0 /\ w.f = Len(w.files) + 1
          BY <1>1, <3>2 DEF FilesInv
        <4>2. RStage(u) = 2 * Len(u.files) /\ RStage(w) = 2 * Len(w.files) + 1
          BY <4>1 DEF RStage
        <4>3. Stage(z[i]) <= RStage(u)
          BY <2>1 DEF ItemOK
        <4>4. z[i].pos # 0 => Stage(z[i]) = 2 * w.f - 1
          BY DEF Stage
        <4> QED BY <1>0, <3>2, <4>1, <4>2, <4>3, <4>4
      <3> QED BY <1>g, <3>1, <3>2 DEF ReceiverStage
    <2> QED BY <2>1, <2>2, <2>3, <2>4 DEF ItemOK
  <1>3. OrderInv(z) /\ FrameInv(t, z)
    <2>1. Shifted(q, z, n)
      BY <1>z DEF Shifted, SameItem
    <2> QED BY <1>i, <2>1, ToRShifts
  <1>6. PosInv(xfer, t, w, b)
    <2> SUFFICES ASSUME t.pc \notin Done
                 PROVE  /\ RStage(w) - 1 <= SStage(xfer, t) /\ SStage(xfer, t) <= RStage(w)
                        /\ w.f # 0 /\ SStage(xfer, t) = RStage(w) => t.pos <= w.pos
                        /\ w.f # 0 => \A i \in 1..Len(b) : b[i].k \in {"ZRPOS", "ZACK"} => b[i].pos <= w.pos
                        /\ w.pc \in {"info", "sub"} => SStage(xfer, t) = RStage(w)
      BY DEF PosInv
    <2>1. RStage(w) - 1 <= SStage(xfer, t) /\ SStage(xfer, t) <= RStage(w)
      BY <1>0, <1>g, <1>i DEF PosInv, ReceiverStage, Abreast
    <2>2. w.f # 0 /\ SStage(xfer, t) = RStage(w) => t.pos <= w.pos
      BY <1>0, <1>g, <1>i DEF PosInv, ReceiverStage, Abreast
    <2>3. w.pc \in {"info", "sub"} => SStage(xfer, t) = RStage(w)
      BY <1>g DEF ReceiverStage, Abreast
    <2>4. ASSUME w.f # 0, NEW i \in 1..Len(a), a[i].k \in {"ZRPOS", "ZACK"} PROVE a[i].pos <= w.pos
      <3>0. a[i].pos \in Nat
        BY <1>0, <2>4, PacketFields
      <3>1. CASE w.f = u.f /\ u.pos <= w.pos
        <4>1. a[i].pos <= u.pos
          BY <1>i, <2>4, <3>1 DEF PosInv
        <4>2. u.pos \in Int /\ w.pos \in Int /\ a[i].pos \in Int
          BY <1>0, <3>0
        <4> QED BY <3>1, <4>1, <4>2
      <3>2. CASE RStage(w) = RStage(u) + 1 /\ Abreast(xfer, t, u, z) /\ (w.f = 0 \/ u.f = 0)
        <4>1. SStage(xfer, t) = RStage(u) /\ u.f = 0
          BY <2>4, <3>2 DEF Abreast
        <4>2. Asks(t)
          <5>1. RStage(u) = 2 * Len(u.files)
            BY <4>1 DEF RStage
          <5>2. ~Asks(t) => SStage(xfer, t) = -1 \/ SStage(xfer, t) = 2 * t.f - 1
            BY DEF Asks, SStage
          <5> QED BY <1>0, <4>1, <5>1, <5>2
        <4>3. Coming(t, a[i])
          BY <2>4, <4>2 DEF Coming
        <4>4. RStage(u) = SStage(xfer, t) + 1
          BY <1>i, <4>3 DEF AnswerInv
        <4> QED BY <1>0, <4>1, <4>4
      <3> QED BY <1>g, <3>1, <3>2 DEF ReceiverStage
    <2>5. ASSUME w.f # 0, NEW i \in 1..Len(out), out[i].k \in {"ZRPOS", "ZACK"} PROVE out[i].pos <= w.pos
      BY <1>0, <1>g, <2>5 DEF Answers
    <2>6. \A i \in 1..Len(b) : (\E j \in 1..Len(a) : b[i] = a[j]) \/ (\E j \in 1..Len(out) : b[i] = out[j])
      <3>1. CASE b = a
        BY <3>1
      <3>2. CASE b = a \o out
        <4>1. out \in Seq(Packet)
          BY <1>g DEF Answers
        <4>2. /\ Len(a) \in Nat /\ Len(out) \in Nat /\ Len(b) = Len(a) + Len(out)
              /\ \A i \in 1..Len(a) : b[i] = a[i]
              /\ \A i \in 1..Len(b) : i > Len(a) => b[i] = out[i - Len(a)]
          BY <1>0, <3>2, <4>1, ConcatFacts
        <4>3. \A i \in 1..Len(b) : i \in 1..Len(a) \/ (i > Len(a) /\ i - Len(a) \in 1..Len(out))
          BY <4>2
        <4> QED BY <4>2, <4>3
      <3> QED BY <3>1, <3>2
    <2> QED BY <2>1, <2>2, <2>3, <2>4, <2>5, <2>6
  <1>9. FinInv(xfer, t, w)
    BY <1>0, <1>1, <1>g, <1>i DEF FinInv, FilesInv, ReceiverStage, ReceiverSteps, XferOK
  \* A receiver comes to wait for a subpacket on the header or the data at its position.
  <1>s. ASSUME w.pc = "sub", ~w.junk
        PROVE  p # None /\ p.k \in {"ZDATA", "sub"} /\ p.pos = w.pos /\ w.f # 0
    <2>1. w.f # 0
      BY <1>s DEF ReceiverSteps, HalvesTyped, ReceiverTyped, ReceiverBase
    <2>2. CASE p.k = "ZDATA" /\ p.pos = u.pos /\ Keeps(u, w)
      BY <2>1, <2>2 DEF Keeps, None
    <2>3. CASE u.pc = "sub" /\ ~u.junk /\ p.k = "sub" /\ w.f = u.f /\ w.pos = u.pos + 1
      <3>1. Len(q) \in Nat /\ Len(q) > 0 /\ p = q[1] /\ p \in Packet
        BY <1>0, <2>3 DEF Left, None
      <3>2. Staged(p) /\ ItemOK(xfer, t, u, p) /\ p.f \in Nat /\ p.pos \in Nat /\ Stage(p) \in Int
        BY <1>i, <2>3, <3>1, ItemRange DEF ItemsInv, Staged
      <3>3. RStage(u) = Stage(p) /\ RStage(u) = 2 * Len(u.files) + 1 /\ u.f = Len(u.files) + 1
        <4>1. RStage(u) = 2 * Len(u.files) + 1 /\ u.f = Len(u.files) + 1
          BY <1>i, <2>1, <2>3 DEF RStage, FilesInv
        <4>2. RStage(u) <= Stage(p) /\ Stage(p) <= RStage(u)
          BY <2>3, <3>2 DEF ItemOK
        <4>3. RStage(u) \in Int /\ Stage(p) \in Int
          BY <1>0, <3>2
        <4> QED BY <4>1, <4>2, <4>3, Squeeze
      <3>4. Stage(p) = 2 * p.f - 2 \/ Stage(p) = 2 * p.f - 1
        BY DEF Stage
      <3>5. p.f = u.f
        <4>1. 2 * Len(u.files) + 1 = 2 * p.f - 2 \/ 2 * Len(u.files) + 1 = 2 * p.f - 1
          BY <3>3, <3>4
        <4>2. Len(u.files) \in Int /\ p.f \in Int
          BY <1>0, <3>2
        <4>3. p.f = Len(u.files) + 1
          BY <4>1, <4>2, Parity
        <4> QED BY <3>3, <4>3
      <3>6. p.pos <= u.pos + 1
        BY <2>1, <2>3, <3>2, <3>5 DEF ItemOK
      <3>7. p.pos >= u.pos + 1
        <4>1. 1 \in 1..Len(q) /\ \A j \in 1..1 - 1 : IsCancel(q[j])
          BY <3>1
        <4> QED BY <1>i, <2>3, <3>1, <4>1 DEF SubInv
      <3> QED BY <1>0, <2>1, <2>3, <3>2, <3>6, <3>7 DEF None
    <2> QED BY <1>s, <2>2, <2>3 DEF ReceiverSteps, ReceiverMoves, Done
  <1>5. SubInv(w, z)
    <2> SUFFICES ASSUME w.pc = "sub", ~w.junk, NEW i \in 1..Len(z), z[i].k = "sub",
                        \A j \in 1..i - 1 : IsCancel(z[j])
                 PROVE  z[i].pos >= w.pos + 1
      BY DEF SubInv
    <2>1. /\ p # None /\ p.k \in {"ZDATA", "sub"}
          /\ p.k = "ZDATA" => p.pos = w.pos
          /\ p.k = "sub" => p.pos = w.pos
          /\ w.f # 0
      BY <1>s
    <2>2. n = 1 /\ p = q[1] /\ Len(q) > 0
      BY <1>z, <2>1
    <2>3. i = 1
      <3>1. ASSUME i > 1 PROVE FALSE
        <4>1. 1 \in 1..i - 1 /\ 1 \in 1..Len(z)
          BY <1>z, <3>1
        <4>2. IsCancel(z[1]) /\ z[1] = q[2] /\ 2 \in 1..Len(q)
          BY <1>z, <2>2, <4>1
        <4>c. IsCancel(q[2])
          BY <4>2
        <4>3. IsCancel(q[1]) \/ 2 = Len(q)
          <5>1. \A k \in 1..Len(q) : k > 1 /\ IsCancel(q[k]) => IsCancel(q[k - 1]) \/ k = Len(q)
            BY <1>i DEF FrameInv
          <5>2. 2 > 1 /\ 2 - 1 = 1
            OBVIOUS
          <5> QED BY <4>2, <4>c, <5>1, <5>2
        <4>4. 2 = Len(q)
          BY <2>1, <2>2, <4>3 DEF IsCancel
        <4>5. Len(z) \in Nat /\ Len(z) + 1 = Len(q) /\ i <= Len(z) /\ i \in Nat
          BY <1>z, <2>2
        <4>6. Len(z) + 1 = 2
          BY <4>4, <4>5
        <4> QED BY <3>1, <4>5, <4>6
      <3> QED BY <1>z, <3>1
    <2>4. z[i] = q[2] /\ 2 \in 1..Len(q)
      BY <1>z, <2>2, <2>3
    <2>5. IsData(q[2])
      <3>1. ItemOK(xfer, t, w, z[i]) /\ Staged(z[i])
        BY <1>2 DEF ItemsInv, Staged
      <3>2. RStage(w) = Stage(z[i]) /\ z[i].f \in Nat /\ z[i].pos \in Nat
        BY <1>0, <1>z, <3>1, ItemRange DEF ItemOK
      <3>3. RStage(w) = 2 * Len(w.files) + 1
        BY <2>1 DEF RStage
      <3>4. z[i].pos = 0 => Stage(z[i]) = 2 * z[i].f - 2
        BY DEF Stage
      <3>5. z[i].pos # 0
        <4>1. z[i].pos = 0 => 2 * Len(w.files) + 1 = 2 * z[i].f - 2
          BY <3>2, <3>3, <3>4
        <4>2. Len(w.files) \in Int /\ z[i].f \in Int
          BY <1>0, <3>2
        <4> QED BY <4>1, <4>2, Parity
      <3> QED BY <2>4, <3>2, <3>5 DEF IsData
    <2>6. q[1].pos + 1 = q[2].pos
      <3>1. ~IsCancel(q[1])
        BY <2>1, <2>2 DEF IsCancel
      <3> QED BY <1>i, <2>4, <2>5, <3>1 DEF FrameInv
    <2> QED BY <1>0, <2>1, <2>2, <2>4, <2>6
  <1>7. AnswerInv(xfer, t, w, b)
    <2> SUFFICES ASSUME t.pc \notin Done, NEW i \in 1..Len(b)
                 PROVE  /\ b[i].k # "ZSKIP"
                        /\ Coming(t, b[i]) => /\ RStage(w) = SStage(xfer, t) + 1
                                              /\ \A j \in 1..Len(b) : j > i => ~Current(t, b[j])
      BY DEF AnswerInv
    <2>0. RStage(w) - 1 <= SStage(xfer, t) /\ SStage(xfer, t) <= RStage(w)
      BY <1>6 DEF PosInv
    \* An answer under way.
    <2>1. ASSUME NEW j \in 1..Len(a)
          PROVE  /\ a[j].k # "ZSKIP"
                 /\ Coming(t, a[j]) => /\ RStage(w) = SStage(xfer, t) + 1
                                       /\ \A k \in 1..Len(a) : k > j => ~Current(t, a[k])
      BY <1>0, <1>g, <1>i DEF AnswerInv, ReceiverStage, Abreast
    \* The new answer.
    <2>2. ASSUME NEW j \in 1..Len(out)
          PROVE  /\ out[j].k # "ZSKIP"
                 /\ Coming(t, out[j]) => RStage(w) = SStage(xfer, t) + 1
                 /\ Current(t, out[j]) => RStage(w) # SStage(xfer, t) + 1
      <3>1. out[j].k # "ZSKIP" /\ (out[j].k = "ZRINIT" => w.f = 0)
            /\ (out[j].k \in {"ZRPOS", "ZACK"} => w.f # 0)
        BY <1>g DEF Answers
      <3>2. XferOK /\ HalvesTyped(xfer, t, w)
        BY DEF ReceiverSteps
      <3>3. /\ Coming(t, out[j]) => RStage(w) # SStage(xfer, t)
            /\ Current(t, out[j]) => RStage(w) # SStage(xfer, t) + 1
        BY <3>1, <3>2, AnswerStage
      <3>4. RStage(w) \in Int /\ SStage(xfer, t) \in Int
        BY <1>0
      <3>5. RStage(w) # SStage(xfer, t) => RStage(w) = SStage(xfer, t) + 1
        BY <2>0, <3>4, Squeeze
      <3> QED BY <3>1, <3>3, <3>5
    <2>3. CASE b = a
      BY <2>1, <2>3
    <2>4. CASE b = a \o out
      <3>1. out \in Seq(Packet) /\ Len(out) <= 1
        BY <1>g DEF Answers
      <3>2. /\ Len(a) \in Nat /\ Len(out) \in Nat /\ Len(b) = Len(a) + Len(out)
            /\ \A k \in 1..Len(a) : b[k] = a[k]
            /\ \A k \in 1..Len(b) : k > Len(a) => b[k] = out[k - Len(a)]
        BY <1>0, <2>4, <3>1, ConcatFacts
      <3>3. \A k \in 1..Len(b) : \/ k \in 1..Len(a) /\ b[k] = a[k]
                                 \/ k > Len(a) /\ 1 \in 1..Len(out) /\ b[k] = out[1]
        BY <3>1, <3>2
      <3>4. CASE i \in 1..Len(a)
        <4>1. ASSUME Coming(t, a[i]), NEW j \in 1..Len(b), j > i PROVE ~Current(t, b[j])
          <5>1. RStage(w) = SStage(xfer, t) + 1 /\ \A k \in 1..Len(a) : k > i => ~Current(t, a[k])
            BY <2>1, <3>4, <4>1
          <5>2. 1 \in 1..Len(out) => ~Current(t, out[1])
            BY <2>2, <5>1
          <5> QED BY <3>3, <4>1, <5>1, <5>2
        <4> QED BY <2>1, <3>2, <3>4, <4>1
      <3>5. CASE i > Len(a)
        <4>1. 1 \in 1..Len(out) /\ b[i] = out[1]
          BY <3>3, <3>5, <3>2
        <4>2. \A j \in 1..Len(b) : ~(j > i)
          BY <3>1, <3>2, <3>5
        <4> QED BY <2>2, <4>1, <4>2
      <3> QED BY <3>3, <3>4, <3>5
    <2> QED BY <2>3, <2>4
  <1>8. RunInv(t, w, z, l)
    <2> SUFFICES ASSUME t.pc = "data", l, w.pc \notin Done
                 PROVE  /\ Len(z) > 0 =>
                             \/ IsCancel(z[Len(z)])
                             \/ z[Len(z)].k = "sub" /\ z[Len(z)].f = t.f /\ z[Len(z)].pos = t.pos + 1
                        /\ w.pc = "sub" /\ ~w.junk /\ (\A i \in 1..Len(z) : IsCancel(z[i])) =>
                             w.pos <= t.pos + 1
      BY DEF RunInv
    <2>0. u.pc \notin Done
      BY DEF ReceiverSteps
    <2>1. Len(q) > 0 => \/ IsCancel(q[Len(q)])
                        \/ q[Len(q)].k = "sub" /\ q[Len(q)].f = t.f /\ q[Len(q)].pos = t.pos + 1
      BY <1>i, <2>0 DEF RunInv
    <2>2. Len(z) > 0 => Len(q) > 0 /\ z[Len(z)] = q[Len(q)]
      <3>1. Len(z) > 0 => Len(z) \in 1..Len(z) /\ Len(q) > 0
        BY <1>z
      <3> QED BY <1>z, <3>1
    <2>3. ASSUME w.pc = "sub", ~w.junk, \A i \in 1..Len(z) : IsCancel(z[i]) PROVE w.pos <= t.pos + 1
      <3>1. p # None /\ p.k \in {"ZDATA", "sub"} /\ p.pos = w.pos
        BY <1>s, <2>3
      <3>2. n = 1 /\ p = q[1] /\ Len(q) > 0
        BY <1>z, <3>1
      <3>3. CASE Len(z) = 0
        <4>1. Len(q) = 1
          BY <1>z, <3>2, <3>3
        <4> QED BY <1>0, <2>1, <3>1, <3>2, <4>1 DEF IsCancel
      <3>4. CASE Len(z) # 0
        <4>1. 1 \in 1..Len(z) /\ 2 \in 1..Len(q) /\ z[1] = q[2]
          BY <1>z, <3>2, <3>4
        <4>2. IsCancel(q[2])
          BY <2>3, <4>1
        <4>3. IsCancel(q[1])
          BY <1>i, <4>1, <4>2 DEF FrameInv, Done
        <4> QED BY <3>1, <3>2, <4>3 DEF IsCancel
      <3> QED BY <3>3, <3>4
    <2> QED BY <2>1, <2>2, <2>3
  <1> QED BY <1>1, <1>2, <1>3, <1>5, <1>6, <1>7, <1>8, <1>9 DEF StepInv

-----------------------------------------------------------------------------
(* The faults of the line.                                                  *)

LEMMA FaultKeeps ==
  ASSUME XferOK, NEW t, NEW u, HalvesTyped(xfer, t, u), NEW q \in Seq(Packet), NEW a, NEW l,
         StepInv(xfer, t, u, q, a, l),
         NEW z, NEW n, Shifted(q, z, n), n = 1 => q[1].k # "ZDATA",
         NEW b, NEW m, Shifted(a, b, m)
  PROVE  StepInv(xfer, t, u, z, b, l)
  <1>0. /\ RStage(u) \in Nat /\ Len(u.files) \in Nat /\ t.pos \in Nat /\ u.pos \in Nat
        /\ Len(q) \in Nat /\ Len(z) \in Nat /\ Len(z) + n = Len(q) /\ n \in {-1, 0, 1}
    BY Ranges DEF Shifted
  <1>i. /\ FilesInv(xfer, u) /\ ItemsInv(xfer, t, u, q) /\ OrderInv(q) /\ FrameInv(t, q) /\ SubInv(u, q)
        /\ PosInv(xfer, t, u, a) /\ AnswerInv(xfer, t, u, a) /\ RunInv(t, u, q, l)
        /\ FinInv(xfer, t, u)
    BY DEF StepInv
  <1>1. ItemsInv(xfer, t, u, z) /\ OrderInv(z) /\ FrameInv(t, z)
    BY <1>i, ToRShifts
  <1>2. PosInv(xfer, t, u, b) /\ AnswerInv(xfer, t, u, b)
    BY <1>i, ToSShifts
  <1>3. \A j \in 1..Len(z) : \/ j + n \in 1..Len(q) /\ SameItem(z[j], q[j + n])
                             \/ j = 1 /\ n = -1 /\ IsCancel(z[j])
    BY DEF Shifted
  <1>b. \* The item behind a lost one is no cancel, unless the lost one is or it is the last.
        ASSUME n = 1, Len(z) > 0, ~IsCancel(q[1]), IsCancel(z[1])
        PROVE  Len(z) + 1 = 2 /\ t.pc \in Done
    <2>1. 1 \in 1..Len(z) /\ 2 \in 1..Len(q)
      BY <1>0, <1>b
    <2>2. SameItem(z[1], q[2])
      BY <1>3, <1>b, <2>1
    <2>3. IsCancel(q[2])
      BY <1>b, <2>2 DEF SameItem, IsCancel
    <2>4. 2 = Len(q) /\ t.pc \in Done
      <3>1. \A k \in 1..Len(q) : k > 1 /\ IsCancel(q[k]) => IsCancel(q[k - 1]) \/ (k = Len(q) /\ t.pc \in Done)
        BY <1>i DEF FrameInv
      <3>2. 2 > 1 /\ 2 - 1 = 1
        OBVIOUS
      <3> QED BY <1>b, <2>1, <2>3, <3>1, <3>2
    <2>5. Len(z) + 1 = Len(q)
      BY <1>0, <1>b
    <2> QED BY <2>4, <2>5
  <1>4. SubInv(u, z)
    <2> SUFFICES ASSUME u.pc = "sub", ~u.junk, NEW i \in 1..Len(z), z[i].k = "sub",
                        \A j \in 1..i - 1 : IsCancel(z[j])
                 PROVE  z[i].pos >= u.pos + 1
      BY DEF SubInv
    <2>1. i + n \in 1..Len(q) /\ q[i + n].k = "sub" /\ z[i].pos = q[i + n].pos
      <3>1. ~IsCancel(z[i])
        BY DEF IsCancel
      <3>2. i + n \in 1..Len(q) /\ SameItem(z[i], q[i + n])
        BY <1>3, <3>1
      <3> QED BY <3>2 DEF SameItem, IsCancel
    <2>2. ASSUME NEW j \in 1..(i + n) - 1, n = 1 => j > 1 PROVE IsCancel(q[j])
      <3>0. i \in Int /\ j \in Int /\ n \in Int /\ Len(z) \in Int /\ 1 <= i /\ i <= Len(z) /\ 1 <= j /\ j + 1 <= i + n
        BY <1>0
      <3>a. j - n \in Int /\ j - n + 1 <= i /\ j - n <= i - 1 /\ j - n <= Len(z) /\ (j - n) + n = j
        BY <3>0
      <3>b. 1 <= j - n /\ ~(j - n = 1 /\ n = -1)
        <4>1. CASE n = 1
          BY <2>2, <3>0, <4>1
        <4>2. CASE n = 0
          BY <3>0, <4>2
        <4>3. CASE n = -1
          BY <3>0, <4>3
        <4> QED BY <1>0, <4>1, <4>2, <4>3
      <3>1. j - n \in 1..i - 1 /\ j - n \in 1..Len(z)
        BY <3>0, <3>a, <3>b
      <3>2. IsCancel(z[j - n]) /\ SameItem(z[j - n], q[j])
        BY <1>3, <3>1, <3>a, <3>b
      <3> QED BY <3>2 DEF SameItem, IsCancel
    <2>3. CASE n # 1 \/ IsCancel(q[1])
      <3>1. \A j \in 1..(i + n) - 1 : IsCancel(q[j])
        <4> SUFFICES ASSUME NEW j \in 1..(i + n) - 1 PROVE IsCancel(q[j])
          OBVIOUS
        <4>1. CASE j = 1 /\ n = 1
          BY <2>3, <4>1
        <4>2. CASE ~(j = 1 /\ n = 1)
          BY <2>2, <4>2
        <4> QED BY <4>1, <4>2
      <3> QED BY <1>i, <2>1, <3>1 DEF SubInv
    <2>4. CASE n = 1 /\ ~IsCancel(q[1])
      <3>1. i = 1
        <4>1. ASSUME i > 1 PROVE FALSE
          <5>1. IsCancel(z[1]) /\ Len(z) > 0 /\ Len(z) > 1
            BY <1>0, <4>1
          <5>2. Len(z) + 1 = 2
            BY <1>b, <2>4, <5>1
          <5>3. Len(z) \in Int
            BY <1>0
          <5> QED BY <5>1, <5>2, <5>3
        <4> QED BY <4>1
      <3>2. 2 \in 1..Len(q) /\ 1 \in 1..Len(q) /\ q[2].k = "sub" /\ z[i].pos = q[2].pos
        <4>1. i + n = 2
          BY <2>4, <3>1
        <4>2. 2 \in 1..Len(q) /\ q[2].k = "sub" /\ z[i].pos = q[2].pos
          BY <2>1, <4>1
        <4> QED BY <1>0, <4>2
      <3>3. q[1] \in Packet /\ q[2] \in Packet
        BY <3>2
      <3>4. Staged(q[2]) /\ ItemOK(xfer, t, u, q[2]) /\ q[2].f \in Nat /\ q[2].pos \in Nat /\ Stage(q[2]) \in Int
        BY <1>i, <3>2, <3>3, ItemRange DEF ItemsInv, Staged
      <3>5. IsData(q[2])
        <4>1. u.f # 0
          BY DEF HalvesTyped, ReceiverTyped, ReceiverBase
        <4>2. RStage(u) = 2 * Len(u.files) + 1
          BY <4>1 DEF RStage
        <4>3. RStage(u) <= Stage(q[2]) /\ Stage(q[2]) <= RStage(u)
          BY <3>4 DEF ItemOK
        <4>4. q[2].pos = 0 => Stage(q[2]) = 2 * q[2].f - 2
          BY <3>2 DEF Stage
        <4>5. q[2].pos = 0 => 2 * Len(u.files) + 1 = 2 * q[2].f - 2
          <5>1. RStage(u) \in Int /\ Stage(q[2]) \in Int
            BY <1>0, <3>4
          <5>2. Stage(q[2]) = RStage(u)
            BY <4>3, <5>1
          <5> QED BY <4>2, <4>4, <5>2
        <4>6. Len(u.files) \in Int /\ q[2].f \in Int
          BY <1>0, <3>4
        <4>7. q[2].pos # 0
          BY <4>5, <4>6, Parity
        <4> QED BY <3>2, <3>4, <4>7 DEF IsData
      <3>6. q[1].k = "sub" /\ q[1].pos + 1 = q[2].pos
        <4>1. \A k \in 1..Len(q) : k > 1 /\ IsData(q[k]) =>
                \/ IsCancel(q[k - 1])
                \/ q[k - 1].k \in {"ZDATA", "sub"} /\ q[k - 1].pos + 1 = q[k].pos
          BY <1>i DEF FrameInv
        <4>2. 2 > 1 /\ 2 - 1 = 1
          OBVIOUS
        <4>3. q[1].k \in {"ZDATA", "sub"} /\ q[1].pos + 1 = q[2].pos
          BY <2>4, <3>2, <3>5, <4>1, <4>2
        <4> QED BY <2>4, <4>3
      <3>7. q[1].pos >= u.pos + 1 /\ q[1].pos \in Nat
        <4>1. \A j \in 1..1 - 1 : IsCancel(q[j])
          OBVIOUS
        <4>2. q[1].pos >= u.pos + 1
          BY <1>i, <3>2, <3>6, <4>1 DEF SubInv
        <4> QED BY <3>3, <3>6, <4>2, PacketFields
      <3>8. q[2].pos >= u.pos + 1
        BY <1>0, <3>4, <3>6, <3>7
      <3> QED BY <3>2, <3>8
    <2> QED BY <2>3, <2>4
  <1>5. RunInv(t, u, z, l)
    <2> SUFFICES ASSUME t.pc = "data", l, u.pc \notin Done
                 PROVE  /\ Len(z) > 0 =>
                             \/ IsCancel(z[Len(z)])
                             \/ z[Len(z)].k = "sub" /\ z[Len(z)].f = t.f /\ z[Len(z)].pos = t.pos + 1
                        /\ u.pc = "sub" /\ ~u.junk /\ (\A i \in 1..Len(z) : IsCancel(z[i])) =>
                             u.pos <= t.pos + 1
      BY DEF RunInv
    <2>1. Len(q) > 0 => \/ IsCancel(q[Len(q)])
                        \/ q[Len(q)].k = "sub" /\ q[Len(q)].f = t.f /\ q[Len(q)].pos = t.pos + 1
      BY <1>i DEF RunInv
    <2>2. ASSUME Len(z) > 0
          PROVE  \/ IsCancel(z[Len(z)])
                 \/ z[Len(z)].k = "sub" /\ z[Len(z)].f = t.f /\ z[Len(z)].pos = t.pos + 1
      <3>1. Len(z) \in 1..Len(z)
        BY <1>0, <2>2
      <3>2. IsCancel(z[Len(z)]) \/ (Len(q) \in 1..Len(q) /\ SameItem(z[Len(z)], q[Len(q)]))
        BY <1>0, <1>3, <3>1
      <3>3. Len(q) \in 1..Len(q) => Len(q) > 0
        BY <1>0
      <3> QED BY <2>1, <3>2, <3>3 DEF SameItem, IsCancel
    <2>3. ASSUME u.pc = "sub", ~u.junk, \A i \in 1..Len(z) : IsCancel(z[i]) PROVE u.pos <= t.pos + 1
      <3>1. CASE \A i \in 1..Len(q) : IsCancel(q[i])
        BY <1>i, <2>3, <3>1 DEF RunInv
      <3>2. ASSUME NEW i \in 1..Len(q), ~IsCancel(q[i]) PROVE u.pos <= t.pos + 1
        <4>1. n = 1 /\ i = 1
          <5>1. ASSUME i - n \in 1..Len(z) PROVE FALSE
            <6>1. IsCancel(z[i - n]) /\ (i - n) + n = i /\ ~(i - n = 1 /\ n = -1)
              BY <1>0, <2>3, <5>1
            <6>2. SameItem(z[i - n], q[i])
              BY <1>3, <5>1, <6>1
            <6> QED BY <3>2, <6>1, <6>2 DEF SameItem, IsCancel
          <5>2. ~(n = 1 /\ i = 1) => i - n \in 1..Len(z)
            BY <1>0
          <5> QED BY <5>1, <5>2
        <4>2. Len(z) = 0
          <5>1. ASSUME Len(z) > 0 PROVE FALSE
            <6>1. IsCancel(z[1])
              BY <1>0, <2>3, <5>1
            <6> QED BY <1>b, <3>2, <4>1, <5>1, <6>1 DEF Done
          <5> QED BY <1>0, <5>1
        <4>3. Len(q) = 1
          BY <1>0, <4>1, <4>2
        <4>4. q[1].k = "sub" /\ q[1].pos = t.pos + 1
          BY <2>1, <3>2, <4>1, <4>3
        <4>5. q[1].pos >= u.pos + 1
          <5>1. 1 \in 1..Len(q) /\ \A j \in 1..1 - 1 : IsCancel(q[j])
            BY <4>3
          <5> QED BY <1>i, <2>3, <4>4, <5>1 DEF SubInv
        <4> QED BY <1>0, <4>4, <4>5
      <3> QED BY <3>1, <3>2
    <2> QED BY <2>2, <2>3
  <1> QED BY <1>i, <1>1, <1>2, <1>4, <1>5 DEF StepInv

-----------------------------------------------------------------------------
(* The steps of the two halves keep the invariant.                           *)

Holds(x, t, u, q, a, l) ==
  /\ HalvesTyped(x, t, u) /\ ChannelsTyped(x, q, a)
  /\ x.skip = {} /\ ~amiss => StepInv(x, t, u, q, a, l)

LEMMA WithNothing ==
  ASSUME NEW S, NEW q \in Seq(S)
  PROVE  q \o <<>> = q
  <1>1. /\ q \o <<>> \in Seq(S) /\ Len(q \o <<>>) = Len(q)
        /\ \A i \in 1..Len(q \o <<>>) : (q \o <<>>)[i] = q[i]
    OBVIOUS
  <1> QED BY <1>1, SeqEqual

\* What a half does on nothing, it may do on any item.
LEMMA MovesOnNothing ==
  ASSUME NEW x, NEW t, NEW v, NEW out, SenderMoves(x, t, None, v, out), NEW p
  PROVE  SenderMoves(x, t, p, v, out)
  <1>1. None.k = "none"
    BY DEF None
  <1>2. AtData(t, None, v) => AtData(t, p, v)
    BY <1>1 DEF AtData
  <1>3. AtFile(x, t, None, v) => AtFile(x, t, p, v)
    BY <1>1 DEF AtFile, MovesOn
  <1>4. ~MovesOn(t, None)
    BY <1>1 DEF MovesOn
  <1> QED BY <1>2, <1>3, <1>4 DEF SenderMoves

LEMMA ChannelWritten ==
  ASSUME NEW x, NEW l, NEW u, NEW q \in Seq(Packet), \A i \in 1..Len(q) : ItemTyped(x, q[i]),
         NEW out \in Seq(Packet), \A i \in 1..Len(out) : ItemTyped(x, out[i]),
         NEW z, Writes(l, u, q, out, z)
  PROVE  z \in Seq(Packet) /\ \A i \in 1..Len(z) : ItemTyped(x, z[i])
  <1>1. Extended(l, u, q, out, z)
    BY Written
  <1>2. ASSUME NEW i \in 1..Len(z) PROVE ItemTyped(x, z[i])
    <2>1. CASE i \in 1..Len(q)
      BY <1>1, <2>1 DEF Extended
    <2>2. CASE i \notin 1..Len(q)
      <3>1. i > Len(q)
        BY <1>1, <2>2 DEF Extended
      <3> QED BY <1>1, <2>2, <3>1 DEF Extended
    <2> QED BY <2>1, <2>2
  <1> QED BY <1>1, <1>2 DEF Extended

LEMMA SenderStep ==
  ASSUME XferOK, NEW t, NEW u, NEW q, NEW a, NEW l, Holds(xfer, t, u, q, a, l), t.pc \notin Done,
         NEW p, NEW d, SenderGoes(xfer, t, p, d),
         NEW z, Writes(l, u, q, d.out, z), NEW b, Reads(a, p, b)
  PROVE  Holds(xfer, d.st, u, z, b, l)
  <1>1. HalvesTyped(xfer, t, u) /\ ChannelsTyped(xfer, q, a)
    BY DEF Holds
  <1>2. HalvesTyped(xfer, d.st, u)
    BY <1>1 DEF HalvesTyped, SenderGoes
  <1>3. Sent(xfer, t, d.st, d.out)
    BY <1>1, SenderSends DEF HalvesTyped, SenderGoes
  <1>4. ChannelsTyped(xfer, z, b)
    <2>1. z \in Seq(Packet) /\ \A i \in 1..Len(z) : ItemTyped(xfer, z[i])
      BY <1>1, <1>3, ChannelWritten DEF ChannelsTyped, Sent, NewItem
    <2>2. b \in Seq(Packet)
      BY <1>1, Rest DEF ChannelsTyped, Left
    <2> QED BY <2>1, <2>2 DEF ChannelsTyped
  <1>5. xfer.skip = {} /\ ~amiss => StepInv(xfer, d.st, u, z, b, l)
    BY <1>1, <1>2, SenderKeeps DEF Holds, SenderGoes
  <1> QED BY <1>2, <1>4, <1>5 DEF Holds

LEMMA AnswersTyped ==
  ASSUME NEW x, NEW u, NEW p, NEW w, w.pos \in Nat, NEW out, ReceiverMoves(x, u, p, w, out)
  PROVE  out \in Seq(Packet)
  <1>1. /\ CancelItem \in Packet /\ Plain("ZFIN") \in Packet /\ Plain("ZNAK") \in Packet
        /\ Plain("ZRINIT") \in Packet /\ Plain("ZSKIP") \in Packet
        /\ Header("ZRPOS", 0, w.pos) \in Packet /\ Header("ZACK", 0, w.pos) \in Packet
    BY Made DEF HeaderKinds
  <1>2. /\ <<>> \in Seq(Packet)
        /\ \A e \in Packet : <<e>> \in Seq(Packet)
    OBVIOUS
  <1>3. \/ out = <<>> \/ out = <<CancelItem>> \/ out = <<Plain("ZFIN")>> \/ out = <<Plain("ZNAK")>>
        \/ out = <<Plain("ZRINIT")>> \/ out = <<Plain("ZSKIP")>>
        \/ out = <<Header("ZRPOS", 0, w.pos)>> \/ out = <<Header("ZACK", 0, w.pos)>>
    BY DEF ReceiverMoves
  <1> QED BY <1>1, <1>2, <1>3

\* A file is listed at the position its ZEOF gives.
LEMMA ListedKept ==
  ASSUME NEW x, NEW u, ReceiverTyped(x, u), Listed(x, u), NEW q, NEW a, ChannelsTyped(x, q, a),
         NEW p, NEW z, Reads(q, p, z), NEW w, NEW out, ReceiverMoves(x, u, p, w, out)
  PROVE  Listed(x, w)
  <1>0. u.files \in FileEntries /\ Len(u.files) \in Nat
    BY DEF ReceiverTyped, ReceiverBase, ReceiverState, FileEntries
  <1>1. CASE w.files = u.files
    BY <1>1 DEF Listed
  <1>2. CASE /\ p.k = "ZEOF" /\ p.pos = u.pos
             /\ w.files = Append(u.files, [f |-> u.f, len |-> u.pos, good |-> u.good])
    <2> DEFINE e == [f |-> u.f, len |-> u.pos, good |-> u.good]
    <2>1. Len(q) > 0 /\ p = q[1] /\ Len(q) \in Nat
      BY <1>2, Rest DEF ChannelsTyped, Left, None
    <2>2. e.len = x.size
      BY <1>2, <2>1 DEF ChannelsTyped, ItemTyped
    <2>3. /\ Len(w.files) = Len(u.files) + 1 /\ w.files[Len(u.files) + 1] = e
          /\ \A i \in 1..Len(u.files) : w.files[i] = u.files[i]
      BY <1>0, <1>2 DEF FileEntries
    <2> HIDE DEF e
    <2>4. ASSUME NEW i \in 1..Len(w.files) PROVE w.files[i].len = x.size
      <3>1. i \in 1..Len(u.files) \/ i = Len(u.files) + 1
        BY <1>0, <2>3
      <3> QED BY <2>2, <2>3, <3>1 DEF Listed
    <2> QED BY <2>4 DEF Listed
  <1> QED BY <1>1, <1>2 DEF ReceiverMoves, Keeps

LEMMA ReceiverStep ==
  ASSUME XferOK, NEW t, NEW u, NEW q, NEW a, NEW l, Holds(xfer, t, u, q, a, l), u.pc \notin Done,
         NEW p, NEW d, ReceiverGoes(xfer, u, p, d),
         NEW z, Reads(q, p, z), NEW b, b = a \/ b = a \o d.out
  PROVE  Holds(xfer, t, d.st, z, b, l)
  <1>1. HalvesTyped(xfer, t, u) /\ ChannelsTyped(xfer, q, a)
    BY DEF Holds
  <1>2. HalvesTyped(xfer, t, d.st)
    <2>1. Listed(xfer, d.st)
      BY <1>1, ListedKept DEF HalvesTyped, ReceiverGoes
    <2> QED BY <1>1, <2>1 DEF HalvesTyped, ReceiverGoes
  <1>3. d.out \in Seq(Packet)
    <2>1. d.st.pos \in Nat
      BY DEF ReceiverGoes, ReceiverTyped, ReceiverBase, ReceiverState
    <2> QED BY <2>1, AnswersTyped DEF ReceiverGoes
  <1>4. ChannelsTyped(xfer, z, b)
    <2>1. b \in Seq(Packet)
      BY <1>1, <1>3, ConcatFacts DEF ChannelsTyped
    <2>2. Left(q, p, z)
      BY <1>1, Rest DEF ChannelsTyped
    <2>3. ASSUME NEW i \in 1..Len(z) PROVE ItemTyped(xfer, z[i])
      <3>1. CASE z = q
        BY <1>1, <3>1 DEF ChannelsTyped
      <3>2. CASE z # q
        <4>1. i + 1 \in 1..Len(q) /\ z[i] = q[i + 1]
          BY <2>2, <3>2 DEF Left
        <4> QED BY <1>1, <4>1 DEF ChannelsTyped
      <3> QED BY <3>1, <3>2
    <2> QED BY <2>1, <2>2, <2>3 DEF ChannelsTyped, Left
  <1>5. xfer.skip = {} /\ ~amiss => StepInv(xfer, t, d.st, z, b, l)
    <2> SUFFICES ASSUME xfer.skip = {} /\ ~amiss PROVE StepInv(xfer, t, d.st, z, b, l)
      OBVIOUS
    <2>1. ReceiverSteps(xfer, t, u, d.st, q, a, l, p, d.out, z)
      BY <1>1, <1>2 DEF ReceiverSteps, Holds, TakesAll, ReceiverGoes
    <2> QED BY <2>1, ReceiverKeeps
  <1> QED BY <1>2, <1>4, <1>5 DEF Holds

\* A half that passes an item over takes a step of its own.
LEMMA PassingGoes ==
  ASSUME NEW u, ReceiverTyped(xfer, u), u.pc \in {"wait", "again", "data"}, NEW p
  PROVE  ReceiverGoes(xfer, u, p, Does(u, <<>>))
  BY DEF ReceiverGoes, ReceiverMoves, Does, Keeps

LEMMA StayingGoes ==
  ASSUME NEW t, SenderTyped(xfer, t), Further(xfer, t), NEW p
  PROVE  SenderGoes(xfer, t, p, Does(t, <<>>))
  BY DEF SenderGoes, SenderMoves, Does, Stay

-----------------------------------------------------------------------------
(* A fault at the front of a channel shifts it, and keeps the types.         *)

LEMMA SameChannel ==
  ASSUME NEW q \in Seq(Packet)
  PROVE  Shifted(q, q, 0)
  BY DEF Shifted, SameItem

LEMMA Lost ==
  ASSUME NEW x, NEW q \in Seq(Packet), q # <<>>
  PROVE  /\ Shifted(q, Tail(q), 1) /\ Tail(q) \in Seq(Packet)
         /\ (\A i \in 1..Len(q) : ItemTyped(x, q[i])) =>
              \A i \in 1..Len(Tail(q)) : ItemTyped(x, Tail(q)[i])
  <1> DEFINE z == Tail(q)
  <1>1. /\ z \in Seq(Packet) /\ Len(q) \in Nat \ {0} /\ Len(z) = Len(q) - 1
        /\ \A i \in 1..Len(z) : z[i] = q[i + 1]
    BY TailFacts
  <1> HIDE DEF z
  <1>2. Len(z) \in Nat /\ Len(z) + 1 = Len(q)
    BY <1>1
  <1>3. \A i \in 1..Len(z) : i + 1 \in 1..Len(q) /\ z[i] = q[i + 1]
    BY <1>1, <1>2
  <1>4. Shifted(q, z, 1)
    BY <1>1, <1>2, <1>3 DEF Shifted, SameItem
  <1>5. (\A i \in 1..Len(q) : ItemTyped(x, q[i])) => \A i \in 1..Len(z) : ItemTyped(x, z[i])
    BY <1>3
  <1> QED BY <1>1, <1>4, <1>5 DEF z

LEMMA PacketPut ==
  ASSUME NEW q \in Seq(Packet), 1 \in 1..Len(q), NEW d \in Packet
  PROVE  /\ [q EXCEPT ![1] = d] \in Seq(Packet) /\ Len([q EXCEPT ![1] = d]) = Len(q)
         /\ \A i \in 1..Len(q) : [q EXCEPT ![1] = d][i] = IF i = 1 THEN d ELSE q[i]
  BY ExceptSeq

LEMMA Harmed ==
  ASSUME NEW x, NEW q \in Seq(Packet), q # <<>>, NEW z, z = [q EXCEPT ![1].ok = FALSE]
  PROVE  /\ Shifted(q, z, 0) /\ z \in Seq(Packet)
         /\ (\A i \in 1..Len(q) : ItemTyped(x, q[i])) => \A i \in 1..Len(z) : ItemTyped(x, z[i])
  <1> DEFINE d == [q[1] EXCEPT !.ok = FALSE]
  <1>1. q[1] \in Packet /\ 1 \in 1..Len(q) /\ Len(q) \in Nat
    OBVIOUS
  <1>2. d \in Packet /\ d.k = q[1].k /\ (~IsCancel(q[1]) => d.f = q[1].f /\ d.pos = q[1].pos)
    BY <1>1, Damaged DEF IsCancel
  <1>3. z = [q EXCEPT ![1] = d]
    OBVIOUS
  <1> HIDE DEF d
  <1>4. /\ z \in Seq(Packet) /\ Len(z) = Len(q)
        /\ \A i \in 1..Len(q) : z[i] = IF i = 1 THEN d ELSE q[i]
    <2>1. /\ [q EXCEPT ![1] = d] \in Seq(Packet) /\ Len([q EXCEPT ![1] = d]) = Len(q)
          /\ \A i \in 1..Len(q) : [q EXCEPT ![1] = d][i] = IF i = 1 THEN d ELSE q[i]
      BY <1>1, <1>2, PacketPut, Zenon
    <2> QED BY <1>3, <2>1, Zenon
  <1>5. \A i \in 1..Len(z) : i + 0 \in 1..Len(q) /\ SameItem(z[i], q[i + 0])
    BY <1>1, <1>2, <1>4 DEF SameItem
  <1>6. Shifted(q, z, 0)
    <2>1. Len(z) \in Nat /\ Len(z) + 0 = Len(q) /\ 0 \in {-1, 0, 1}
      BY <1>1, <1>4
    <2> QED BY <1>1, <1>5, <2>1 DEF Shifted
  <1>7. ASSUME \A i \in 1..Len(q) : ItemTyped(x, q[i]), NEW i \in 1..Len(z) PROVE ItemTyped(x, z[i])
    <2>1. CASE i = 1
      BY <1>1, <1>2, <1>4, <1>7, <2>1 DEF ItemTyped, IsCancel
    <2>2. CASE i # 1
      BY <1>4, <1>7, <2>2
    <2> QED BY <2>1, <2>2
  <1> QED BY <1>4, <1>6, <1>7

LEMMA CancelPut ==
  ASSUME NEW x, NEW q \in Seq(Packet), NEW k \in {"ESC", "CAN"},
         NEW z, z = <<[k |-> k, ok |-> TRUE]>> \o q
  PROVE  /\ Shifted(q, z, -1) /\ z \in Seq(Packet)
         /\ (\A i \in 1..Len(q) : ItemTyped(x, q[i])) => \A i \in 1..Len(z) : ItemTyped(x, z[i])
  <1> DEFINE e == [k |-> k, ok |-> TRUE]
  <1>1. e \in Packet /\ e.k \in {"CAN", "ESC"}
    BY DEF Packet
  <1>2. z = <<e>> \o q
    OBVIOUS
  <1> HIDE DEF e
  <1>3. /\ z \in Seq(Packet) /\ Len(q) \in Nat /\ Len(z) = 1 + Len(q) /\ z[1] = e
        /\ \A i \in 1..Len(z) : i > 1 => z[i] = q[i - 1]
    <2> DEFINE o == <<e>>
    <2>1. o \in Seq(Packet) /\ Len(o) = 1 /\ o[1] = e
      BY <1>1, TupleFacts
    <2>2. z = o \o q
      BY <1>2
    <2> HIDE DEF o
    <2>3. /\ z \in Seq(Packet) /\ Len(q) \in Nat /\ Len(z) = Len(o) + Len(q)
          /\ \A i \in 1..Len(o) : z[i] = o[i]
          /\ \A i \in 1..Len(z) : i > Len(o) => z[i] = q[i - Len(o)]
      <3>1. /\ o \o q \in Seq(Packet) /\ Len(q) \in Nat /\ Len(o \o q) = Len(o) + Len(q)
            /\ \A i \in 1..Len(o) : (o \o q)[i] = o[i]
            /\ \A i \in 1..Len(o \o q) : i > Len(o) => (o \o q)[i] = q[i - Len(o)]
        BY <2>1, ConcatFacts, Zenon
      <3> QED BY <2>2, <3>1, Zenon
    <2> QED BY <2>1, <2>3
  <1>4. Len(z) \in Nat /\ Len(z) + (-1) = Len(q)
    BY <1>3
  <1>5. \A i \in 1..Len(z) : i # 1 => i + (-1) \in 1..Len(q) /\ z[i] = q[i + (-1)]
    BY <1>3
  <1>6. IsCancel(z[1])
    BY <1>1, <1>3 DEF IsCancel
  <1>7. Shifted(q, z, -1)
    BY <1>3, <1>4, <1>5, <1>6 DEF Shifted, SameItem
  <1>8. ASSUME \A i \in 1..Len(q) : ItemTyped(x, q[i]), NEW i \in 1..Len(z) PROVE ItemTyped(x, z[i])
    <2>1. CASE i = 1
      BY <1>1, <1>3, <2>1 DEF ItemTyped
    <2>2. CASE i # 1
      BY <1>5, <1>8, <2>2
    <2> QED BY <2>1, <2>2
  <1> QED BY <1>3, <1>7, <1>8

LEMMA ChannelsShift ==
  ASSUME XferOK, NEW t, NEW u, NEW q, NEW a, NEW l, Holds(xfer, t, u, q, a, l),
         NEW z, NEW n, Shifted(q, z, n), z \in Seq(Packet), \A i \in 1..Len(z) : ItemTyped(xfer, z[i]),
         n = 1 /\ xfer.skip = {} /\ ~amiss => q[1].k # "ZDATA",
         NEW b, NEW m, Shifted(a, b, m), b \in Seq(Packet)
  PROVE  Holds(xfer, t, u, z, b, l)
  <1>1. HalvesTyped(xfer, t, u) /\ q \in Seq(Packet)
    BY DEF Holds, ChannelsTyped
  <1>2. ChannelsTyped(xfer, z, b)
    BY DEF ChannelsTyped
  <1>3. xfer.skip = {} /\ ~amiss => StepInv(xfer, t, u, z, b, l)
    BY <1>1, FaultKeeps DEF Holds
  <1> QED BY <1>1, <1>2, <1>3 DEF Holds

\* A ZDATA is never the last in its channel.
LEMMA HeaderHasData ==
  ASSUME NEW t, NEW q \in Seq(Packet), q # <<>>, FrameInv(t, q), q[1].k = "ZDATA"
  PROVE  Len(q) > 1
  <1>1. 1 \in 1..Len(q)
    OBVIOUS
  <1> QED BY <1>1 DEF FrameInv

\* A data header lost by itself leaves the types; any other fault all of the invariant.
LEMMA FaultStep ==
  ASSUME Inv, XferOK, ZmodemLine
  PROVE  /\ HalvesTyped(xfer, s', r') /\ ChannelsTyped(xfer, toR', toS')
         /\ ~amiss' => Holds(xfer, s', r', toR', toS', up')
  <1>1. Holds(xfer, s, r, toR, toS, up)
    BY DEF Inv, Holds, TakesAll
  <1>2. /\ toR \in Seq(Packet) /\ toS \in Seq(Packet) /\ \A i \in 1..Len(toR) : ItemTyped(xfer, toR[i])
        /\ Shifted(toR, toR, 0) /\ Shifted(toS, toS, 0)
    BY <1>1, SameChannel DEF Holds, ChannelsTyped
  <1>0. ~(0 = 1) /\ ~(-1 = 1)
    OBVIOUS
  <1>d. CASE LoseToR /\ DataHeaderAlone
    <2>1. toR # <<>> /\ toR' = Tail(toR) /\ UNCHANGED <<s, r, toS, up>> /\ amiss'
      BY <1>d DEF LoseToR, ZmodemLine
    <2>2. Tail(toR) \in Seq(Packet) /\ \A i \in 1..Len(Tail(toR)) : ItemTyped(xfer, Tail(toR)[i])
      BY <1>2, <2>1, Lost
    <2>3. HalvesTyped(xfer, s, r) /\ ChannelsTyped(xfer, Tail(toR), toS)
      BY <1>1, <1>2, <2>2 DEF Holds, ChannelsTyped
    <2> QED BY <2>1, <2>3
  <1>3. CASE LoseToR /\ ~DataHeaderAlone
    <2>1. toR # <<>> /\ toR' = Tail(toR) /\ UNCHANGED <<s, r, toS, up>>
      BY <1>3 DEF LoseToR
    <2>2. xfer.skip = {} /\ ~amiss => toR[1].k # "ZDATA"
      <3> SUFFICES ASSUME xfer.skip = {}, ~amiss, toR[1].k = "ZDATA" PROVE FALSE
        OBVIOUS
      <3>1. FrameInv(s, toR)
        BY <1>1 DEF Holds, StepInv
      <3>2. Len(toR) > 1
        BY <1>2, <2>1, <3>1, HeaderHasData
      <3>3. Head(toR) = toR[1]
        BY <1>2, <2>1, TailFacts
      <3> QED BY <1>3, <2>1, <3>2, <3>3 DEF DataHeaderAlone
    <2>3. Holds(xfer, s, r, Tail(toR), toS, up)
      BY <1>1, <1>2, <2>1, <2>2, Lost, ChannelsShift
    <2> QED BY <2>1, <2>3 DEF Holds
  <1>4. CASE LoseToS
    <2>1. toS # <<>> /\ toS' = Tail(toS) /\ UNCHANGED <<s, r, toR, up>>
      BY <1>4 DEF LoseToS
    <2>2. Holds(xfer, s, r, toR, Tail(toS), up)
      BY <1>0, <1>1, <1>2, <2>1, Lost, ChannelsShift
    <2> QED BY <2>1, <2>2 DEF Holds
  <1>5. CASE DamageToR
    <2>1. toR # <<>> /\ toR' = [toR EXCEPT ![1].ok = FALSE] /\ UNCHANGED <<s, r, toS, up>>
      BY <1>5 DEF DamageToR
    <2>2. Holds(xfer, s, r, [toR EXCEPT ![1].ok = FALSE], toS, up)
      BY <1>0, <1>1, <1>2, <2>1, Harmed, ChannelsShift
    <2> QED BY <2>1, <2>2 DEF Holds
  <1>6. CASE DamageToS
    <2>1. toS # <<>> /\ toS' = [toS EXCEPT ![1].ok = FALSE] /\ UNCHANGED <<s, r, toR, up>>
      BY <1>6 DEF DamageToS
    <2>2. Holds(xfer, s, r, toR, [toS EXCEPT ![1].ok = FALSE], up)
      BY <1>0, <1>1, <1>2, <2>1, Harmed, ChannelsShift
    <2> QED BY <2>1, <2>2 DEF Holds
  <1>7. CASE CancelS
    <2>1. PICK k \in {"ESC", "CAN"} : toS' = <<[k |-> k, ok |-> TRUE]>> \o toS
      BY <1>7 DEF CancelS
    <2>2. Holds(xfer, s, r, toR, <<[k |-> k, ok |-> TRUE]>> \o toS, up)
      BY <1>0, <1>1, <1>2, CancelPut, ChannelsShift
    <2> QED BY <1>7, <2>1, <2>2 DEF CancelS, Holds
  <1>8. CASE CancelR
    <2>1. PICK k \in {"ESC", "CAN"} : toR' = <<[k |-> k, ok |-> TRUE]>> \o toR
      BY <1>8 DEF CancelR
    <2>2. Holds(xfer, s, r, <<[k |-> k, ok |-> TRUE]>> \o toR, toS, up)
      BY <1>0, <1>1, <1>2, CancelPut, ChannelsShift
    <2> QED BY <1>8, <2>1, <2>2 DEF CancelR, Holds
  <1>9. CASE HangUp
    <2>1. up' = FALSE /\ UNCHANGED <<s, r, toR, toS>>
      BY <1>9 DEF HangUp
    <2>2. Holds(xfer, s, r, toR, toS, FALSE)
      BY <1>1 DEF Holds, StepInv, RunInv
    <2> QED BY <2>1, <2>2 DEF Holds
  <1> QED BY <1>d, <1>3, <1>4, <1>5, <1>6, <1>7, <1>8, <1>9 DEF ZmodemLine, LineFault

-----------------------------------------------------------------------------
(* The invariant holds.                                                     *)

LEMMA TransferOK ==
  ASSUME xfer \in Transfers
  PROVE  XferOK /\ Limits
  BY ZmodemAssumption, LimitsHold DEF ZmodemAssumption, XferOK

LEMMA InvHolds ==
  ASSUME Inv
  PROVE  /\ XferOK /\ Limits /\ Holds(xfer, s, r, toR, toS, up)
         /\ SenderTyped(xfer, s) /\ Further(xfer, s) /\ ReceiverTyped(xfer, r)
         /\ toR \in Seq(Packet) /\ toS \in Seq(Packet)
  BY TransferOK DEF Inv, Holds, TakesAll, HalvesTyped, ChannelsTyped

LEMMA SenderReads ==
  ASSUME Inv, SenderRead
  PROVE  Holds(xfer, s', r', toR', toS', up')
  <1>0. /\ XferOK /\ Limits /\ Holds(xfer, s, r, toR, toS, up)
        /\ SenderTyped(xfer, s) /\ Further(xfer, s) /\ toR \in Seq(Packet) /\ toS \in Seq(Packet)
    BY InvHolds
  <1> DEFINE p == Head(toS)
  <1>1. /\ s.pc \notin Done /\ toS # <<>> /\ toS' = Tail(toS) /\ r' = r /\ up' = up
        /\ Reads(toS, p, Tail(toS))
    BY DEF SenderRead, Reads
  <1>2. p \in Packet
    BY <1>0, <1>1, TailFacts
  <1>3. ASSUME NEW d, SenderGoes(xfer, s, p, d), SenderDoes(d)
        PROVE  Holds(xfer, s', r', toR', toS', up')
    <2>1. s' = d.st /\ Writes(up, r, toR, d.out, toR')
      BY <1>3 DEF SenderDoes, WriteToR, Writes
    <2>2. Holds(xfer, d.st, r, toR', Tail(toS), up)
      BY <1>0, <1>1, <1>3, <2>1, SenderStep
    <2> QED BY <1>1, <2>1, <2>2
  <1>4. CASE p.k = "CAN"
    <2>1. SenderDoes(Does(SenderGone(s), <<>>))
      BY <1>4 DEF SenderRead
    <2> QED BY <1>0, <1>3, <2>1, SenderGoneGoes
  <1>5. CASE p.k = "ESC"
    <2>1. s' = s /\ toR' = toR
      BY <1>5 DEF SenderRead
    <2>2. SenderDoes(Does(s, <<>>))
      BY <1>0, <2>1, WithNothing DEF SenderDoes, Does, WriteToR
    <2> QED BY <1>0, <1>3, <2>2, StayingGoes
  <1>6. CASE p.k \notin {"CAN", "ESC"} /\ p.ok
    <2>1. SenderDoes(SenderHeader(s, p))
      BY <1>6 DEF SenderRead
    <2>2. p.k \in HeaderKinds \cup {"sub"} /\ p.pos \in Nat
      BY <1>2, <1>6, PacketFields
    <2>3. SenderGoes(xfer, s, p, SenderHeader(s, p))
      BY <1>0, <1>1, <2>2, SenderHeaderGoes
    <2> QED BY <1>3, <2>1, <2>3
  <1>7. CASE p.k \notin {"CAN", "ESC"} /\ ~p.ok
    <2>1. SenderDoes(SenderNothing(s))
      BY <1>7 DEF SenderRead
    <2>2. SenderGoes(xfer, s, None, SenderNothing(s))
      BY <1>0, <1>1, SenderNothingGoes
    <2>3. SenderGoes(xfer, s, p, SenderNothing(s))
      BY <2>2, MovesOnNothing DEF SenderGoes
    <2> QED BY <1>3, <2>1, <2>3
  <1> QED BY <1>4, <1>5, <1>6, <1>7

\* A silence ends a wait of the sender, and the receiver may be anywhere.
LEMMA SenderSilent ==
  ASSUME Inv, SenderSilence
  PROVE  Holds(xfer, s', r, toR', toS, up)
  <1>0. /\ XferOK /\ Limits /\ Holds(xfer, s, r, toR, toS, up)
        /\ SenderTyped(xfer, s) /\ Further(xfer, s)
    BY InvHolds
  <1> DEFINE d == SenderNothing(s)
  <1>1. s.pc \notin Done /\ s' = d.st /\ Writes(up, r, toR, d.out, toR') /\ Reads(toS, None, toS)
    BY DEF SenderSilence, SenderDoes, WriteToR, Writes, Reads
  <1>2. SenderGoes(xfer, s, None, d)
    BY <1>0, <1>1, SenderNothingGoes
  <1> HIDE DEF d
  <1>3. Holds(xfer, d.st, r, toR', toS, up)
    BY <1>0, <1>1, <1>2, SenderStep
  <1> QED BY <1>1, <1>3

LEMMA SenderDrops ==
  ASSUME Inv, SenderLineDown
  PROVE  Holds(xfer, s', r', toR', toS', up')
  <1>0. /\ XferOK /\ Holds(xfer, s, r, toR, toS, up) /\ SenderTyped(xfer, s) /\ toR \in Seq(Packet)
    BY InvHolds
  <1> DEFINE d == Does(SenderGone(s), <<>>)
  <1>1. /\ s.pc \notin Done /\ s' = d.st /\ d.out = <<>> /\ Reads(toS, None, toS)
        /\ r' = r /\ toR' = toR /\ toS' = toS /\ up' = up
    BY DEF SenderLineDown, Does, Reads
  <1>2. SenderGoes(xfer, s, None, d)
    BY <1>0, SenderGoneGoes
  <1> HIDE DEF d
  <1>3. Writes(up, r, toR, d.out, toR)
    BY <1>0, <1>1, WithNothing DEF Writes
  <1>4. Holds(xfer, d.st, r, toR, toS, up)
    BY <1>0, <1>1, <1>2, <1>3, SenderStep
  <1> QED BY <1>1, <1>4

\* Whatever the receiver reads, it takes a step of its own.
LEMMA ReceiverReadGoes ==
  ASSUME Inv, ReceiverRead
  PROVE  \E d : ReceiverGoes(xfer, r, Head(toR), d) /\ ReceiverDoes(d)
  <1>0. /\ XferOK /\ Limits /\ Holds(xfer, s, r, toR, toS, up)
        /\ ReceiverTyped(xfer, r) /\ toR \in Seq(Packet)
    BY InvHolds
  <1> DEFINE p == Head(toR)
  <1>1. r.pc \notin Done /\ toR # <<>>
    BY DEF ReceiverRead
  <1>2. p = toR[1] /\ 1 \in 1..Len(toR)
    BY <1>0, <1>1, TailFacts
  <1>3. ItemTyped(xfer, p)
    BY <1>0, <1>2 DEF Holds, ChannelsTyped
  <1>5. CASE p.k = "CAN"
    <2>1. ReceiverDoes(Fails(r))
      BY <1>5 DEF ReceiverRead
    <2>2. ReceiverGoes(xfer, r, p, Fails(r))
      BY <1>0, ReceiverGivesUp DEF ReceiverTyped, Keeps
    <2> QED BY <2>1, <2>2
  <1>6. CASE p.k = "ESC"
    <2> DEFINE v == [r EXCEPT !.junk = @ \/ r.pc \in {"info", "sub"}]
    <2>1. ReceiverDoes(Does(v, <<>>))
      BY <1>6 DEF ReceiverRead
    <2>2. r \in ReceiverState
      BY <1>0 DEF ReceiverTyped, ReceiverBase
    <2>3. CASE r.pc \in {"info", "sub"}
      <3>1. v = [r EXCEPT !.junk = TRUE]
        BY <2>2, <2>3 DEF ReceiverState
      <3>2. ReceiverGoes(xfer, r, p, Does([r EXCEPT !.junk = TRUE], <<>>))
        BY <1>0, <2>3, JunkGoes
      <3> QED BY <2>1, <3>1, <3>2
    <2>4. CASE r.pc \notin {"info", "sub"}
      <3>1. v = r
        BY <2>2, <2>4 DEF ReceiverState
      <3>2. r.pc \in {"wait", "again", "data"}
        BY <1>1, <2>2, <2>4 DEF ReceiverState, ReceiverPcs, Done
      <3>3. ReceiverGoes(xfer, r, p, Does(r, <<>>))
        BY <1>0, <3>2, PassingGoes
      <3> HIDE DEF v
      <3> QED BY <2>1, <3>1, <3>3
    <2> QED BY <2>3, <2>4
  <1>7. CASE p.k \notin {"CAN", "ESC"}
    <2> DEFINE d == ReceiverItem(r, p)
    <2>1. ReceiverDoes(d)
      BY <1>7 DEF ReceiverRead
    <2>2. ReceiverGoes(xfer, r, p, d) \/ (Passes(r, d) /\ r.pc \notin {"info", "sub"})
      BY <1>0, <1>1, <1>3, ReceiverItemGoes DEF ItemTyped
    <2> HIDE DEF d
    <2>3. CASE ReceiverGoes(xfer, r, p, d)
      BY <2>1, <2>3
    <2>4. CASE Passes(r, d) /\ r.pc \notin {"info", "sub"}
      <3>1. r.pc \in {"wait", "again", "data"}
        BY <1>0, <1>1, <2>4 DEF ReceiverTyped, ReceiverBase, ReceiverState, ReceiverPcs, Done
      <3>2. ReceiverGoes(xfer, r, p, Does(r, <<>>))
        BY <1>0, <3>1, PassingGoes
      <3>3. ReceiverDoes(Does(r, <<>>))
        BY <2>1, <2>4 DEF ReceiverDoes, Passes, Does
      <3> QED BY <3>2, <3>3
    <2> QED BY <2>2, <2>3, <2>4
  <1> QED BY <1>5, <1>6, <1>7

LEMMA ReceiverReads ==
  ASSUME Inv, ReceiverRead
  PROVE  Holds(xfer, s', r', toR', toS', up')
  <1>0. XferOK /\ Holds(xfer, s, r, toR, toS, up)
    BY InvHolds
  <1> DEFINE p == Head(toR)
  <1>1. /\ r.pc \notin Done /\ toR' = Tail(toR) /\ s' = s /\ up' = up
        /\ Reads(toR, p, Tail(toR))
    BY DEF ReceiverRead, Reads
  <1>2. PICK d : ReceiverGoes(xfer, r, p, d) /\ ReceiverDoes(d)
    BY ReceiverReadGoes
  <1>3. r' = d.st /\ (toS' = toS \/ toS' = toS \o d.out)
    BY <1>2 DEF ReceiverDoes, WriteToS
  <1>4. Holds(xfer, s, d.st, Tail(toR), toS', up)
    BY <1>0, <1>1, <1>2, <1>3, ReceiverStep
  <1> QED BY <1>1, <1>3, <1>4

\* A silence ends a wait of the receiver, while the sender is at t and has sent q.
LEMMA ReceiverSilent ==
  ASSUME Inv, ReceiverSilence, NEW t, NEW q, Holds(xfer, t, r, q, toS, up)
  PROVE  Holds(xfer, t, r', q, toS', up)
  <1>0. XferOK /\ Limits /\ ReceiverTyped(xfer, r)
    BY InvHolds
  <1> DEFINE d == ReceiverNothing(r, TRUE)
  <1>1. /\ r.pc \notin Done /\ r' = d.st /\ (toS' = toS \/ toS' = toS \o d.out)
        /\ Reads(q, None, q)
    BY DEF ReceiverSilence, ReceiverDoes, WriteToS, Reads
  <1>2. ReceiverGoes(xfer, r, None, d)
    BY <1>0, <1>1, ReceiverNothingGoes
  <1> HIDE DEF d
  <1>3. Holds(xfer, t, d.st, q, toS', up)
    BY <1>0, <1>1, <1>2, ReceiverStep
  <1> QED BY <1>1, <1>3

LEMMA ReceiverDrops ==
  ASSUME Inv, ReceiverLineDown
  PROVE  Holds(xfer, s', r', toR', toS', up')
  <1>0. /\ XferOK /\ Holds(xfer, s, r, toR, toS, up) /\ ReceiverTyped(xfer, r)
    BY InvHolds
  <1> DEFINE d == Fails(r)
  <1>1. /\ r.pc \notin Done /\ r' = d.st /\ (toS' = toS \/ toS' = toS \o d.out)
        /\ Reads(toR, None, toR) /\ s' = s /\ toR' = toR /\ up' = up
    BY DEF ReceiverLineDown, ReceiverDoes, WriteToS, Reads
  <1>2. ReceiverGoes(xfer, r, None, d)
    BY <1>0, ReceiverGivesUp DEF ReceiverTyped, Keeps
  <1> HIDE DEF d
  <1>3. Holds(xfer, s, d.st, toR, toS', up)
    BY <1>0, <1>1, <1>2, ReceiverStep
  <1> QED BY <1>1, <1>3

LEMMA InitHolds ==
  ASSUME Init
  PROVE  Inv
  <1>0. XferOK /\ Limits /\ xfer \in Transfers
    BY TransferOK DEF Init
  <1>s. /\ s = [pc |-> "init", f |-> 1, pos |-> 0, att |-> 0, eofs |-> 0, stray |-> 0]
        /\ s.pc = "init" /\ s.f = 1 /\ s.pos = 0 /\ s.att = 0 /\ s.eofs = 0 /\ s.stray = 0
    BY DEF Init, SenderInit
  <1>r. /\ r = [pc |-> "wait", seen |-> 0, errs |-> 0, idle |-> 0, f |-> 0, pos |-> 0, good |-> 0,
                skipped |-> FALSE, junk |-> FALSE, files |-> <<>>]
        /\ r.pc = "wait" /\ r.seen = 0 /\ r.errs = 0 /\ r.idle = 0 /\ r.f = 0 /\ r.pos = 0
        /\ r.good = 0 /\ r.files = <<>> /\ Len(r.files) = 0
    BY DEF Init, ReceiverInit
  <1>q. /\ toR \in Seq(Packet) /\ Len(toR) = 1 /\ toR[1] = Plain("ZRQINIT")
        /\ toS \in Seq(Packet) /\ Len(toS) = 1 /\ toS[1] = Plain("ZRINIT")
    <2>1. Plain("ZRQINIT") \in Packet /\ Plain("ZRINIT") \in Packet
      BY Made DEF HeaderKinds
    <2> QED BY <2>1, TupleFacts DEF Init
  <1>p. /\ toR[1].k = "ZRQINIT" /\ toR[1].f = 0 /\ toR[1].pos = 0
        /\ toS[1].k = "ZRINIT"
    BY <1>q DEF Plain, Header
  <1>1. SenderTyped(xfer, s) /\ Further(xfer, s)
    <2>1. s \in SenderState
      BY <1>s DEF SenderState, SenderPcs
    <2> QED BY <1>0, <1>s, <2>1 DEF SenderTyped, Further, XferOK, Limits
  <1>2. ReceiverTyped(xfer, r)
    <2>1. r \in ReceiverState
      BY <1>r DEF ReceiverState, ReceiverPcs
    <2> QED BY <1>0, <1>r, <2>1 DEF ReceiverTyped, ReceiverBase, XferOK, Limits
  <1>3. ChannelsTyped(xfer, toR, toS)
    <2>1. ItemTyped(xfer, toR[1])
      BY <1>q, <1>p DEF ItemTyped
    <2> QED BY <1>q, <2>1 DEF ChannelsTyped
  <1>4. RStage(r) = 0 /\ SStage(xfer, s) = -1 /\ Stage(toR[1]) = -1
    BY <1>s, <1>r, <1>p DEF RStage, SStage, Stage
  <1>5. FilesInv(xfer, r) /\ FinInv(xfer, s, r) /\ SubInv(r, toR) /\ Listed(xfer, r)
    BY <1>0, <1>s, <1>r DEF FilesInv, FinInv, SubInv, XferOK, Listed
  <1>6. ItemsInv(xfer, s, r, toR)
    <2>1. ItemOK(xfer, s, r, toR[1])
      BY <1>0, <1>s, <1>r, <1>p, <1>4 DEF ItemOK, XferOK
    <2> QED BY <1>q, <2>1 DEF ItemsInv
  <1>7. OrderInv(toR) /\ FrameInv(s, toR)
    BY <1>q, <1>p DEF OrderInv, FrameInv, IsData, IsCancel
  <1>8. PosInv(xfer, s, r, toS) /\ AnswerInv(xfer, s, r, toS) /\ RunInv(s, r, toR, up)
    BY <1>s, <1>r, <1>q, <1>p, <1>4 DEF PosInv, AnswerInv, RunInv, Coming, Asks
  <1> QED BY <1>0, <1>1, <1>2, <1>3, <1>5, <1>6, <1>7, <1>8 DEF Inv, HalvesTyped, StepInv

LEMMA NextHolds ==
  ASSUME Inv, [Next]_vars
  PROVE  /\ xfer' = xfer /\ (amiss => amiss')
         /\ HalvesTyped(xfer, s', r') /\ ChannelsTyped(xfer, toR', toS')
         /\ ~amiss' => Holds(xfer, s', r', toR', toS', up')
  <1>0. XferOK /\ Holds(xfer, s, r, toR, toS, up)
    BY InvHolds
  <1>a. xfer' = xfer /\ (amiss => amiss')
    <2>1. CASE SenderRead
      BY <2>1, Zenon DEF SenderRead
    <2>2. CASE ReceiverRead
      BY <2>2, Zenon DEF ReceiverRead
    <2>3. CASE SenderTimeout
      BY <2>3, Zenon DEF SenderTimeout
    <2>4. CASE ReceiverTimeout
      BY <2>4, Zenon DEF ReceiverTimeout
    <2>5. CASE BothTimeout
      BY <2>5, Zenon DEF BothTimeout
    <2>6. CASE SenderTimeoutLate
      BY <2>6, Zenon DEF SenderTimeoutLate
    <2>7. CASE ReceiverTimeoutLate
      BY <2>7, Zenon DEF ReceiverTimeoutLate
    <2>8. CASE SenderLineDown
      BY <2>8, Zenon DEF SenderLineDown
    <2>9. CASE ReceiverLineDown
      BY <2>9, Zenon DEF ReceiverLineDown
    <2>10. CASE ZmodemLine
      BY <2>10, Zenon DEF ZmodemLine
    <2>11. CASE UNCHANGED vars
      BY <2>11, Zenon DEF vars
    <2> QED
      BY <2>1, <2>2, <2>3, <2>4, <2>5, <2>6, <2>7, <2>8, <2>9, <2>10, <2>11
         DEF Next, Progress, Timeout, Terminated
  <1> SUFFICES \/ Holds(xfer, s', r', toR', toS', up')
               \/ /\ HalvesTyped(xfer, s', r') /\ ChannelsTyped(xfer, toR', toS')
                  /\ ~amiss' => Holds(xfer, s', r', toR', toS', up')
    BY <1>a DEF Holds
  <1>1. CASE SenderRead
    BY <1>1, SenderReads DEF SenderRead
  <1>2. CASE ReceiverRead
    BY <1>2, ReceiverReads DEF ReceiverRead
  <1>3. CASE SenderTimeout \/ SenderTimeoutLate
    <2>1. SenderSilence /\ UNCHANGED <<xfer, r, toS, up>>
      BY <1>3 DEF SenderTimeout, SenderTimeoutLate
    <2> QED BY <2>1, SenderSilent
  <1>4. CASE ReceiverTimeout \/ ReceiverTimeoutLate
    <2>1. ReceiverSilence /\ UNCHANGED <<xfer, s, toR, up>>
      BY <1>4 DEF ReceiverTimeout, ReceiverTimeoutLate
    <2>2. Holds(xfer, s, r', toR, toS', up)
      BY <1>0, <2>1, ReceiverSilent
    <2> QED BY <2>1, <2>2
  <1>5. CASE BothTimeout
    <2>1. SenderSilence /\ ReceiverSilence /\ UNCHANGED <<xfer, up>>
      BY <1>5 DEF BothTimeout
    <2>2. Holds(xfer, s', r, toR', toS, up)
      BY <2>1, SenderSilent
    <2>3. Holds(xfer, s', r', toR', toS', up)
      BY <2>1, <2>2, ReceiverSilent
    <2> QED BY <2>1, <2>3
  <1>6. CASE SenderLineDown
    BY <1>6, SenderDrops DEF SenderLineDown
  <1>7. CASE ReceiverLineDown
    BY <1>7, ReceiverDrops DEF ReceiverLineDown
  <1>8. CASE ZmodemLine
    BY <1>0, <1>8, FaultStep DEF ZmodemLine
  <1>9. CASE UNCHANGED vars
    BY <1>0, <1>9 DEF vars
  <1> QED
    BY <1>1, <1>2, <1>3, <1>4, <1>5, <1>6, <1>7, <1>8, <1>9 DEF Next, Progress, Timeout, Terminated

\* The invariant of the header comment: the halves are at the same stage or the receiver
\* is one ahead, and the channels hold whole frames of those stages in their order
\* (zmodem_send, send_zdata_run, receive_into, receive_one_file).
THEOREM Invariance == Spec => []Inv
  <1>1. Init => Inv
    BY InitHolds
  <1>2. Inv /\ [Next]_vars => Inv'
    <2> SUFFICES ASSUME Inv, [Next]_vars PROVE Inv'
      OBVIOUS
    <2>1. /\ xfer' = xfer /\ (amiss => amiss')
          /\ HalvesTyped(xfer, s', r') /\ ChannelsTyped(xfer, toR', toS')
          /\ ~amiss' => Holds(xfer, s', r', toR', toS', up')
      BY NextHolds
    <2>2. TakesAll' /\ ~amiss' => StepInv(xfer, s', r', toR', toS', up')
      BY <2>1 DEF Holds, TakesAll
    <2> QED BY <2>1, <2>2 DEF Inv
  <1> QED BY <1>1, <1>2, PTL DEF Spec

LEMMA Typed ==
  ASSUME Inv
  PROVE  TypeOK
  <1>1. SenderTyped(xfer, s) /\ ReceiverTyped(xfer, r) /\ XferOK /\ Limits /\ xfer \in Transfers
    BY InvHolds DEF Inv
  <1>2. /\ s.pc \in {"init", "file", "data", "eof", "fin"} \cup Done
        /\ r.pc \in {"wait", "info", "again", "data", "sub"} \cup Done
    BY <1>1 DEF SenderTyped, ReceiverTyped, ReceiverBase, SenderState, ReceiverState, SenderPcs,
                ReceiverPcs, Done
  <1>3. /\ s.f \in 1..xfer.files /\ s.pos \in 0..xfer.size
        /\ {s.att, s.eofs} \subseteq 0..MaxRetries + 1 /\ s.stray \in 0..MaxRetries
    BY <1>1 DEF SenderTyped, SenderState, Limits
  <1>4. /\ r.seen \in 0..MaxBatchFiles /\ r.idle \in 0..2 * MaxRetries + 1
        /\ r.f \in 0..xfer.files /\ r.good \in 0..xfer.size
    BY <1>1 DEF ReceiverTyped, ReceiverBase, ReceiverState, Limits, XferOK
  <1>5. r.errs \in 0..IF r.seen = 0 THEN NegRetries ELSE MaxRetries
    <2>1. r.errs \in Nat /\ r.errs <= IF r.seen = 0 THEN NegRetries ELSE MaxRetries
      BY <1>1 DEF ReceiverTyped, ReceiverBase, ReceiverState
    <2> QED BY <1>1, <2>1 DEF Limits
  <1> QED BY <1>1, <1>2, <1>3, <1>4, <1>5 DEF TypeOK

LEMMA Arrived ==
  ASSUME Inv
  PROVE  /\ AtItsLength
         /\ TakesAll => PrefixReceived /\ ReceivedIsWhole /\ SenderSuccessIsWhole
  <1>0. r.files \in FileEntries /\ DOMAIN r.files = 1..Len(r.files)
    <2>1. r.files \in FileEntries
      BY InvHolds DEF ReceiverTyped, ReceiverBase, ReceiverState, FileEntries
    <2> QED BY <2>1 DEF FileEntries
  <1>1. ASSUME TakesAll, ~amiss
        PROVE  FilesInv(xfer, r) /\ FinInv(xfer, s, r)
    BY <1>1 DEF Inv, StepInv
  <1>2. AtItsLength
    BY <1>0 DEF Inv, HalvesTyped, Listed, AtItsLength
  <1>3. TakesAll => PrefixReceived
    BY <1>1 DEF PrefixReceived, FilesInv
  <1>4. TakesAll => ReceivedIsWhole
    <2> SUFFICES ASSUME TakesAll, ~amiss, NEW i \in DOMAIN r.files PROVE r.files[i].good = xfer.size
      BY <1>2 DEF ReceivedIsWhole
    <2>1. r.files[i] = [f |-> i, len |-> xfer.size, good |-> xfer.size]
      BY <1>0, <1>1 DEF FilesInv
    <2> QED BY <2>1
  <1>5. TakesAll => SenderSuccessIsWhole
    <2> SUFFICES ASSUME s.pc = "ok", TakesAll, ~amiss, NEW f \in Wanted
                 PROVE  \E i \in DOMAIN r.files : r.files[i].f = f
      BY DEF SenderSuccessIsWhole, Received
    <2>1. f \in DOMAIN r.files
      BY <1>0, <1>1 DEF FinInv, Wanted
    <2>2. r.files[f] = [f |-> f, len |-> xfer.size, good |-> xfer.size]
      BY <1>0, <1>1, <2>1 DEF FilesInv
    <2>3. r.files[f].f = f
      BY <2>2
    <2> QED BY <2>1, <2>3
  <1> QED BY <1>2, <1>3, <1>4, <1>5

\* No loop of src/zmodem.rs goes past its limit of retries, for any limits and any number
\* of faults of the line.
THEOREM TypeOKHolds == Spec => []TypeOK
  BY Invariance, Typed, PTL

\* Nothing is appended out of place: unless the line drops exactly a data header, the
\* buffer of a receiver that turns no file down is always the beginning of the file being
\* sent (receive_one_file).
THEOREM PrefixReceivedHolds == Spec => [](TakesAll => PrefixReceived)
  BY Invariance, Arrived, PTL

\* A file the receiver lists as received has the length the sender gave it, whatever the
\* line does and whatever the receiver turns down; with the exception above, a receiver
\* that turns no file down has its content too (receive_one_file's answer to ZEOF).
THEOREM ReceivedIsWholeHolds == Spec => [](AtItsLength /\ (TakesAll => ReceivedIsWhole))
  BY Invariance, Arrived, PTL

\* A send that reports success has every file with a receiver that turns no file down,
\* with the exception above (zmodem_send).
THEOREM SenderSuccessIsWholeHolds == Spec => [](TakesAll => SenderSuccessIsWhole)
  BY Invariance, Arrived, PTL

-----------------------------------------------------------------------------
(* The batch implements FileTransfer.                                       *)

\* On a silence the receiver keeps what it has.
LEMMA SilenceKeeps ==
  ASSUME NEW x, NEW u, NEW v, NEW out, ReceiverMoves(x, u, None, v, out)
  PROVE  Keeps(u, v)
  <1>1. None.k = "none"
    BY DEF None
  <1> QED BY <1>1 DEF ReceiverMoves

\* Which half a step moves; both move only when neither has anything to read.
LEMMA NextShape ==
  ASSUME Inv, [Next]_vars
  PROVE  /\ s' = s \/ s.pc \notin Done
         /\ r' = r \/ (r.pc \notin Done /\ \E p, out : ReceiverMoves(xfer, r, p, r', out))
         /\ s' = s \/ r' = r \/ Keeps(r, r')
  <1>1. CASE SenderRead
    BY <1>1 DEF SenderRead
  <1>2. CASE ReceiverRead
    <2>1. PICK d : ReceiverGoes(xfer, r, Head(toR), d) /\ ReceiverDoes(d)
      BY <1>2, ReceiverReadGoes
    <2>2. ReceiverMoves(xfer, r, Head(toR), r', d.out)
      BY <2>1 DEF ReceiverGoes, ReceiverDoes
    <2> QED BY <1>2, <2>2 DEF ReceiverRead
  <1>3. CASE SenderTimeout \/ SenderTimeoutLate \/ SenderLineDown
    BY <1>3 DEF SenderTimeout, SenderTimeoutLate, SenderSilence, SenderLineDown
  <1>s. ASSUME ReceiverSilence
        PROVE  r.pc \notin Done /\ Keeps(r, r') /\ \E p, out : ReceiverMoves(xfer, r, p, r', out)
    <2> DEFINE d == ReceiverNothing(r, TRUE)
    <2>1. r.pc \notin Done /\ r' = d.st
      BY <1>s DEF ReceiverSilence, ReceiverDoes
    <2>2. ReceiverGoes(xfer, r, None, d)
      BY <2>1, InvHolds, ReceiverNothingGoes
    <2> HIDE DEF d
    <2>3. ReceiverMoves(xfer, r, None, r', d.out)
      BY <2>1, <2>2 DEF ReceiverGoes
    <2> QED BY <2>1, <2>3, SilenceKeeps
  <1>4. CASE ReceiverTimeout \/ ReceiverTimeoutLate
    BY <1>4, <1>s DEF ReceiverTimeout, ReceiverTimeoutLate
  <1>5. CASE BothTimeout
    <2>1. ReceiverSilence /\ s.pc \notin Done
      BY <1>5 DEF BothTimeout, SenderSilence
    <2> QED BY <1>s, <2>1
  <1>7. CASE ReceiverLineDown
    <2> DEFINE d == Fails(r)
    <2>1. r.pc \notin Done /\ s' = s /\ r' = d.st
      BY <1>7 DEF ReceiverLineDown, ReceiverDoes
    <2>2. ReceiverGoes(xfer, r, None, d)
      BY InvHolds, ReceiverGivesUp DEF ReceiverTyped, Keeps
    <2> HIDE DEF d
    <2>3. ReceiverMoves(xfer, r, None, r', d.out)
      BY <2>1, <2>2 DEF ReceiverGoes
    <2> QED BY <2>1, <2>3
  <1>8. CASE ZmodemLine
    BY <1>8 DEF ZmodemLine, LineFault, LoseToR, LoseToS, DamageToR, DamageToS, CancelS, CancelR, HangUp
  <1>9. CASE UNCHANGED vars
    BY <1>9 DEF vars
  <1> QED
    BY <1>1, <1>2, <1>3, <1>4, <1>5, <1>7, <1>8, <1>9 DEF Next, Progress, Timeout, Terminated

\* The files handed over, of a receiver that turns none down.
LEMMA KeptFiles ==
  ASSUME NEW x, NEW u, FilesInv(x, u), u.files \in FileEntries
  PROVE  Cardinality({i \in DOMAIN u.files : u.files[i].len = x.size /\ u.files[i].good = x.size})
           = Len(u.files)
  <1>1. Len(u.files) \in Nat /\ DOMAIN u.files = 1..Len(u.files)
    BY DEF FileEntries
  <1>2. \A i \in 1..Len(u.files) : u.files[i].len = x.size /\ u.files[i].good = x.size
    <2> SUFFICES ASSUME NEW i \in 1..Len(u.files)
                 PROVE  u.files[i].len = x.size /\ u.files[i].good = x.size
      OBVIOUS
    <2>1. u.files[i] = [f |-> i, len |-> x.size, good |-> x.size]
      BY DEF FilesInv
    <2> QED BY <2>1
  <1>3. {i \in DOMAIN u.files : u.files[i].len = x.size /\ u.files[i].good = x.size} = 1..Len(u.files)
    BY <1>1, <1>2
  <1>4. Cardinality(1..Len(u.files)) = Len(u.files)
    BY <1>1, FS_Interval
  <1> QED BY <1>3, <1>4

\* What a step of the receiver does to the file it holds and to the ones it has listed.
LEMMA GotAndKept ==
  ASSUME XferOK, NEW u, NEW w, ReceiverTyped(xfer, u), ReceiverTyped(xfer, w), u.pc \notin Done,
         FilesInv(xfer, u), FilesInv(xfer, w), NEW p, NEW out, ReceiverMoves(xfer, u, p, w, out)
  PROVE  \/ w.good = u.good /\ Len(w.files) = Len(u.files)
         \/ w.pc \notin Done /\ w.good \in u.good + 1..xfer.size /\ Len(w.files) = Len(u.files)
         \/ /\ w.pc \notin Done /\ w.good = 0 /\ Len(w.files) = Len(u.files) + 1
            /\ u.good = xfer.size /\ Len(u.files) < xfer.files
  <1>0. /\ u.good \in Nat /\ w.good \in Nat /\ w.good <= xfer.size /\ xfer.size \in Nat /\ xfer.files \in Nat
        /\ u.files \in FileEntries /\ w.files \in FileEntries /\ Len(u.files) \in Nat
        /\ u.pc = "info" => u.good = 0
    BY DEF ReceiverTyped, ReceiverBase, ReceiverState, FileEntries, XferOK
  <1>1. CASE Keeps(u, w)
    BY <1>1 DEF Keeps
  <1>2. CASE u.pc = "info" /\ w.good = 0 /\ w.files = u.files
    BY <1>0, <1>2
  <1>3. CASE /\ w.pc \in {"sub", "data"} /\ w.files = u.files
             /\ w.good = u.good + 1 \/ w.good = u.good
    BY <1>0, <1>3 DEF Done
  <1>4. CASE /\ w.pc = "wait" /\ w.good = 0
             /\ w.files = Append(u.files, [f |-> u.f, len |-> u.pos, good |-> u.good])
    <2> DEFINE e == [f |-> u.f, len |-> u.pos, good |-> u.good]
    <2>1. Len(w.files) = Len(u.files) + 1 /\ w.files[Len(u.files) + 1] = e
      BY <1>0, <1>4 DEF FileEntries
    <2>2. Len(w.files) \in 1..Len(w.files) /\ Len(w.files) <= xfer.files
      BY <1>0, <2>1 DEF FilesInv
    <2>3. w.files[Len(w.files)] = [f |-> Len(w.files), len |-> xfer.size, good |-> xfer.size]
      BY <2>2 DEF FilesInv
    <2>4. e.good = xfer.size
      BY <2>1, <2>3
    <2> QED BY <1>0, <1>4, <2>1, <2>2, <2>4 DEF Done
  <1> QED BY <1>1, <1>2, <1>3, <1>4 DEF ReceiverMoves

LEMMA PromiseInit ==
  ASSUME Init
  PROVE  Promise!Init
  <1>1. XferOK
    BY TransferOK DEF Init
  <1>2. /\ r.good = 0 /\ r.files = <<>> /\ Outcome(s.pc) = "run" /\ Outcome(r.pc) = "run"
    BY DEF Init, SenderInit, ReceiverInit, Outcome, Done
  <1>3. {i \in DOMAIN r.files : Whole(r.files[i])} = {}
    BY <1>2
  <1>4. Cardinality({i \in DOMAIN r.files : Whole(r.files[i])}) = 0
    BY <1>3, FS_EmptySet
  <1>5. Cardinality(Wanted) \in Nat
    <2>1. IsFiniteSet(1..xfer.files)
      BY <1>1, FS_Interval DEF XferOK
    <2>2. IsFiniteSet(Wanted)
      BY <2>1, FS_Subset DEF Wanted
    <2> QED BY <2>2, FS_CardinalityType
  <1> QED BY <1>1, <1>2, <1>4, <1>5 DEF Promise!Init, XferOK

LEMMA PromiseStep ==
  ASSUME Inv, Inv', [Next]_vars, TakesAll
  PROVE  [amiss' \/ Promise!Next]_(Promise!ftvars)
  <1> SUFFICES ASSUME ~amiss' PROVE [Promise!Next]_(Promise!ftvars)
    OBVIOUS
  <1> DEFINE Job == [files |-> Cardinality(Wanted), size |-> xfer.size, slack |-> 0, assured |-> TRUE]
             Got == r.good
             Kept == Cardinality({i \in DOMAIN r.files : Whole(r.files[i])})
             Snd == Outcome(s.pc)
             Rcv == Outcome(r.pc)
  <1>0. /\ XferOK /\ xfer' = xfer /\ ~amiss /\ ReceiverTyped(xfer, r) /\ ReceiverTyped(xfer, r')
        /\ SenderTyped(xfer, s')
    BY InvHolds, NextHolds DEF Inv, HalvesTyped
  <1>1. /\ s' = s \/ s.pc \notin Done
        /\ r' = r \/ (r.pc \notin Done /\ \E p, out : ReceiverMoves(xfer, r, p, r', out))
        /\ s' = s \/ r' = r \/ Keeps(r, r')
    BY NextShape
  <1>2. /\ Job' = Job /\ Job.files = xfer.files /\ Job.size = xfer.size /\ Job.slack = 0
        /\ Job.assured = TRUE
    <2>1. Wanted = 1..xfer.files /\ Wanted' = Wanted
      BY <1>0 DEF Wanted, TakesAll
    <2>2. Cardinality(1..xfer.files) = xfer.files
      BY <1>0, FS_Interval DEF XferOK
    <2> QED BY <1>0, <2>1, <2>2
  <1>3. FilesInv(xfer, r) /\ FilesInv(xfer, r') /\ FinInv(xfer, s', r')
    BY <1>0 DEF Inv, TakesAll, StepInv
  <1>4. Got = r.good /\ Got' = r'.good
    OBVIOUS
  <1>5. Kept = Len(r.files) /\ Kept' = Len(r'.files)
    <2>1. r.files \in FileEntries /\ r'.files \in FileEntries
      BY <1>0 DEF ReceiverTyped, ReceiverBase, ReceiverState, FileEntries
    <2>2. Cardinality({i \in DOMAIN r.files : Whole(r.files[i])}) = Len(r.files)
      BY <1>3, <2>1, KeptFiles DEF Whole
    <2>3. Cardinality({i \in DOMAIN r.files : Whole(r.files[i])})' = Len(r'.files)
      <3>1. Cardinality({i \in DOMAIN r'.files : r'.files[i].len = xfer.size /\ r'.files[i].good = xfer.size})
              = Len(r'.files)
        BY <1>3, <2>1, KeptFiles
      <3> QED BY <1>0, <3>1 DEF Whole
    <2> QED BY <2>2, <2>3
  <1>6. /\ Snd' \in {"run", "ok", "err"} /\ (Snd' = "ok" <=> s'.pc = "ok")
        /\ Snd # "run" => Snd' = Snd
        /\ Snd \in {"run", "ok", "err"} /\ (Snd = "run" <=> s.pc \notin Done)
    BY <1>1 DEF Outcome, Done
  <1>7. /\ Rcv' \in {"run", "ok", "err"}
        /\ Rcv # "run" => Rcv' = Rcv
        /\ Rcv \in {"run", "ok", "err"} /\ (Rcv = "run" <=> r.pc \notin Done)
        /\ Rcv' = "run" <=> r'.pc \notin Done
    BY <1>1 DEF Outcome, Done
  <1>8. s'.pc = "ok" => Len(r'.files) = xfer.files
    BY <1>3 DEF FinInv
  <1>9. ASSUME \/ Got' = Got /\ Kept' = Kept
               \/ /\ Snd' = Snd /\ Rcv = "run" /\ Rcv' = "run"
                  /\ \/ Got' \in Got + 1..Job.size /\ Kept' = Kept
                     \/ /\ Got + Job.slack >= Job.size /\ Kept < Job.files
                        /\ Kept' = Kept + 1 /\ Got' = 0
        PROVE  [Promise!Next]_(Promise!ftvars)
    <2>1. CASE Got' = Got /\ Kept' = Kept
      <3>1. CASE Snd' = Snd /\ Rcv' = Rcv
        <4>1. UNCHANGED <<Job, Got, Kept, Snd, Rcv>>
          BY <1>2, <2>1, <3>1
        <4> QED BY <4>1 DEF Promise!ftvars
      <3>2. CASE ~(Snd' = Snd /\ Rcv' = Rcv)
        <4>1. Snd = "run" \/ Rcv = "run"
          BY <1>6, <1>7, <3>2
        <4>2. Snd' \in (IF Snd = "run" THEN {"run", "ok", "err"} ELSE {Snd})
          BY <1>6
        <4>3. Rcv' \in (IF Rcv = "run" THEN {"run", "ok", "err"} ELSE {Rcv})
          BY <1>7
        <4>4. Snd = "run" /\ Snd' = "ok" /\ Job.assured => Kept = Job.files
          BY <1>2, <1>5, <1>6, <1>8, <2>1
        <4> HIDE DEF Job, Got, Kept, Snd, Rcv
        <4>5. /\ Snd = "run" \/ Rcv = "run"
              /\ Snd' \in IF Snd = "run" THEN {"run", "ok", "err"} ELSE {Snd}
              /\ Rcv' \in IF Rcv = "run" THEN {"run", "ok", "err"} ELSE {Rcv}
              /\ Snd = "run" /\ Snd' = "ok" /\ Job.assured => Kept = Job.files
              /\ UNCHANGED <<Job, Got, Kept>>
          BY <1>2, <2>1, <4>1, <4>2, <4>3, <4>4
        <4> USE DEF Job, Got, Kept, Snd, Rcv
        <4>6. Promise!Return
          BY <4>5 DEF Promise!Return
        <4> QED BY <4>6 DEF Promise!Next
      <3> QED BY <3>1, <3>2
    <2>2. CASE /\ Snd' = Snd /\ Rcv = "run" /\ Rcv' = "run"
               /\ Got' \in Got + 1..Job.size /\ Kept' = Kept
      <3>1. Promise!Extend
        BY <1>2, <2>2 DEF Promise!Extend
      <3> QED BY <3>1 DEF Promise!Next
    <2>3. CASE /\ Snd' = Snd /\ Rcv = "run" /\ Rcv' = "run"
               /\ Got + Job.slack >= Job.size /\ Kept < Job.files
               /\ Kept' = Kept + 1 /\ Got' = 0
      <3>1. Promise!Keep
        BY <1>2, <2>3 DEF Promise!Keep
      <3> QED BY <3>1 DEF Promise!Next
    <2> QED BY <1>9, <2>1, <2>2, <2>3
  <1> HIDE DEF Job, Got, Kept, Snd, Rcv
  <1>11. CASE r' = r \/ Keeps(r, r')
    BY <1>4, <1>5, <1>9, <1>11 DEF Keeps
  <1>12. CASE ~(r' = r \/ Keeps(r, r'))
    <2>1. s' = s /\ r.pc \notin Done
      BY <1>1, <1>12
    <2>2. PICK p, out : ReceiverMoves(xfer, r, p, r', out)
      BY <1>1, <1>12
    <2>3. \/ r'.good = r.good /\ Len(r'.files) = Len(r.files)
          \/ r'.pc \notin Done /\ r'.good \in r.good + 1..xfer.size /\ Len(r'.files) = Len(r.files)
          \/ /\ r'.pc \notin Done /\ r'.good = 0 /\ Len(r'.files) = Len(r.files) + 1
             /\ r.good = xfer.size /\ Len(r.files) < xfer.files
      BY <1>0, <1>3, <1>12, <2>1, <2>2, GotAndKept
    <2>4. Snd' = Snd /\ Rcv = "run"
      BY <1>7, <2>1 DEF Snd
    <2>5. r.good = xfer.size => r.good + 0 >= xfer.size
      BY <1>0 DEF XferOK
    <2> QED BY <1>2, <1>4, <1>5, <1>7, <1>9, <1>12, <2>3, <2>4, <2>5
  <1> QED BY <1>11, <1>12

\* A batch of which no file is turned down does what FileTransfer promises until the line
\* drops exactly a data header: the receiver's file grows in order, is handed over only
\* when whole, and the sender reports success only when every file has been (zmodem_send,
\* receive_into, receive_one_file).
THEOREM KeepsPromiseHolds == TakesAll /\ Spec => KeepsPromise
  <1>1. Init => Promise!Init
    BY PromiseInit
  <1>2. TakesAll /\ [Next]_vars /\ Inv => TakesAll'
    BY NextHolds DEF TakesAll
  <1>3. Inv /\ Inv' /\ [Next]_vars /\ TakesAll => [amiss' \/ Promise!Next]_(Promise!ftvars)
    BY PromiseStep
  <1> QED BY <1>1, <1>2, <1>3, Invariance, PTL DEF Spec, KeepsPromise

-----------------------------------------------------------------------------
(* A line without faults.  The halves take turns: either something is under   *)
(* way to the receiver, or the sender has an answer to read, and neither has  *)
(* a reason to count a retry.  The one overlap is at the start, where both    *)
(* halves speak first: one ZRINIT more than the sender needs is under way, or  *)
(* will be when the receiver answers ZRQINIT.                                *)

Rqinit == Plain("ZRQINIT")
Rinit == Plain("ZRINIT")
FileFrame(t) == <<Plain("ZFILE"), Subpacket(t.f, 0, "W")>>
Mark(x) == IF x.segmented THEN "W" ELSE "Q"
Rpos0 == Header("ZRPOS", 0, 0)

CleanStart(x, t, u, q, a) ==
  /\ t.pc = "init" /\ t.f = 1 /\ u.pc = "wait" /\ u.seen + 1 = t.f
  /\ \/ q = <<Rqinit>> /\ a = <<Rinit>> /\ u.idle = 0
     \/ q = <<>> /\ a = <<Rinit, Rinit>>

CleanFile(x, t, u, q, a) ==
  /\ t.pc = "file"
  /\ \/ /\ u.pc = "wait" /\ u.seen + 1 = t.f /\ u.idle = 0 /\ t.stray = 0
        /\ q = <<Rqinit, Plain("ZFILE"), Subpacket(t.f, 0, "W")>> /\ a = <<>>
     \/ /\ u.pc = "wait" /\ u.seen + 1 = t.f /\ q = FileFrame(t)
        /\ a = <<>> \/ (a = <<Rinit>> /\ t.stray = 0)
     \/ /\ u.pc = "info" /\ u.seen = t.f /\ q = <<Subpacket(t.f, 0, "W")>>
        /\ a = <<>> \/ (a = <<Rinit>> /\ t.stray = 0)
     \/ /\ u.pc = "data" /\ u.pos = 0 /\ u.seen = t.f /\ q = <<>>
        /\ a = <<Rpos0>> \/ (a = <<Rinit, Rpos0>> /\ t.stray = 0)
     \/ /\ u.pc = "wait" /\ u.seen = t.f /\ q = <<>>
        /\ a = <<Plain("ZSKIP")>> \/ (a = <<Rinit, Plain("ZSKIP")>> /\ t.stray = 0)

CleanData(x, t, u, q, a) ==
  /\ t.pc = "data" /\ u.seen = t.f
  /\ \/ /\ u.pc = "data" /\ u.pos = t.pos /\ a = <<>>
        /\ q = <<Header("ZDATA", t.f, t.pos), DataSub(t, Mark(x))>>
     \/ /\ u.pc = "sub" /\ u.pos = t.pos /\ a = <<>>
        /\ q = <<DataSub(t, Mark(x))>>
     \/ /\ u.pc = (IF x.segmented THEN "data" ELSE "sub") /\ u.pos = t.pos + 1
        /\ q = <<>> /\ a = <<Header("ZACK", 0, t.pos + 1)>>

CleanEof(x, t, u, q, a) ==
  LET eof == Header("ZEOF", t.f, x.size) IN
  /\ t.pc = "eof" /\ u.seen = t.f
  /\ \/ /\ u.pc = "data" /\ u.pos = t.pos /\ t.pos + 1 = x.size /\ a = <<>>
        /\ q = <<Header("ZDATA", t.f, t.pos), DataSub(t, "E"), eof>>
     \/ /\ u.pc = "sub" /\ u.pos = t.pos /\ t.pos + 1 = x.size /\ a = <<>>
        /\ q = <<DataSub(t, "E"), eof>>
     \/ u.pc = "data" /\ u.pos = x.size /\ q = <<eof>> /\ a = <<>>
     \/ u.pc = "wait" /\ q = <<>> /\ a = <<Rinit>>

CleanFin(x, t, u, q, a) ==
  \/ t.pc = "fin" /\ u.pc = "wait" /\ u.seen = t.f /\ q = <<Plain("ZFIN")>> /\ a = <<>>
  \/ t.pc = "fin" /\ u.pc = "ok" /\ q = <<>> /\ a = <<Plain("ZFIN")>>
  \/ t.pc = "ok" /\ u.pc = "ok" /\ q = <<>> /\ a = <<>>

Clean(x, t, u, q, a) ==
  /\ u.pc \notin Done => u.idle <= 1
  /\ ~u.junk
  /\ t.pc \in {"init", "file", "data"} => t.eofs = 0
  /\ \/ CleanStart(x, t, u, q, a) \/ CleanFile(x, t, u, q, a) \/ CleanData(x, t, u, q, a)
     \/ CleanEof(x, t, u, q, a) \/ CleanFin(x, t, u, q, a)

CleanInv ==
  /\ faults \in Nat
  /\ faults = 0 /\ xfer.files <= MaxBatchFiles => up /\ Clean(xfer, s, r, toR, toS)

LEMMA Fronts ==
  ASSUME NEW x, NEW y, NEW z
  PROVE  /\ Head(<<x>>) = x /\ Tail(<<x>>) = <<>>
         /\ Head(<<x, y>>) = x /\ Tail(<<x, y>>) = <<y>>
         /\ Head(<<x, y, z>>) = x /\ Tail(<<x, y, z>>) = <<y, z>>
         /\ <<x>> # <<>> /\ <<x, y>> # <<>> /\ <<x, y, z>> # <<>>
         /\ <<x>> # <<x, y>> /\ <<x>> # <<y, z>>
  <1> DEFINE S == {x, y, z}
  <1>1. <<x>> \in Seq(S) /\ <<y>> \in Seq(S) /\ <<x, y>> \in Seq(S) /\ <<y, z>> \in Seq(S)
        /\ <<x, y, z>> \in Seq(S) /\ <<>> \in Seq(S)
    OBVIOUS
  <1>2. Tail(<<x>>) = <<>>
    <2>1. Tail(<<x>>) \in Seq(S) /\ Len(Tail(<<x>>)) = Len(<<>>)
      BY <1>1
    <2> QED BY <1>1, <2>1, SeqEqual
  <1>3. Tail(<<x, y>>) = <<y>>
    <2>1. /\ Tail(<<x, y>>) \in Seq(S) /\ Len(Tail(<<x, y>>)) = Len(<<y>>)
          /\ \A i \in 1..Len(Tail(<<x, y>>)) : Tail(<<x, y>>)[i] = <<y>>[i]
      BY <1>1
    <2> QED BY <1>1, <2>1, SeqEqual
  <1>4. Tail(<<x, y, z>>) = <<y, z>>
    <2>1. /\ Tail(<<x, y, z>>) \in Seq(S) /\ Len(Tail(<<x, y, z>>)) = Len(<<y, z>>)
          /\ \A i \in 1..Len(Tail(<<x, y, z>>)) : Tail(<<x, y, z>>)[i] = <<y, z>>[i]
      BY <1>1
    <2> QED BY <1>1, <2>1, SeqEqual
  <1>5. /\ Head(<<x>>) = x /\ Head(<<x, y>>) = x /\ Head(<<x, y, z>>) = x
        /\ <<x>> # <<>> /\ <<x, y>> # <<>> /\ <<x, y, z>> # <<>>
        /\ <<x>> # <<x, y>> /\ <<x>> # <<y, z>>
    OBVIOUS
  <1> QED BY <1>2, <1>3, <1>4, <1>5

LEMMA Behind ==
  ASSUME NEW x, NEW y, NEW z
  PROVE  /\ <<>> \o <<>> = <<>> /\ <<>> \o <<x>> = <<x>> /\ <<>> \o <<x, y>> = <<x, y>>
         /\ <<>> \o <<x, y, z>> = <<x, y, z>>
         /\ <<x>> \o <<>> = <<x>> /\ <<x, y>> \o <<>> = <<x, y>> /\ <<x, y, z>> \o <<>> = <<x, y, z>>
         /\ <<x>> \o <<y>> = <<x, y>> /\ <<x>> \o <<y, z>> = <<x, y, z>>
  <1> DEFINE S == {x, y, z}
  <1>1. <<x>> \in Seq(S) /\ <<x, y>> \in Seq(S) /\ <<x, y, z>> \in Seq(S) /\ <<>> \in Seq(S)
    OBVIOUS
  <1>2. ASSUME NEW q \in Seq(S) PROVE <<>> \o q = q
    <2>1. /\ <<>> \o q \in Seq(S) /\ Len(<<>> \o q) = Len(q)
          /\ \A i \in 1..Len(<<>> \o q) : (<<>> \o q)[i] = q[i]
      OBVIOUS
    <2> QED BY <2>1, SeqEqual
  <1>3. ASSUME NEW q \in Seq(S) PROVE q \o <<>> = q
    BY WithNothing
  <1> HIDE DEF S
  <1> QED BY <1>1, <1>2, <1>3, Prepended

-----------------------------------------------------------------------------
(* What the sender does while it counts no retry.                            *)

LEMMA CleanSendFile ==
  ASSUME Limits, NEW t \in SenderState, t.att = 0
  PROVE  \E v : /\ SendFile(t) = Does(v, FileFrame(v))
                /\ v.pc = "file" /\ v.f = t.f /\ v.stray = 0 /\ v.eofs = t.eofs
  <1> DEFINE v == [t EXCEPT !.pc = "file", !.att = @ + 1, !.stray = 0]
  <1>1. v.pc = "file" /\ v.f = t.f /\ v.stray = 0 /\ v.eofs = t.eofs
    BY DEF SenderState
  <1>2. ~(t.att > MaxRetries)
    BY DEF Limits
  <1>3. SendFile(t) = Does(v, FileFrame(v))
    BY <1>1, <1>2 DEF SendFile, FileFrame
  <1> HIDE DEF v
  <1> QED BY <1>1, <1>3

LEMMA CleanNextFile ==
  ASSUME XferOK, Limits, NEW t \in SenderState, t.f <= xfer.files
  PROVE  \E v : \/ /\ NextFile(t) = Does(v, FileFrame(v)) /\ v.pc = "file" /\ v.f = t.f + 1
                   /\ v.stray = 0 /\ v.eofs = 0
                \/ NextFile(t) = Does(v, <<Plain("ZFIN")>>) /\ v.pc = "fin" /\ v.f = t.f
  <1>1. CASE t.f < xfer.files
    <2> DEFINE w == [t EXCEPT !.f = @ + 1, !.att = 0, !.eofs = 0]
    <2>0. t.f \in Nat /\ t.f + 1 \in Nat
      BY DEF SenderState
    <2>1. w \in SenderState /\ w.att = 0 /\ w.eofs = 0 /\ w.f = t.f + 1
      <3>1. w \in SenderState
        BY <2>0, SenderMade, Pcs
      <3> QED BY <3>1 DEF SenderState
    <2>2. NextFile(t) = SendFile(w)
      BY <1>1 DEF NextFile
    <2> HIDE DEF w
    <2>3. PICK v : /\ SendFile(w) = Does(v, FileFrame(v))
                   /\ v.pc = "file" /\ v.f = w.f /\ v.stray = 0 /\ v.eofs = w.eofs
      BY <2>1, CleanSendFile
    <2>4. NextFile(t) = Does(v, FileFrame(v)) /\ v.pc = "file" /\ v.f = t.f + 1 /\ v.stray = 0 /\ v.eofs = 0
      BY <2>1, <2>2, <2>3
    <2> QED BY <2>4
  <1>2. CASE ~(t.f < xfer.files)
    <2> DEFINE v == [t EXCEPT !.pc = "fin"]
    <2>1. v.pc = "fin" /\ v.f = t.f
      BY DEF SenderState
    <2>2. NextFile(t) = Does(v, <<Plain("ZFIN")>>)
      BY <1>2 DEF NextFile
    <2> HIDE DEF v
    <2> QED BY <2>1, <2>2
  <1> QED BY <1>1, <1>2

LEMMA CleanSendEof ==
  ASSUME Limits, NEW t \in SenderState, t.eofs = 0
  PROVE  \E v : /\ SendEof(t) = Does(v, <<Header("ZEOF", v.f, xfer.size)>>)
                /\ v.pc = "eof" /\ v.f = t.f /\ v.pos = t.pos
  <1> DEFINE v == [t EXCEPT !.pc = "eof", !.eofs = @ + 1]
  <1>1. v.pc = "eof" /\ v.f = t.f /\ v.pos = t.pos
    BY DEF SenderState
  <1>2. ~(t.eofs > MaxRetries)
    BY DEF Limits
  <1>3. SendEof(t) = Does(v, <<Header("ZEOF", v.f, xfer.size)>>)
    BY <1>1, <1>2 DEF SendEof
  <1> HIDE DEF v
  <1> QED BY <1>1, <1>3

LEMMA CleanSendChunk ==
  ASSUME Limits, NEW t \in SenderState, t.eofs = 0
  PROVE  \E v : /\ v.f = t.f /\ v.pos = t.pos
                /\ \/ /\ t.pos + 1 = xfer.size /\ v.pc = "eof"
                      /\ SendChunk(t) = Does(v, <<DataSub(v, "E"), Header("ZEOF", v.f, xfer.size)>>)
                   \/ /\ v.pc = "data" /\ v.eofs = 0
                      /\ SendChunk(t) = Does(v, <<DataSub(v, Mark(xfer))>>)
  <1>1. CASE t.pos + 1 = xfer.size
    <2>1. PICK v : /\ SendEof(t) = Does(v, <<Header("ZEOF", v.f, xfer.size)>>)
                   /\ v.pc = "eof" /\ v.f = t.f /\ v.pos = t.pos
      BY CleanSendEof
    <2>2. SendChunk(t) = Does(v, <<Subpacket(t.f, t.pos + 1, "E")>> \o <<Header("ZEOF", v.f, xfer.size)>>)
      BY <1>1, <2>1 DEF SendChunk, Plus, Does
    <2>3. SendChunk(t) = Does(v, <<DataSub(v, "E"), Header("ZEOF", v.f, xfer.size)>>)
      BY <2>1, <2>2, Prepended DEF DataSub
    <2> QED BY <1>1, <2>1, <2>3
  <1>2. CASE t.pos + 1 # xfer.size
    <2> DEFINE v == [t EXCEPT !.pc = "data", !.stray = 0]
    <2>1. v.pc = "data" /\ v.eofs = 0 /\ v.f = t.f /\ v.pos = t.pos
      BY DEF SenderState
    <2>2. SendChunk(t) = Does(v, <<DataSub(v, Mark(xfer))>>)
      BY <1>2, <2>1 DEF SendChunk, DataSub, Mark
    <2> HIDE DEF v
    <2> QED BY <2>1, <2>2
  <1> QED BY <1>1, <1>2

\* send_zdata_run with its counters at rest: the data goes out, or there is none left.
RunSent(x, t, v, d) ==
  LET data == Header("ZDATA", v.f, v.pos)
      eof == Header("ZEOF", v.f, x.size) IN
  /\ v.f = t.f /\ v.pos = t.pos
  /\ \/ t.pos >= x.size /\ v.pc = "eof" /\ d = Does(v, <<eof>>)
     \/ t.pos + 1 = x.size /\ v.pc = "eof" /\ d = Does(v, <<data, DataSub(v, "E"), eof>>)
     \/ v.pc = "data" /\ v.eofs = 0 /\ d = Does(v, <<data, DataSub(v, Mark(x))>>)

LEMMA CleanSendRun ==
  ASSUME Limits, NEW t \in SenderState, t.eofs = 0, t.att = 0
  PROVE  \E v : RunSent(xfer, t, v, SendRun(t))
  <1>1. CASE t.pos >= xfer.size
    BY <1>1, CleanSendEof DEF SendRun, RunSent
  <1>2. CASE ~(t.pos >= xfer.size)
    <2> DEFINE w == [t EXCEPT !.att = @ + 1]
    <2>1. w \in SenderState /\ w.eofs = 0 /\ w.f = t.f /\ w.pos = t.pos
      BY DEF SenderState
    <2>2. ~(t.att > MaxRetries)
      BY DEF Limits
    <2>3. SendRun(t) = Plus(<<Header("ZDATA", t.f, t.pos)>>, SendChunk(w))
      BY <1>2, <2>2 DEF SendRun
    <2> HIDE DEF w
    <2>4. PICK v : /\ v.f = w.f /\ v.pos = w.pos
                   /\ \/ /\ w.pos + 1 = xfer.size /\ v.pc = "eof"
                         /\ SendChunk(w) = Does(v, <<DataSub(v, "E"), Header("ZEOF", v.f, xfer.size)>>)
                      \/ /\ v.pc = "data" /\ v.eofs = 0
                         /\ SendChunk(w) = Does(v, <<DataSub(v, Mark(xfer))>>)
      BY <2>1, CleanSendChunk
    <2> DEFINE h == Header("ZDATA", v.f, v.pos)
    <2>5. ASSUME NEW o, SendChunk(w) = Does(v, o) PROVE SendRun(t) = Does(v, <<h>> \o o)
      BY <2>1, <2>3, <2>4, <2>5 DEF Plus, Does
    <2> HIDE DEF h
    <2>f. v.f = t.f /\ v.pos = t.pos
      BY <2>1, <2>4
    <2>6. CASE /\ w.pos + 1 = xfer.size /\ v.pc = "eof"
               /\ SendChunk(w) = Does(v, <<DataSub(v, "E"), Header("ZEOF", v.f, xfer.size)>>)
      <3>1. SendRun(t) = Does(v, <<h>> \o <<DataSub(v, "E"), Header("ZEOF", v.f, xfer.size)>>)
        BY <2>5, <2>6
      <3>2. SendRun(t) = Does(v, <<h, DataSub(v, "E"), Header("ZEOF", v.f, xfer.size)>>)
        BY <3>1, Prepended
      <3> QED BY <2>1, <2>6, <2>f, <3>2 DEF RunSent, h
    <2>7. CASE /\ v.pc = "data" /\ v.eofs = 0
               /\ SendChunk(w) = Does(v, <<DataSub(v, Mark(xfer))>>)
      <3>1. SendRun(t) = Does(v, <<h>> \o <<DataSub(v, Mark(xfer))>>)
        BY <2>5, <2>7
      <3>2. SendRun(t) = Does(v, <<h, DataSub(v, Mark(xfer))>>)
        BY <3>1, Prepended
      <3> QED BY <2>7, <2>f, <3>2 DEF RunSent, h
    <2> QED BY <2>4, <2>6, <2>7
  <1> QED BY <1>1, <1>2

LEMMA CleanSentFields ==
  ASSUME NEW f, NEW n
  PROVE  /\ Rinit.k = "ZRINIT" /\ Rinit.ok /\ Rqinit.k = "ZRQINIT" /\ Rqinit.ok
         /\ Rpos0.k = "ZRPOS" /\ Rpos0.ok /\ Rpos0.pos = 0
         /\ Plain("ZSKIP").k = "ZSKIP" /\ Plain("ZSKIP").ok
         /\ Plain("ZFIN").k = "ZFIN" /\ Plain("ZFIN").ok
         /\ Plain("ZFILE").k = "ZFILE" /\ Plain("ZFILE").ok
         /\ Header("ZACK", f, n).k = "ZACK" /\ Header("ZACK", f, n).ok /\ Header("ZACK", f, n).pos = n
         /\ Header("ZDATA", f, n).k = "ZDATA" /\ Header("ZDATA", f, n).ok /\ Header("ZDATA", f, n).pos = n
         /\ Header("ZEOF", f, n).k = "ZEOF" /\ Header("ZEOF", f, n).ok /\ Header("ZEOF", f, n).pos = n
  BY DEF Rinit, Rqinit, Rpos0, Plain, Header

\* The receiver waits for the next file, and the sender goes on to it.
LEMMA CleanGoesOn ==
  ASSUME XferOK, Limits, NEW t, SenderTyped(xfer, t), NEW u, u.pc = "wait", u.seen = t.f,
         u.idle <= 1, ~u.junk
  PROVE  Clean(xfer, NextFile(t).st, u, <<>> \o NextFile(t).out, <<>>)
  <1>0. t \in SenderState /\ t.f <= xfer.files /\ t.f \in Nat
    BY DEF SenderTyped, SenderState, XferOK
  <1>1. PICK v : \/ /\ NextFile(t) = Does(v, FileFrame(v)) /\ v.pc = "file" /\ v.f = t.f + 1
                    /\ v.stray = 0 /\ v.eofs = 0
                 \/ NextFile(t) = Does(v, <<Plain("ZFIN")>>) /\ v.pc = "fin" /\ v.f = t.f
    BY <1>0, CleanNextFile
  <1>2. CASE /\ NextFile(t) = Does(v, FileFrame(v)) /\ v.pc = "file" /\ v.f = t.f + 1
             /\ v.stray = 0 /\ v.eofs = 0
    <2>1. <<>> \o NextFile(t).out = FileFrame(v) /\ NextFile(t).st = v
      BY <1>2, Behind DEF Does, FileFrame
    <2>2. CleanFile(xfer, v, u, FileFrame(v), <<>>)
      BY <1>2 DEF CleanFile
    <2> QED BY <1>2, <2>1, <2>2 DEF Clean
  <1>3. CASE NextFile(t) = Does(v, <<Plain("ZFIN")>>) /\ v.pc = "fin" /\ v.f = t.f
    <2>1. <<>> \o NextFile(t).out = <<Plain("ZFIN")>> /\ NextFile(t).st = v
      BY <1>3, Behind DEF Does
    <2>2. CleanFin(xfer, v, u, <<Plain("ZFIN")>>, <<>>)
      BY <1>3 DEF CleanFin
    <2> QED BY <1>3, <2>1, <2>2 DEF Clean
  <1> QED BY <1>1, <1>2, <1>3

\* The receiver has the file open at the sender's position, and the sender goes on there.
LEMMA CleanRuns ==
  ASSUME XferOK, Limits, NEW t, t \in SenderState, t.eofs = 0, t.att = 0, t.pos <= xfer.size,
         NEW u, u.pc = "data", u.seen = t.f, u.pos = t.pos, u.idle <= 1, ~u.junk
  PROVE  Clean(xfer, SendRun(t).st, u, <<>> \o SendRun(t).out, <<>>)
  <1>0. t.pos \in Nat /\ xfer.size \in Nat
    BY DEF SenderState, XferOK
  <1>1. PICK v : RunSent(xfer, t, v, SendRun(t))
    BY CleanSendRun
  <1> DEFINE data == Header("ZDATA", v.f, v.pos)
             eof == Header("ZEOF", v.f, xfer.size)
  <1>f. v.f = t.f /\ v.pos = t.pos
    BY <1>1 DEF RunSent
  <1>2. CASE t.pos >= xfer.size /\ v.pc = "eof" /\ SendRun(t) = Does(v, <<eof>>)
    <2>1. <<>> \o SendRun(t).out = <<eof>> /\ SendRun(t).st = v
      BY <1>2, Behind DEF Does
    <2>2. u.pos = xfer.size
      BY <1>0, <1>2
    <2>3. CleanEof(xfer, v, u, <<eof>>, <<>>)
      BY <1>2, <1>f, <2>2 DEF CleanEof
    <2> QED BY <1>2, <2>1, <2>3 DEF Clean
  <1>3. CASE t.pos + 1 = xfer.size /\ v.pc = "eof" /\ SendRun(t) = Does(v, <<data, DataSub(v, "E"), eof>>)
    <2>1. <<>> \o SendRun(t).out = <<data, DataSub(v, "E"), eof>> /\ SendRun(t).st = v
      BY <1>3, Behind DEF Does
    <2>2. CleanEof(xfer, v, u, <<data, DataSub(v, "E"), eof>>, <<>>)
      BY <1>3, <1>f DEF CleanEof
    <2> QED BY <1>3, <2>1, <2>2 DEF Clean
  <1>4. CASE v.pc = "data" /\ v.eofs = 0 /\ SendRun(t) = Does(v, <<data, DataSub(v, Mark(xfer))>>)
    <2>1. <<>> \o SendRun(t).out = <<data, DataSub(v, Mark(xfer))>> /\ SendRun(t).st = v
      BY <1>4, Behind DEF Does
    <2>2. CleanData(xfer, v, u, <<data, DataSub(v, Mark(xfer))>>, <<>>)
      BY <1>4, <1>f DEF CleanData
    <2> QED BY <1>4, <2>1, <2>2 DEF Clean
  <1> QED BY <1>1, <1>2, <1>3, <1>4 DEF RunSent

\* The same within a frame: the next chunk needs no header.
LEMMA CleanStreams ==
  ASSUME XferOK, Limits, NEW t, t \in SenderState, t.eofs = 0,
         NEW u, u.pc = "sub", u.seen = t.f, u.pos = t.pos, u.idle <= 1, ~u.junk
  PROVE  Clean(xfer, SendChunk(t).st, u, <<>> \o SendChunk(t).out, <<>>)
  <1>1. PICK v : /\ v.f = t.f /\ v.pos = t.pos
                 /\ \/ /\ t.pos + 1 = xfer.size /\ v.pc = "eof"
                       /\ SendChunk(t) = Does(v, <<DataSub(v, "E"), Header("ZEOF", v.f, xfer.size)>>)
                    \/ /\ v.pc = "data" /\ v.eofs = 0
                       /\ SendChunk(t) = Does(v, <<DataSub(v, Mark(xfer))>>)
    BY CleanSendChunk
  <1> DEFINE eof == Header("ZEOF", v.f, xfer.size)
  <1>2. CASE t.pos + 1 = xfer.size /\ v.pc = "eof" /\ SendChunk(t) = Does(v, <<DataSub(v, "E"), eof>>)
    <2>1. <<>> \o SendChunk(t).out = <<DataSub(v, "E"), eof>> /\ SendChunk(t).st = v
      BY <1>2, Behind DEF Does
    <2>2. CleanEof(xfer, v, u, <<DataSub(v, "E"), eof>>, <<>>)
      BY <1>1, <1>2 DEF CleanEof
    <2> QED BY <1>2, <2>1, <2>2 DEF Clean
  <1>3. CASE v.pc = "data" /\ v.eofs = 0 /\ SendChunk(t) = Does(v, <<DataSub(v, Mark(xfer))>>)
    <2>1. <<>> \o SendChunk(t).out = <<DataSub(v, Mark(xfer))>> /\ SendChunk(t).st = v
      BY <1>3, Behind DEF Does
    <2>2. CleanData(xfer, v, u, <<DataSub(v, Mark(xfer))>>, <<>>)
      BY <1>1, <1>3 DEF CleanData
    <2> QED BY <1>3, <2>1, <2>2 DEF Clean
  <1> QED BY <1>1, <1>2, <1>3

LEMMA CleanSender ==
  ASSUME XferOK, Limits, NEW t, NEW u, NEW q, NEW a, SenderTyped(xfer, t), Further(xfer, t),
         Clean(xfer, t, u, q, a), t.pc \notin Done, a # <<>>,
         NEW p, p = Head(a), NEW d, d = SenderHeader(t, p)
  PROVE  /\ p.k \notin {"CAN", "ESC"} /\ p.ok
         /\ Clean(xfer, d.st, u, IF u.pc \notin Done THEN q \o d.out ELSE q, Tail(a))
  <1>0. /\ t \in SenderState /\ t.f <= xfer.files /\ t.f \in Nat /\ t.pos \in Nat /\ t.pos <= xfer.size
        /\ xfer.size \in Nat
    BY DEF SenderTyped, SenderState, XferOK
  <1>c. (u.pc \notin Done => u.idle <= 1) /\ ~u.junk /\ (t.pc \in {"init", "file", "data"} => t.eofs = 0)
    BY DEF Clean
  <1>1. CASE CleanStart(xfer, t, u, q, a)
    <2> DEFINE w == [t EXCEPT !.att = 0]
    <2>1. w \in SenderState /\ w.att = 0 /\ w.eofs = t.eofs /\ w.f = t.f
      BY <1>0 DEF SenderState
    <2>2. t.pc = "init" /\ t.f = 1 /\ u.pc = "wait" /\ u.seen + 1 = t.f /\ u.pc \notin Done
      BY <1>1 DEF CleanStart, Done
    <2>3. p = Rinit
      BY <1>1, Fronts DEF CleanStart
    <2>4. d = SendFile(w)
      BY <2>2, <2>3, CleanSentFields DEF SenderHeader
    <2> HIDE DEF w
    <2>5. PICK v : d = Does(v, FileFrame(v)) /\ v.pc = "file" /\ v.f = w.f /\ v.stray = 0 /\ v.eofs = w.eofs
      BY <2>1, <2>4, CleanSendFile
    <2>6. d.st = v /\ d.out = FileFrame(v) /\ v.f = t.f /\ v.eofs = 0
      BY <1>c, <2>1, <2>2, <2>5 DEF Does
    <2>7. CASE q = <<Rqinit>> /\ a = <<Rinit>> /\ u.idle = 0
      <3>1. q \o d.out = <<Rqinit, Plain("ZFILE"), Subpacket(v.f, 0, "W")>> /\ Tail(a) = <<>>
        <4>1. q \o d.out = <<Rqinit>> \o <<Plain("ZFILE"), Subpacket(v.f, 0, "W")>>
          BY <2>6, <2>7 DEF FileFrame
        <4>2. <<Rqinit>> \o <<Plain("ZFILE"), Subpacket(v.f, 0, "W")>>
                = <<Rqinit, Plain("ZFILE"), Subpacket(v.f, 0, "W")>>
          BY Prepended
        <4>3. Tail(<<Rinit>>) = <<>>
          BY Fronts
        <4> QED BY <2>7, <4>1, <4>2, <4>3
      <3>2. CleanFile(xfer, v, u, q \o d.out, <<>>)
        BY <2>2, <2>5, <2>6, <2>7, <3>1 DEF CleanFile
      <3> QED BY <1>c, <2>2, <2>3, <2>5, <2>6, <3>1, <3>2, CleanSentFields DEF Clean
    <2>8. CASE q = <<>> /\ a = <<Rinit, Rinit>>
      <3>1. q \o d.out = FileFrame(v) /\ Tail(a) = <<Rinit>>
        BY <2>6, <2>8, Fronts, Behind DEF FileFrame
      <3>2. CleanFile(xfer, v, u, FileFrame(v), <<Rinit>>)
        BY <2>2, <2>5, <2>6 DEF CleanFile
      <3> QED BY <1>c, <2>2, <2>3, <2>5, <2>6, <3>1, <3>2, CleanSentFields DEF Clean
    <2> QED BY <1>1, <2>7, <2>8 DEF CleanStart
  \* A ZRINIT passed over while waiting for ZRPOS.
  <1>2. CASE CleanFile(xfer, t, u, q, a) /\ t.stray = 0 /\ p = Rinit
    <2> DEFINE v == [t EXCEPT !.stray = @ + 1]
    <2>1. v.pc = t.pc /\ v.f = t.f /\ v.eofs = t.eofs /\ t.pc = "file"
      BY <1>0, <1>2 DEF SenderState, CleanFile
    <2>2. d = Does(v, <<>>)
      <3>1. t.stray + 1 <= MaxRetries
        BY <1>2 DEF Limits
      <3> QED BY <1>2, <2>1, <3>1, CleanSentFields DEF SenderHeader
    <2> HIDE DEF v
    <2>3. d.st = v /\ d.out = <<>>
      BY <2>2 DEF Does
    <2>4. ~(a = <<>>) /\ ~(a = <<Rpos0>>) /\ ~(a = <<Plain("ZSKIP")>>)
      BY <1>2, Fronts, CleanSentFields
    <2>5. CleanFile(xfer, v, u, q, Tail(a)) /\ q \o <<>> = q /\ u.pc \notin Done
      <3>1. \/ a = <<Rinit>> /\ Tail(a) = <<>>
            \/ a = <<Rinit, Rpos0>> /\ Tail(a) = <<Rpos0>>
            \/ a = <<Rinit, Plain("ZSKIP")>> /\ Tail(a) = <<Plain("ZSKIP")>>
        <4>1. a = <<Rinit>> \/ a = <<Rinit, Rpos0>> \/ a = <<Rinit, Plain("ZSKIP")>>
          BY <1>2, <2>4 DEF CleanFile
        <4>2. /\ Tail(<<Rinit>>) = <<>> /\ Tail(<<Rinit, Rpos0>>) = <<Rpos0>>
              /\ Tail(<<Rinit, Plain("ZSKIP")>>) = <<Plain("ZSKIP")>>
          BY Fronts
        <4> QED BY <4>1, <4>2
      <3>2. q \o <<>> = q
        BY <1>2, Behind DEF CleanFile, FileFrame
      <3>3. u.pc \notin Done
        BY <1>2 DEF CleanFile, Done
      <3>4. /\ <<Rinit>> # <<Rinit, Rpos0>> /\ <<Rinit>> # <<Rinit, Plain("ZSKIP")>>
            /\ <<Rinit, Rpos0>> # <<Rinit, Plain("ZSKIP")>>
        <4>1. <<Rpos0>> # <<Plain("ZSKIP")>>
          BY Fronts, CleanSentFields
        <4> QED BY <4>1, Fronts
      <3>5. FileFrame(v) = FileFrame(t)
        BY <2>1 DEF FileFrame
      <3>6. ASSUME a = <<Rinit>>, Tail(a) = <<>> PROVE CleanFile(xfer, v, u, q, Tail(a))
        BY <1>2, <2>1, <2>4, <3>4, <3>5, <3>6 DEF CleanFile
      <3>7. ASSUME a = <<Rinit, Rpos0>>, Tail(a) = <<Rpos0>> PROVE CleanFile(xfer, v, u, q, Tail(a))
        BY <1>2, <2>1, <2>4, <3>4, <3>5, <3>7 DEF CleanFile
      <3>8. ASSUME a = <<Rinit, Plain("ZSKIP")>>, Tail(a) = <<Plain("ZSKIP")>>
            PROVE  CleanFile(xfer, v, u, q, Tail(a))
        BY <1>2, <2>1, <2>4, <3>4, <3>5, <3>8 DEF CleanFile
      <3>9. CleanFile(xfer, v, u, q, Tail(a))
        BY <3>1, <3>6, <3>7, <3>8
      <3> QED BY <3>2, <3>3, <3>9
    <2> QED BY <1>2, <1>c, <2>1, <2>3, <2>5, CleanSentFields DEF Clean
  <1>3. CASE CleanFile(xfer, t, u, q, a) /\ a = <<Rpos0>>
    <2>1. t.pc = "file" /\ u.pc = "data" /\ u.pos = 0 /\ u.seen = t.f /\ q = <<>> /\ p = Rpos0
      BY <1>3, Fronts, CleanSentFields DEF CleanFile
    <2> DEFINE w == [t EXCEPT !.pos = Lower(0, xfer.size), !.att = 0]
    <2>2. Lower(0, xfer.size) = 0
      BY <1>0 DEF Lower
    <2>3. w \in SenderState /\ w.eofs = 0 /\ w.att = 0 /\ w.pos = 0 /\ w.f = t.f
      BY <1>0, <1>c, <2>1, <2>2 DEF SenderState
    <2>4. d = SendRun(w)
      <3>1. p.k = "ZRPOS" /\ p.pos = 0
        BY <2>1, CleanSentFields
      <3>2. d = RunFrom(t, p.pos)
        BY <2>1, <3>1 DEF SenderHeader
      <3> QED BY <3>1, <3>2 DEF RunFrom
    <2> HIDE DEF w
    <2>5. Clean(xfer, d.st, u, <<>> \o d.out, <<>>)
      BY <1>0, <1>c, <2>1, <2>3, <2>4, CleanRuns DEF Done
    <2>6. u.pc \notin Done /\ Tail(a) = <<>>
      BY <1>3, <2>1, Fronts DEF Done
    <2> QED BY <2>1, <2>5, <2>6, CleanSentFields
  <1>4. CASE CleanFile(xfer, t, u, q, a) /\ a = <<Plain("ZSKIP")>>
    <2>1. t.pc = "file" /\ u.pc = "wait" /\ u.seen = t.f /\ q = <<>> /\ p = Plain("ZSKIP")
      BY <1>4, Fronts, CleanSentFields DEF CleanFile
    <2>2. d = NextFile(t)
      BY <2>1, CleanSentFields DEF SenderHeader
    <2>3. Clean(xfer, d.st, u, <<>> \o d.out, <<>>)
      BY <1>c, <2>1, <2>2, CleanGoesOn DEF Done
    <2>4. u.pc \notin Done /\ Tail(a) = <<>>
      BY <1>4, <2>1, Fronts DEF Done
    <2> QED BY <2>1, <2>3, <2>4, CleanSentFields
  <1>5. CASE CleanData(xfer, t, u, q, a)
    <2>1. /\ t.pc = "data" /\ u.seen = t.f /\ u.pos = t.pos + 1 /\ q = <<>>
          /\ u.pc = (IF xfer.segmented THEN "data" ELSE "sub")
          /\ a = <<Header("ZACK", 0, t.pos + 1)>> /\ p = Header("ZACK", 0, t.pos + 1)
      BY <1>5, Fronts DEF CleanData
    <2> DEFINE w == [t EXCEPT !.pos = @ + 1, !.att = 0]
    <2>2. t.pos + 1 < xfer.size /\ t.pos + 1 \in Nat
      BY <1>0, <2>1 DEF Further
    <2>3. w \in SenderState /\ w.eofs = 0 /\ w.att = 0 /\ w.pos = t.pos + 1 /\ w.f = t.f
      <3>1. w \in SenderState
        BY <1>0, <2>2, SenderMade, Pcs
      <3> QED BY <1>0, <1>c, <2>1, <3>1 DEF SenderState
    <2>4. d = IF xfer.segmented THEN SendRun(w) ELSE SendChunk(w)
      BY <2>1, CleanSentFields DEF SenderHeader, DataAcked
    <2> HIDE DEF w
    <2>5. Clean(xfer, d.st, u, <<>> \o d.out, <<>>)
      <3>1. CASE xfer.segmented
        BY <1>0, <1>c, <2>1, <2>2, <2>3, <2>4, <3>1, CleanRuns DEF Done
      <3>2. CASE ~xfer.segmented
        BY <1>c, <2>1, <2>3, <2>4, <3>2, CleanStreams DEF Done
      <3> QED BY <3>1, <3>2
    <2>6. u.pc \notin Done /\ Tail(a) = <<>>
      BY <2>1, Fronts DEF Done
    <2> QED BY <2>1, <2>5, <2>6, CleanSentFields
  <1>6. CASE CleanEof(xfer, t, u, q, a)
    <2>1. t.pc = "eof" /\ u.pc = "wait" /\ u.seen = t.f /\ q = <<>> /\ a = <<Rinit>> /\ p = Rinit
      BY <1>6, Fronts DEF CleanEof
    <2>2. d = NextFile(t)
      BY <2>1, CleanSentFields DEF SenderHeader, AfterEof
    <2>3. Clean(xfer, d.st, u, <<>> \o d.out, <<>>)
      BY <1>c, <2>1, <2>2, CleanGoesOn DEF Done
    <2>4. u.pc \notin Done /\ Tail(a) = <<>>
      BY <2>1, Fronts DEF Done
    <2> QED BY <2>1, <2>3, <2>4, CleanSentFields
  <1>7. CASE CleanFin(xfer, t, u, q, a)
    <2>1. t.pc = "fin" /\ u.pc = "ok" /\ q = <<>> /\ a = <<Plain("ZFIN")>> /\ p = Plain("ZFIN")
      BY <1>7, Fronts DEF CleanFin, Done
    <2> DEFINE v == [t EXCEPT !.pc = "ok"]
    <2>2. d = Does(v, <<>>) /\ v.pc = "ok"
      BY <1>0, <2>1, CleanSentFields DEF SenderHeader, SenderState
    <2> HIDE DEF v
    <2>3. d.st.pc = "ok" /\ Tail(a) = <<>> /\ ~(u.pc \notin Done)
      BY <2>1, <2>2, Fronts DEF Does, Done
    <2>4. CleanFin(xfer, d.st, u, q, <<>>)
      BY <2>1, <2>3 DEF CleanFin
    <2> QED BY <1>c, <2>1, <2>3, <2>4, CleanSentFields DEF Clean
  <1>8. CleanFile(xfer, t, u, q, a) => (t.stray = 0 /\ p = Rinit) \/ a = <<Rpos0>> \/ a = <<Plain("ZSKIP")>>
    BY Fronts DEF CleanFile
  <1> QED BY <1>1, <1>2, <1>3, <1>4, <1>5, <1>6, <1>7, <1>8 DEF Clean

-----------------------------------------------------------------------------
(* What the receiver does while it counts no error.                          *)

\* What WaitHeader makes of the headers a clean line brings between files.
WaitDoes(u, p, w) ==
  /\ w.pc = "wait" /\ w.seen = u.seen /\ w.idle = u.idle + 1 /\ w.junk = u.junk
  /\ p.k = "ZRQINIT" => WaitHeader(u, p) = Does(w, <<Rinit>>)
  /\ p.k = "ZFILE" /\ u.seen < MaxBatchFiles =>
       WaitHeader(u, p) =
         Does([w EXCEPT !.pc = "info", !.seen = @ + 1, !.idle = 0, !.errs = 0], <<>>)
  /\ p.k = "ZFIN" /\ u.seen > 0 =>
       WaitHeader(u, p) = Does([w EXCEPT !.pc = "ok"], <<Plain("ZFIN")>>)

LEMMA CleanWait ==
  ASSUME Limits, NEW u \in ReceiverState, u.pc = "wait", u.idle <= 1, NEW p
  PROVE  \E w \in ReceiverState : WaitDoes(u, p, w)
  <1> DEFINE e == IF u.errs > 0 /\ u.seen > 0 THEN 0 ELSE u.errs
             w == [u EXCEPT !.errs = IF @ > 0 /\ u.seen > 0 THEN 0 ELSE @, !.idle = @ + 1]
  <1>1. u.errs \in Nat /\ u.seen \in Nat /\ u.idle \in Nat /\ u.idle + 1 \in Nat
    BY DEF ReceiverState
  <1>2. e \in Nat /\ w = [u EXCEPT !.errs = e, !.idle = u.idle + 1]
    BY <1>1
  <1> HIDE DEF e
  <1>3. w \in ReceiverState
    BY <1>1, <1>2 DEF ReceiverState
  <1>4. w.pc = "wait" /\ w.seen = u.seen /\ w.idle = u.idle + 1 /\ w.junk = u.junk
    BY <1>2 DEF ReceiverState
  <1>5. WaitHeader(u, p) =
          IF w.idle > 2 * MaxRetries THEN GivesUp(w)
          ELSE CASE p.k \in {"ZRQINIT", "ZEOF"} -> Does(w, <<Plain("ZRINIT")>>)
                 [] p.k = "ZFILE" ->
                      IF BatchFull(w) THEN GivesUp(w)
                      ELSE Does([w EXCEPT !.pc = "info", !.seen = @ + 1, !.idle = 0, !.errs = 0], <<>>)
                 [] p.k = "ZFIN"  -> Does([w EXCEPT !.pc = IF w.seen = 0 THEN "err" ELSE "ok"], <<Plain("ZFIN")>>)
                 [] OTHER         -> Does(w, <<>>)
    BY DEF WaitHeader
  <1> HIDE DEF w
  <1>6. ~(w.idle > 2 * MaxRetries)
    BY <1>1, <1>4 DEF Limits
  <1>7. u.seen < MaxBatchFiles => ~BatchFull(w)
    BY <1>1, <1>4 DEF BatchFull, Limits
  <1>8. u.seen > 0 => w.seen # 0
    BY <1>1, <1>4
  <1>9. p.k = "ZRQINIT" => WaitHeader(u, p) = Does(w, <<Rinit>>)
    BY <1>5, <1>6 DEF Rinit
  <1>10. p.k = "ZFILE" /\ u.seen < MaxBatchFiles =>
           WaitHeader(u, p) =
             Does([w EXCEPT !.pc = "info", !.seen = @ + 1, !.idle = 0, !.errs = 0], <<>>)
    BY <1>5, <1>6, <1>7
  <1>11. p.k = "ZFIN" /\ u.seen > 0 =>
           WaitHeader(u, p) = Does([w EXCEPT !.pc = "ok"], <<Plain("ZFIN")>>)
    BY <1>5, <1>6, <1>8
  <1> QED BY <1>3, <1>4, <1>9, <1>10, <1>11 DEF WaitDoes

LEMMA SubFields ==
  ASSUME NEW f, NEW n, NEW m
  PROVE  /\ Subpacket(f, n, m).k = "sub" /\ Subpacket(f, n, m).ok /\ Subpacket(f, n, m).f = f
         /\ Subpacket(f, n, m).pos = n /\ Subpacket(f, n, m).mark = m
  BY DEF Subpacket

\* A ZRQINIT, a ZFILE and a ZFIN between files.
LEMMA CleanBetween ==
  ASSUME Limits, NEW u \in ReceiverState, u.pc = "wait", u.idle <= 1, ~u.junk
  PROVE  /\ \E v : /\ ReceiverItem(u, Rqinit) = Does(v, <<Rinit>>)
                   /\ v.pc = "wait" /\ v.seen = u.seen /\ v.idle = u.idle + 1 /\ ~v.junk
         /\ u.seen < MaxBatchFiles =>
              \E v : /\ ReceiverItem(u, Plain("ZFILE")) = Does(v, <<>>)
                     /\ v.pc = "info" /\ v.seen = u.seen + 1 /\ v.idle = 0 /\ ~v.junk
         /\ u.seen > 0 =>
              \E v : ReceiverItem(u, Plain("ZFIN")) = Does(v, <<Plain("ZFIN")>>) /\ v.pc = "ok" /\ ~v.junk
  <1>1. /\ ReceiverItem(u, Rqinit) = WaitHeader(u, Rqinit)
        /\ ReceiverItem(u, Plain("ZFILE")) = WaitHeader(u, Plain("ZFILE"))
        /\ ReceiverItem(u, Plain("ZFIN")) = WaitHeader(u, Plain("ZFIN"))
    BY CleanSentFields DEF ReceiverItem, IsSub
  <1>2. \E v : /\ ReceiverItem(u, Rqinit) = Does(v, <<Rinit>>)
               /\ v.pc = "wait" /\ v.seen = u.seen /\ v.idle = u.idle + 1 /\ ~v.junk
    <2> DEFINE p == Rqinit
    <2>1. PICK w \in ReceiverState : WaitDoes(u, p, w)
      BY CleanWait
    <2> QED BY <1>1, <2>1, CleanSentFields DEF WaitDoes
  <1>3. ASSUME u.seen < MaxBatchFiles
        PROVE  \E v : /\ ReceiverItem(u, Plain("ZFILE")) = Does(v, <<>>)
                      /\ v.pc = "info" /\ v.seen = u.seen + 1 /\ v.idle = 0 /\ ~v.junk
    <2> DEFINE p == Plain("ZFILE")
    <2>0. PICK w \in ReceiverState : WaitDoes(u, p, w)
      BY CleanWait
    <2>1. WaitHeader(u, p) = Does([w EXCEPT !.pc = "info", !.seen = @ + 1, !.idle = 0, !.errs = 0], <<>>)
      BY <1>3, <2>0, CleanSentFields DEF WaitDoes
    <2> DEFINE v == [w EXCEPT !.pc = "info", !.seen = @ + 1, !.idle = 0, !.errs = 0]
    <2>2. v.pc = "info" /\ v.seen = u.seen + 1 /\ v.idle = 0 /\ ~v.junk
      BY <2>0 DEF ReceiverState, WaitDoes
    <2>3. ReceiverItem(u, Plain("ZFILE")) = Does(v, <<>>)
      BY <1>1, <2>1
    <2> HIDE DEF v
    <2> QED BY <2>2, <2>3
  <1>4. ASSUME u.seen > 0
        PROVE  \E v : ReceiverItem(u, Plain("ZFIN")) = Does(v, <<Plain("ZFIN")>>) /\ v.pc = "ok" /\ ~v.junk
    <2> DEFINE p == Plain("ZFIN")
    <2>0. PICK w \in ReceiverState : WaitDoes(u, p, w)
      BY CleanWait
    <2>1. WaitHeader(u, p) = Does([w EXCEPT !.pc = "ok"], <<Plain("ZFIN")>>)
      BY <1>4, <2>0, CleanSentFields DEF WaitDoes
    <2> DEFINE v == [w EXCEPT !.pc = "ok"]
    <2>2. v.pc = "ok" /\ ~v.junk
      BY <2>0 DEF ReceiverState, WaitDoes
    <2>3. ReceiverItem(u, Plain("ZFIN")) = Does(v, <<Plain("ZFIN")>>)
      BY <1>1, <2>1
    <2> HIDE DEF v
    <2> QED BY <2>2, <2>3
  <1> QED BY <1>2, <1>3, <1>4

\* The info subpacket of a ZFILE, and the items of a ZDATA frame and of the ZEOF behind it.
KeepsCount(u, v) == v.seen = u.seen /\ v.idle = u.idle /\ ~v.junk

LEMMA CleanInfo ==
  ASSUME NEW u \in ReceiverState, u.pc = "info", ~u.junk, NEW f
  PROVE  \E v : /\ KeepsCount(u, v)
                /\ \/ ReceiverItem(u, Subpacket(f, 0, "W")) = Does(v, <<Plain("ZSKIP")>>) /\ v.pc = "wait"
                   \/ /\ ReceiverItem(u, Subpacket(f, 0, "W")) = Does(v, <<Rpos0>>)
                      /\ v.pc = "data" /\ v.pos = 0
  <1> DEFINE p == Subpacket(f, 0, "W")
  <1>0. p.k = "sub" /\ p.ok /\ p.f = f
    BY SubFields
  <1>1. ReceiverItem(u, p) = TakeInfo(u, p)
    BY <1>0 DEF ReceiverItem, IsSub
  <1> HIDE DEF p
  <1>2. CASE p.f \in xfer.skip
    <2> DEFINE v == ToWait(u)
    <2>1. KeepsCount(u, v) /\ v.pc = "wait"
      BY DEF KeepsCount, ToWait, ReceiverState
    <2>2. TakeInfo(u, p) = Does(v, <<Plain("ZSKIP")>>)
      BY <1>2 DEF TakeInfo
    <2> HIDE DEF v
    <2> QED BY <1>1, <2>1, <2>2 DEF p
  <1>3. CASE p.f \notin xfer.skip
    <2> DEFINE v == [u EXCEPT !.pc = "data", !.f = p.f, !.pos = 0, !.good = 0, !.errs = 0, !.skipped = FALSE]
    <2>1. KeepsCount(u, v) /\ v.pc = "data" /\ v.pos = 0
      BY DEF KeepsCount, ReceiverState
    <2>2. TakeInfo(u, p) = Does(v, Rpos(v))
      BY <1>3 DEF TakeInfo
    <2> HIDE DEF v
    <2>3. Rpos(v) = <<Rpos0>>
      BY <2>1 DEF Rpos, Rpos0
    <2> QED BY <1>1, <2>1, <2>2, <2>3 DEF p
  <1> QED BY <1>2, <1>3

LEMMA CleanHeader ==
  ASSUME NEW u \in ReceiverState, u.pc = "data", ~u.junk, NEW f
  PROVE  /\ \E v : /\ ReceiverItem(u, Header("ZDATA", f, u.pos)) = Does(v, <<>>)
                   /\ KeepsCount(u, v) /\ v.pc = "sub" /\ v.pos = u.pos
         /\ \E v : /\ ReceiverItem(u, Header("ZEOF", f, u.pos)) = Does(v, <<Rinit>>)
                   /\ KeepsCount(u, v) /\ v.pc = "wait"
  <1>h. ASSUME NEW p, p.k \in {"ZDATA", "ZEOF"}, p.ok
        PROVE  ReceiverItem(u, p) = IF p.k = "ZDATA" THEN TakeDataHeader(u, p) ELSE TakeEof(u, p)
    BY <1>h DEF ReceiverItem, IsSub, DataHeader
  <1>1. /\ ReceiverItem(u, Header("ZDATA", f, u.pos)) = TakeDataHeader(u, Header("ZDATA", f, u.pos))
        /\ ReceiverItem(u, Header("ZEOF", f, u.pos)) = TakeEof(u, Header("ZEOF", f, u.pos))
    BY <1>h, CleanSentFields
  <1>2. \E v : /\ ReceiverItem(u, Header("ZDATA", f, u.pos)) = Does(v, <<>>)
               /\ KeepsCount(u, v) /\ v.pc = "sub" /\ v.pos = u.pos
    <2> DEFINE v == [u EXCEPT !.pc = "sub"]
    <2>1. KeepsCount(u, v) /\ v.pc = "sub" /\ v.pos = u.pos
      BY DEF KeepsCount, ReceiverState
    <2>2. TakeDataHeader(u, Header("ZDATA", f, u.pos)) = Does(v, <<>>)
      BY CleanSentFields DEF TakeDataHeader
    <2> HIDE DEF v
    <2> QED BY <1>1, <2>1, <2>2
  <1>3. \E v : /\ ReceiverItem(u, Header("ZEOF", f, u.pos)) = Does(v, <<Rinit>>)
               /\ KeepsCount(u, v) /\ v.pc = "wait"
    <2> DEFINE w == ToWait(u)
               v == [w EXCEPT !.files = Append(@, [f |-> u.f, len |-> u.pos, good |-> u.good])]
    <2>1. KeepsCount(u, w) /\ w.pc = "wait" /\ w \in ReceiverState
      BY DEF KeepsCount, ToWait, ReceiverState, ReceiverPcs
    <2>2. TakeEof(u, Header("ZEOF", f, u.pos)) = Does(v, <<Rinit>>)
      BY CleanSentFields DEF TakeEof, Rinit
    <2> HIDE DEF w
    <2>3. KeepsCount(u, v) /\ v.pc = "wait"
      BY <2>1 DEF KeepsCount, ReceiverState
    <2> HIDE DEF v
    <2> QED BY <1>1, <2>2, <2>3
  <1> QED BY <1>2, <1>3

LEMMA CleanSub ==
  ASSUME NEW u \in ReceiverState, u.pc = "sub", ~u.junk, NEW f, NEW n, NEW m
  PROVE  \E v : /\ KeepsCount(u, v) /\ v.pos = u.pos + 1
                /\ v.pc = (IF m = "Q" THEN "sub" ELSE "data")
                /\ ReceiverItem(u, Subpacket(f, n, m)) =
                     Does(v, IF m = "E" THEN <<>> ELSE <<Header("ZACK", 0, u.pos + 1)>>)
  <1> DEFINE p == Subpacket(f, n, m)
             next == u.good = u.pos /\ p.f = u.f /\ p.pos = u.pos + 1
             v == [u EXCEPT !.errs = 0, !.skipped = FALSE, !.pos = @ + 1,
                            !.good = IF next THEN @ + 1 ELSE @,
                            !.pc = IF p.mark = "Q" THEN "sub" ELSE "data"]
  <1>0. p.k = "sub" /\ p.ok /\ p.mark = m
    BY SubFields
  <1>1. ReceiverItem(u, p) = TakeSub(u, p)
    BY <1>0 DEF ReceiverItem, IsSub
  <1> HIDE DEF p
  <1>2. KeepsCount(u, v) /\ v.pos = u.pos + 1 /\ v.pc = (IF p.mark = "Q" THEN "sub" ELSE "data")
    BY DEF KeepsCount, ReceiverState
  <1>3. TakeSub(u, p) = Does(v, IF p.mark = "E" THEN <<>> ELSE <<Header("ZACK", 0, v.pos)>>)
    BY DEF TakeSub
  <1> HIDE DEF v
  <1>4. ReceiverItem(u, p) = Does(v, IF m = "E" THEN <<>> ELSE <<Header("ZACK", 0, u.pos + 1)>>)
    BY <1>0, <1>1, <1>2, <1>3
  <1> QED BY <1>0, <1>2, <1>4 DEF p

LEMMA CleanReceiver ==
  ASSUME XferOK, Limits, NEW t, NEW u, NEW q, NEW a, SenderTyped(xfer, t), u \in ReceiverState,
         Clean(xfer, t, u, q, a), u.pc \notin Done, q # <<>>, xfer.files <= MaxBatchFiles,
         NEW p, p = Head(q), NEW d, d = ReceiverItem(u, p)
  PROVE  /\ p.k \notin {"CAN", "ESC"}
         /\ Clean(xfer, t, d.st, Tail(q), IF t.pc \notin Done THEN a \o d.out ELSE a)
  <1>0. /\ t \in SenderState /\ t.f <= xfer.files /\ t.f \in Nat /\ t.f > 0 /\ t.pos \in Nat
        /\ xfer.size \in Nat /\ xfer.files \in Nat
    BY DEF SenderTyped, SenderState, XferOK
  <1>u. u.seen \in Nat /\ u.idle \in Nat /\ u.pos \in Nat
    BY DEF ReceiverState
  <1>c. u.idle <= 1 /\ ~u.junk /\ (t.pc \in {"init", "file", "data"} => t.eofs = 0)
    BY DEF Clean
  <1>l. t.pc \notin Done
    BY DEF Clean, CleanStart, CleanFile, CleanData, CleanEof, CleanFin, Done
  \* It is enough that the shape holds afterwards.
  <1>g. ASSUME NEW v, NEW o, d = Does(v, o), v.idle <= 1, ~v.junk,
               \/ CleanStart(xfer, t, v, Tail(q), a \o o) \/ CleanFile(xfer, t, v, Tail(q), a \o o)
               \/ CleanData(xfer, t, v, Tail(q), a \o o) \/ CleanEof(xfer, t, v, Tail(q), a \o o)
               \/ CleanFin(xfer, t, v, Tail(q), a \o o)
        PROVE  Clean(xfer, t, d.st, Tail(q), IF t.pc \notin Done THEN a \o d.out ELSE a)
    <2>1. d.st = v /\ d.out = o
      BY <1>g DEF Does
    <2> QED BY <1>c, <1>g, <1>l, <2>1 DEF Clean
  <1>1. CASE CleanStart(xfer, t, u, q, a)
    <2>1. /\ t.pc = "init" /\ t.f = 1 /\ u.pc = "wait" /\ u.seen + 1 = t.f
          /\ q = <<Rqinit>> /\ a = <<Rinit>> /\ u.idle = 0
      BY <1>1 DEF CleanStart
    <2>2. PICK v : /\ ReceiverItem(u, Rqinit) = Does(v, <<Rinit>>)
                   /\ v.pc = "wait" /\ v.seen = u.seen /\ v.idle = u.idle + 1 /\ ~v.junk
      BY <1>c, <2>1, CleanBetween
    <2>3. p = Rqinit /\ Tail(q) = <<>>
      BY <2>1, Fronts
    <2>4. a \o <<Rinit>> = <<Rinit, Rinit>>
      BY <2>1, Behind
    <2>5. d = Does(v, <<Rinit>>) /\ v.idle <= 1
      BY <2>1, <2>2, <2>3
    <2>6. CleanStart(xfer, t, v, Tail(q), a \o <<Rinit>>)
      BY <2>1, <2>2, <2>3, <2>4 DEF CleanStart
    <2> QED BY <1>g, <2>2, <2>3, <2>5, <2>6, CleanSentFields
  <1>2. CASE CleanFile(xfer, t, u, q, a)
    <2> DEFINE info == Subpacket(t.f, 0, "W")
    <2>0. t.pc = "file" /\ FileFrame(t) = <<Plain("ZFILE"), info>>
      BY <1>2 DEF CleanFile, FileFrame
    <2>s. info.k = "sub"
      BY SubFields
    <2> HIDE DEF info
    <2>1. CASE /\ u.pc = "wait" /\ u.seen + 1 = t.f /\ u.idle = 0 /\ t.stray = 0
               /\ q = <<Rqinit, Plain("ZFILE"), info>> /\ a = <<>>
      <3>1. PICK v : /\ ReceiverItem(u, Rqinit) = Does(v, <<Rinit>>)
                     /\ v.pc = "wait" /\ v.seen = u.seen /\ v.idle = u.idle + 1 /\ ~v.junk
        BY <1>c, <2>1, CleanBetween
      <3>2. p = Rqinit /\ Tail(q) = FileFrame(t)
        BY <2>0, <2>1, Fronts
      <3>3. a \o <<Rinit>> = <<Rinit>>
        BY <2>1, Behind
      <3>4. d = Does(v, <<Rinit>>) /\ v.idle <= 1
        BY <2>1, <3>1, <3>2
      <3>5. CleanFile(xfer, t, v, Tail(q), a \o <<Rinit>>)
        BY <2>0, <2>1, <3>1, <3>2, <3>3 DEF CleanFile
      <3> QED BY <1>g, <3>1, <3>2, <3>4, <3>5, CleanSentFields
    <2>2. CASE /\ u.pc = "wait" /\ u.seen + 1 = t.f /\ q = FileFrame(t)
               /\ a = <<>> \/ (a = <<Rinit>> /\ t.stray = 0)
      <3>0. u.seen < MaxBatchFiles
        <4>1. u.seen + 1 <= MaxBatchFiles /\ MaxBatchFiles \in Nat
          BY <1>0, <2>2 DEF Limits
        <4> QED BY <1>u, <4>1
      <3>1. PICK v : /\ ReceiverItem(u, Plain("ZFILE")) = Does(v, <<>>)
                     /\ v.pc = "info" /\ v.seen = u.seen + 1 /\ v.idle = 0 /\ ~v.junk
        BY <1>c, <2>2, <3>0, CleanBetween
      <3>2. p = Plain("ZFILE") /\ Tail(q) = <<info>>
        BY <2>0, <2>2, Fronts
      <3>3. a \o <<>> = a
        BY <2>2, Behind
      <3>4. d = Does(v, <<>>) /\ v.idle <= 1
        BY <3>1, <3>2
      <3>5. CleanFile(xfer, t, v, Tail(q), a \o <<>>)
        <4>1. v.pc = "info" /\ v.seen = t.f
          BY <2>2, <3>1
        <4>2. Tail(q) = <<Subpacket(t.f, 0, "W")>>
          BY <3>2 DEF info
        <4>3. (a \o <<>> = <<>>) \/ (a \o <<>> = <<Rinit>> /\ t.stray = 0)
          BY <2>2, <3>3
        <4> QED BY <2>0, <4>1, <4>2, <4>3 DEF CleanFile
      <3>6. Clean(xfer, t, d.st, Tail(q), IF t.pc \notin Done THEN a \o d.out ELSE a)
        BY <1>g, <3>1, <3>4, <3>5
      <3>7. p.k = "ZFILE"
        BY <3>2, CleanSentFields
      <3> QED BY <3>6, <3>7
    <2>3. CASE /\ u.pc = "info" /\ u.seen = t.f /\ q = <<info>>
               /\ a = <<>> \/ (a = <<Rinit>> /\ t.stray = 0)
      <3>1. PICK v : /\ KeepsCount(u, v)
                     /\ \/ ReceiverItem(u, Subpacket(t.f, 0, "W")) = Does(v, <<Plain("ZSKIP")>>) /\ v.pc = "wait"
                        \/ /\ ReceiverItem(u, Subpacket(t.f, 0, "W")) = Does(v, <<Rpos0>>)
                           /\ v.pc = "data" /\ v.pos = 0
        BY <1>c, <2>3, CleanInfo
      <3>2. p = info /\ Tail(q) = <<>>
        BY <2>3, Fronts
      <3>3. v.seen = t.f /\ v.idle <= 1 /\ ~v.junk
        BY <1>c, <2>3, <3>1 DEF KeepsCount
      <3>4. ASSUME NEW e PROVE \/ a = <<>> /\ a \o <<e>> = <<e>>
                               \/ a = <<Rinit>> /\ a \o <<e>> = <<Rinit, e>> /\ t.stray = 0
        BY <2>3, Behind
      <3>5. CASE d = Does(v, <<Plain("ZSKIP")>>) /\ v.pc = "wait"
        <4>1. CleanFile(xfer, t, v, Tail(q), a \o <<Plain("ZSKIP")>>)
          BY <2>0, <3>2, <3>3, <3>4, <3>5 DEF CleanFile
        <4> QED BY <1>g, <2>s, <3>2, <3>3, <3>5, <4>1
      <3>6. CASE d = Does(v, <<Rpos0>>) /\ v.pc = "data" /\ v.pos = 0
        <4>1. CleanFile(xfer, t, v, Tail(q), a \o <<Rpos0>>)
          BY <2>0, <3>2, <3>3, <3>4, <3>6 DEF CleanFile
        <4> QED BY <1>g, <2>s, <3>2, <3>3, <3>6, <4>1
      <3> QED BY <3>1, <3>2, <3>5, <3>6 DEF info
    <2> QED BY <1>2, <2>1, <2>2, <2>3 DEF CleanFile, info
  <1>3. CASE CleanData(xfer, t, u, q, a)
    <2> DEFINE data == Header("ZDATA", t.f, t.pos)
               sub == DataSub(t, Mark(xfer))
    <2>0. t.pc = "data" /\ u.seen = t.f /\ u.pos = t.pos /\ a = <<>>
      BY <1>3 DEF CleanData
    <2>h. data.k = "ZDATA" /\ sub.k = "sub"
      BY CleanSentFields, SubFields DEF DataSub
    <2>1. CASE u.pc = "data" /\ q = <<data, sub>>
      <3>1. PICK v : /\ ReceiverItem(u, Header("ZDATA", t.f, u.pos)) = Does(v, <<>>)
                     /\ KeepsCount(u, v) /\ v.pc = "sub" /\ v.pos = u.pos
        BY <1>c, <2>1, CleanHeader
      <3>2. p = data /\ Tail(q) = <<sub>>
        BY <2>1, Fronts
      <3>3. a \o <<>> = <<>>
        BY <2>0, Behind
      <3>4. d = Does(v, <<>>) /\ v.idle <= 1 /\ ~v.junk /\ v.seen = t.f /\ v.pos = t.pos
        BY <1>c, <2>0, <3>1, <3>2 DEF KeepsCount
      <3>5. CleanData(xfer, t, v, Tail(q), a \o <<>>)
        BY <2>0, <3>1, <3>2, <3>3, <3>4 DEF CleanData
      <3> QED BY <1>g, <2>h, <3>2, <3>4, <3>5
    <2>2. CASE u.pc = "sub" /\ q = <<sub>>
      <3> DEFINE m == Mark(xfer)
      <3>m. m # "E" /\ (xfer.segmented => m # "Q") /\ (~xfer.segmented => m = "Q")
        BY DEF Mark
      <3> HIDE DEF m
      <3>1. PICK v : /\ KeepsCount(u, v) /\ v.pos = u.pos + 1
                     /\ v.pc = (IF m = "Q" THEN "sub" ELSE "data")
                     /\ ReceiverItem(u, Subpacket(t.f, t.pos + 1, m)) =
                          Does(v, IF m = "E" THEN <<>> ELSE <<Header("ZACK", 0, u.pos + 1)>>)
        BY <1>c, <2>2, CleanSub
      <3> DEFINE ack == Header("ZACK", 0, t.pos + 1)
      <3>2. p = sub /\ Tail(q) = <<>> /\ sub = Subpacket(t.f, t.pos + 1, m)
        BY <2>2, Fronts DEF DataSub, m
      <3>3. a \o <<ack>> = <<ack>>
        BY <2>0, Behind
      <3>4. d = Does(v, <<ack>>)
        BY <2>0, <3>1, <3>2, <3>m
      <3>5. v.idle <= 1 /\ ~v.junk /\ v.seen = t.f /\ v.pos = t.pos + 1
        BY <1>c, <2>0, <3>1 DEF KeepsCount
      <3>6. v.pc = (IF xfer.segmented THEN "data" ELSE "sub")
        BY <3>1, <3>m
      <3>7. CleanData(xfer, t, v, Tail(q), a \o <<ack>>)
        BY <2>0, <3>2, <3>3, <3>5, <3>6 DEF CleanData
      <3> QED BY <1>g, <2>h, <3>2, <3>4, <3>5, <3>7
    <2> QED BY <1>3, <2>1, <2>2 DEF CleanData
  <1>4. CASE CleanEof(xfer, t, u, q, a)
    <2> DEFINE data == Header("ZDATA", t.f, t.pos)
               sub == DataSub(t, "E")
               eof == Header("ZEOF", t.f, xfer.size)
    <2>0. t.pc = "eof" /\ u.seen = t.f /\ a = <<>>
      BY <1>4 DEF CleanEof
    <2>h. data.k = "ZDATA" /\ sub.k = "sub" /\ eof.k = "ZEOF"
      BY CleanSentFields, SubFields DEF DataSub
    <2>1. CASE u.pc = "data" /\ u.pos = t.pos /\ t.pos + 1 = xfer.size /\ q = <<data, sub, eof>>
      <3>1. PICK v : /\ ReceiverItem(u, Header("ZDATA", t.f, u.pos)) = Does(v, <<>>)
                     /\ KeepsCount(u, v) /\ v.pc = "sub" /\ v.pos = u.pos
        BY <1>c, <2>1, CleanHeader
      <3>2. p = data /\ Tail(q) = <<sub, eof>>
        BY <2>1, Fronts
      <3>3. a \o <<>> = <<>>
        BY <2>0, Behind
      <3>4. d = Does(v, <<>>) /\ v.idle <= 1 /\ ~v.junk /\ v.seen = t.f /\ v.pos = t.pos
        BY <1>c, <2>0, <2>1, <3>1, <3>2 DEF KeepsCount
      <3>5. CleanEof(xfer, t, v, Tail(q), a \o <<>>)
        BY <2>0, <2>1, <3>1, <3>2, <3>3, <3>4 DEF CleanEof
      <3> QED BY <1>g, <2>h, <3>2, <3>4, <3>5
    <2>2. CASE u.pc = "sub" /\ u.pos = t.pos /\ t.pos + 1 = xfer.size /\ q = <<sub, eof>>
      <3> DEFINE m == "E"
      <3>m. m = "E" /\ m # "Q"
        OBVIOUS
      <3> HIDE DEF m
      <3>1. PICK v : /\ KeepsCount(u, v) /\ v.pos = u.pos + 1
                     /\ v.pc = (IF m = "Q" THEN "sub" ELSE "data")
                     /\ ReceiverItem(u, Subpacket(t.f, t.pos + 1, m)) =
                          Does(v, IF m = "E" THEN <<>> ELSE <<Header("ZACK", 0, u.pos + 1)>>)
        BY <1>c, <2>2, CleanSub
      <3>2. p = sub /\ Tail(q) = <<eof>> /\ sub = Subpacket(t.f, t.pos + 1, m)
        BY <2>2, <3>m, Fronts DEF DataSub
      <3>3. a \o <<>> = <<>>
        BY <2>0, Behind
      <3>4. d = Does(v, <<>>) /\ v.pc = "data"
        BY <3>1, <3>2, <3>m
      <3>5. v.idle <= 1 /\ ~v.junk /\ v.seen = t.f /\ v.pos = xfer.size
        BY <1>c, <2>0, <2>2, <3>1 DEF KeepsCount
      <3>6. CleanEof(xfer, t, v, Tail(q), a \o <<>>)
        BY <2>0, <3>2, <3>3, <3>4, <3>5 DEF CleanEof
      <3> QED BY <1>g, <2>h, <3>2, <3>4, <3>5, <3>6
    <2>3. CASE u.pc = "data" /\ u.pos = xfer.size /\ q = <<eof>>
      <3>1. PICK v : /\ ReceiverItem(u, Header("ZEOF", t.f, u.pos)) = Does(v, <<Rinit>>)
                     /\ KeepsCount(u, v) /\ v.pc = "wait"
        BY <1>c, <2>3, CleanHeader
      <3>2. p = eof /\ Tail(q) = <<>>
        BY <2>3, Fronts
      <3>3. a \o <<Rinit>> = <<Rinit>>
        BY <2>0, Behind
      <3>4. d = Does(v, <<Rinit>>) /\ v.idle <= 1 /\ ~v.junk /\ v.seen = t.f
        BY <1>c, <2>0, <2>3, <3>1, <3>2 DEF KeepsCount
      <3>5. CleanEof(xfer, t, v, Tail(q), a \o <<Rinit>>)
        BY <2>0, <3>1, <3>2, <3>3, <3>4 DEF CleanEof
      <3> QED BY <1>g, <2>h, <3>2, <3>4, <3>5
    <2> QED BY <1>4, <2>1, <2>2, <2>3 DEF CleanEof
  <1>5. CASE CleanFin(xfer, t, u, q, a)
    <2>1. t.pc = "fin" /\ u.pc = "wait" /\ u.seen = t.f /\ q = <<Plain("ZFIN")>> /\ a = <<>>
      BY <1>5 DEF CleanFin, Done
    <2>2. u.seen > 0
      BY <1>0, <2>1
    <2>3. PICK v : ReceiverItem(u, Plain("ZFIN")) = Does(v, <<Plain("ZFIN")>>) /\ v.pc = "ok" /\ ~v.junk
      BY <1>c, <2>1, <2>2, CleanBetween
    <2>4. p = Plain("ZFIN") /\ Tail(q) = <<>>
      BY <2>1, Fronts
    <2>5. a \o <<Plain("ZFIN")>> = <<Plain("ZFIN")>>
      BY <2>1, Behind
    <2>6. d.st = v /\ d.out = <<Plain("ZFIN")>>
      BY <2>3, <2>4 DEF Does
    <2>7. CleanFin(xfer, t, v, <<>>, <<Plain("ZFIN")>>)
      BY <2>1, <2>3 DEF CleanFin
    <2>8. Clean(xfer, t, v, <<>>, <<Plain("ZFIN")>>)
      <3>1. v.pc \in Done /\ t.pc \notin {"init", "file", "data"}
        BY <2>1, <2>3 DEF Done
      <3> QED BY <2>3, <2>7, <3>1 DEF Clean
    <2>9. a \o d.out = <<Plain("ZFIN")>>
      BY <2>5, <2>6
    <2>10. Clean(xfer, t, d.st, Tail(q), a \o d.out)
      BY <2>4, <2>6, <2>8, <2>9
    <2>11. p.k = "ZFIN"
      BY <2>4, CleanSentFields
    <2> QED BY <1>l, <2>10, <2>11
  <1> QED BY <1>1, <1>2, <1>3, <1>4, <1>5 DEF Clean

-----------------------------------------------------------------------------
(* A clean line stays clean until a fault.                                   *)

\* No wait runs out: whichever half waits, something is on its way to it, or to the other.
LEMMA CleanIsBusy ==
  ASSUME NEW x, NEW t, NEW u, NEW q, NEW a, Clean(x, t, u, q, a)
  PROVE  /\ t.pc \notin Done /\ a = <<>> => u.pc \notin Done /\ q # <<>>
         /\ u.pc \notin Done /\ q = <<>> => t.pc \notin Done /\ a # <<>>
         /\ t.pc # "err" /\ u.pc # "err"
  <1>1. ASSUME CleanStart(x, t, u, q, a)
        PROVE  t.pc = "init" /\ u.pc = "wait" /\ a # <<>>
    <2>1. <<Rinit>> # <<>> /\ <<Rinit, Rinit>> # <<>>
      BY Fronts
    <2> QED BY <1>1, <2>1 DEF CleanStart
  <1>2. ASSUME CleanFile(x, t, u, q, a)
        PROVE  t.pc = "file" /\ u.pc \in {"wait", "info", "data"} /\ ~(a = <<>> /\ q = <<>>)
    BY <1>2, Fronts DEF CleanFile, FileFrame
  <1>3. ASSUME CleanData(x, t, u, q, a)
        PROVE  t.pc = "data" /\ u.pc \in {"data", "sub"} /\ ~(a = <<>> /\ q = <<>>)
    <2> DEFINE sub == DataSub(t, Mark(x))
    <2>1. /\ <<Header("ZDATA", t.f, t.pos), sub>> # <<>> /\ <<sub>> # <<>>
          /\ <<Header("ZACK", 0, t.pos + 1)>> # <<>>
      BY Fronts
    <2> QED BY <1>3, <2>1 DEF CleanData
  <1>4. ASSUME CleanEof(x, t, u, q, a)
        PROVE  t.pc = "eof" /\ u.pc \in {"data", "sub", "wait"} /\ ~(a = <<>> /\ q = <<>>)
    BY <1>4, Fronts DEF CleanEof
  <1>5. ASSUME CleanFin(x, t, u, q, a)
        PROVE  \/ t.pc = "fin" /\ u.pc = "wait" /\ q # <<>>
               \/ t.pc = "fin" /\ u.pc = "ok" /\ a # <<>>
               \/ t.pc = "ok" /\ u.pc = "ok"
    BY <1>5, Fronts DEF CleanFin
  <1> QED BY <1>1, <1>2, <1>3, <1>4, <1>5 DEF Clean, Done

LEMMA CleanInit ==
  ASSUME Init
  PROVE  CleanInv
  <1>1. /\ s.pc = "init" /\ s.f = 1 /\ s.eofs = 0
        /\ r.pc = "wait" /\ r.seen = 0 /\ r.idle = 0 /\ ~r.junk
        /\ toR = <<Rqinit>> /\ toS = <<Rinit>> /\ up /\ faults = 0
    BY DEF Init, SenderInit, ReceiverInit, Rqinit, Rinit
  <1>2. CleanStart(xfer, s, r, toR, toS)
    BY <1>1 DEF CleanStart
  <1> QED BY <1>1, <1>2 DEF CleanInv, Clean

LEMMA CleanSenderReads ==
  ASSUME Inv, up, Clean(xfer, s, r, toR, toS), SenderRead
  PROVE  up' /\ Clean(xfer', s', r', toR', toS')
  <1> DEFINE p == Head(toS)
             d == SenderHeader(s, p)
  <1>1. /\ s.pc \notin Done /\ toS # <<>> /\ toS' = Tail(toS)
        /\ xfer' = xfer /\ r' = r /\ up' = up
        /\ \/ p.k = "CAN"
           \/ p.k = "ESC"
           \/ p.k \notin {"CAN", "ESC"} /\ p.ok /\ SenderDoes(d)
           \/ p.k \notin {"CAN", "ESC"} /\ ~p.ok
    BY DEF SenderRead
  <1> HIDE DEF p
  <1> DEFINE z == IF r.pc \notin Done THEN toR \o d.out ELSE toR
  <1>2. p.k \notin {"CAN", "ESC"} /\ p.ok /\ Clean(xfer, d.st, r, z, Tail(toS))
    BY <1>1, InvHolds, CleanSender DEF p
  <1>3. SenderDoes(d)
    BY <1>1, <1>2
  <1>4. s' = d.st /\ toR' = z
    BY <1>3 DEF SenderDoes, WriteToR
  <1> HIDE DEF d, z
  <1> QED BY <1>1, <1>2, <1>4

LEMMA CleanReceiverReads ==
  ASSUME Inv, up, Clean(xfer, s, r, toR, toS), xfer.files <= MaxBatchFiles, ReceiverRead
  PROVE  up' /\ Clean(xfer', s', r', toR', toS')
  <1> DEFINE p == Head(toR)
             d == ReceiverItem(r, p)
  <1>1. /\ r.pc \notin Done /\ toR # <<>> /\ toR' = Tail(toR)
        /\ xfer' = xfer /\ s' = s /\ up' = up
        /\ \/ p.k = "CAN"
           \/ p.k = "ESC"
           \/ p.k \notin {"CAN", "ESC"} /\ ReceiverDoes(d)
    BY DEF ReceiverRead
  <1> HIDE DEF p
  <1> DEFINE z == IF s.pc \notin Done THEN toS \o d.out ELSE toS
  <1>r. r \in ReceiverState
    BY InvHolds DEF ReceiverTyped, ReceiverBase
  <1>2. p.k \notin {"CAN", "ESC"} /\ Clean(xfer, s, d.st, Tail(toR), z)
    BY <1>1, <1>r, InvHolds, CleanReceiver DEF p
  <1>3. ReceiverDoes(d)
    BY <1>1, <1>2
  <1>4. r' = d.st /\ toS' = z
    BY <1>3 DEF ReceiverDoes, WriteToS
  <1> HIDE DEF d, z
  <1> QED BY <1>1, <1>2, <1>4

LEMMA CleanNext ==
  ASSUME Inv, CleanInv, [Next]_vars
  PROVE  CleanInv'
  <1>f. faults \in Nat
    BY DEF CleanInv
  <1>1. CASE ZmodemLine \/ SenderTimeoutLate \/ ReceiverTimeoutLate
    <2>1. faults' = faults + 1
      BY <1>1 DEF ZmodemLine, LineFault, LoseToR, LoseToS, DamageToR, DamageToS, CancelS, CancelR,
                  HangUp, SenderTimeoutLate, ReceiverTimeoutLate, Fault
    <2>2. faults' \in Nat /\ faults' # 0
      BY <1>f, <2>1
    <2> QED BY <2>2 DEF CleanInv
  <1>2. CASE UNCHANGED vars
    BY <1>2 DEF CleanInv, vars
  <1>3. CASE Progress
    <2>1. faults' = faults /\ xfer' = xfer
      BY <1>3 DEF Progress, Timeout, SenderRead, ReceiverRead, SenderTimeout, ReceiverTimeout,
                  BothTimeout, SenderLineDown, ReceiverLineDown
    <2> SUFFICES ASSUME faults = 0, xfer.files <= MaxBatchFiles
                 PROVE  up' /\ Clean(xfer', s', r', toR', toS')
      BY <1>f, <2>1 DEF CleanInv
    <2>2. up /\ Clean(xfer, s, r, toR, toS)
      BY DEF CleanInv
    <2>3. ~SenderTimeout /\ ~BothTimeout
      <3>1. s.pc \notin Done /\ toS = <<>> => r.pc \notin Done /\ toR # <<>>
        BY <2>2, CleanIsBusy
      <3> QED BY <3>1 DEF SenderTimeout, BothTimeout, SenderQuiet, RIdle, SenderSilence
    <2>4. ~ReceiverTimeout
      <3>1. r.pc \notin Done /\ toR = <<>> => s.pc \notin Done /\ toS # <<>>
        BY <2>2, CleanIsBusy
      <3> QED BY <3>1 DEF ReceiverTimeout, ReceiverQuiet, SIdle, ReceiverSilence
    <2>5. ~SenderLineDown /\ ~ReceiverLineDown
      BY <2>2 DEF SenderLineDown, ReceiverLineDown
    <2>6. SenderRead \/ ReceiverRead
      BY <1>3, <2>3, <2>4, <2>5 DEF Progress, Timeout
    <2> QED BY <2>2, <2>6, CleanSenderReads, CleanReceiverReads
  <1> QED BY <1>1, <1>2, <1>3 DEF Next, Terminated

\* Without a fault of the line, and with no more files than MAX_BATCH_FILES, neither half
\* gives up: no wait of the code runs out, no retry is counted and no limit is met
\* (zmodem_send, receive_into).
THEOREM CleanLineSucceedsHolds == Spec => []CleanLineSucceeds
  <1>1. Init => CleanInv
    BY CleanInit
  <1>2. Inv /\ CleanInv /\ [Next]_vars => CleanInv'
    BY CleanNext
  <1>3. CleanInv => CleanLineSucceeds
    BY CleanIsBusy DEF CleanInv, CleanLineSucceeds
  <1> QED BY <1>1, <1>2, <1>3, Invariance, PTL DEF Spec

\* All that TLC checks of the states of a batch, when no file of it is turned down: nothing
\* lands out of place, what is listed is whole, a successful send is a complete one, and a
\* clean line lets both halves succeed, for every batch, every limit and any number of
\* faults (zmodem_send, receive_into).
THEOREM TransferSoundHolds == Spec => [](TakesAll => TransferSound)
  <1>1. /\ TypeOK /\ CleanLineSucceeds
        /\ TakesAll => PrefixReceived /\ ReceivedIsWhole /\ SenderSuccessIsWhole
        => (TakesAll => TransferSound)
    BY DEF TransferSound
  <1>2. Inv => (TakesAll => PrefixReceived /\ ReceivedIsWhole /\ SenderSuccessIsWhole)
    BY Arrived
  <1> QED BY <1>1, <1>2, Invariance, TypeOKHolds, CleanLineSucceedsHolds, PTL
=============================================================================
