--------------------------- MODULE PeerCallProofs ---------------------------
(***************************************************************************)
(* Proofs that a call of module PeerCall is in one place at a time, that no   *)
(* caller leaves one behind and that nobody is connected who was not         *)
(* answered, for any number of ports, guests and ring sessions.             *)
(***************************************************************************)
EXTENDS PeerCall, SequenceTheorems, TLAPS

Diallers == Ports \cup Guests

\* Port p has taken a call and not answered it yet.
Rings(p) == pc[p] \in {"ringing", "answering"}

\* An answer is under way in channel s.
Told(s) == \E i \in 1..Len(s) : s[i] = Answered

\* Whose calls are where: a waiting peer call is a dialler's, a waiting ring that
\* of a session which rings this port and still waits; a caller's current call
\* is its own, and the one a port rings for is not.
OwnerInv ==
  /\ \A p \in Ports : slot[p] # NoCall => Caller(slot[p]) \in Diallers
  /\ \A p \in Ports : ring[p] # NoCall =>
       Caller(ring[p]) \in Ringers /\ RingAt[Caller(ring[p])] = p /\ ReceiverAlive(ring[p])
  /\ \A x \in Parties : pc[x] = "calling" => cur[x] \in Calls /\ Caller(cur[x]) = x
  /\ \A p \in Ports : Rings(p) => cur[p] \in Calls /\ Caller(cur[p]) # p

\* Nobody but its caller has a call that still waits, and no port has parked it.
WaitInv ==
  /\ \A p \in Ports, x \in Parties :
       /\ slot[p] # NoCall /\ cur[x] = slot[p] => x = Caller(slot[p])
       /\ ring[p] # NoCall /\ cur[x] = ring[p] => x = Caller(ring[p])
  /\ \A p, q \in Ports :
       /\ slot[p] # NoCall => held[q] # slot[p]
       /\ ring[p] # NoCall => held[q] # ring[p]

\* A call is in one place: waiting in one slot, or with one port that took it,
\* and a call taken is in no slot and parked at no port.
HeldOnce ==
  /\ \A p, q \in Ports : slot[p] # NoCall /\ slot[p] = slot[q] => p = q
  /\ \A p, q \in Ports : Rings(p) => cur[p] \notin {slot[q], ring[q], held[q]}
  /\ \A p, q \in Ports :
       Rings(p) /\ cur[q] = cur[p] => q = p \/ (q = Caller(cur[p]) /\ pc[q] = "calling")

\* The call c waits in no slot and rings at no port.
Settled(c) == \A p \in Ports : slot[p] # c /\ ~(Rings(p) /\ cur[p] = c)

\* The call of a dialler to whom an answer is under way is settled, and so is
\* that of one who is connected by a call of its own.
AnswerInv ==
  \A x \in Diallers : pc[x] = "calling" /\ Told(progress[x]) => Settled(cur[x])
ConnInv ==
  /\ \A x \in Diallers :
       pc[x] = "online" /\ cur[x] \in Calls /\ Caller(cur[x]) = x => Settled(cur[x])
  /\ \A x \in Ports : held[x] \in Calls /\ Caller(held[x]) = x => Settled(held[x])

\* TypeOK in two parts: the parties and the slots, a call being parked only while its
\* port is at the prompt...
PartiesTyped ==
  /\ slot \in [Ports -> Calls \cup {NoCall}]
  /\ ring \in [Ports -> Calls \cup {NoCall}]
  /\ pc \in [Parties -> {"idle", "calling", "ringing", "answering", "online"}]
  /\ cur \in [Parties -> Calls \cup {NoCall, Menu}]
  /\ held \in [Ports -> Calls \cup {NoCall, Menu}]
  /\ \A p \in Ports : held[p] # NoCall => pc[p] = "idle"
  /\ \A x \in Parties : pc[x] = "idle" <=> cur[x] = NoCall
  /\ \A x \in Parties \ Ports : pc[x] \in {"idle", "calling", "online"}
  /\ s1 \in [Ports -> 0..RingCap]

\* ...and the channels.
Bytes == {Rang, Answered, PortError}
ChannelsTyped ==
  /\ progress \in [Parties -> Seq(Bytes)]
  /\ \A x \in Parties : Len(progress[x]) <= ChanCap

Typed == PartiesTyped /\ ChannelsTyped

\* The inductive invariant.
Inv == Typed /\ OwnerInv /\ WaitInv /\ AnswerInv /\ ConnInv /\ NoStaleCall /\ HeldOnce

-----------------------------------------------------------------------------
(* Calls, fresh calls and channels.                                         *)

\* A call names its caller and is neither an empty slot nor the menu.
LEMMA CallFacts ==
  ASSUME NEW c \in Calls
  PROVE  Caller(c) \in Parties /\ c # NoCall /\ c # Menu
BY PeerAssumption DEF Calls, Caller

\* A fresh call of x is x's, and nobody has it yet.
LEMMA FreshFacts ==
  ASSUME NEW x \in Parties, NEW c \in Fresh(x)
  PROVE  /\ c \in Calls /\ Caller(c) = x
         /\ \A t \in Ports : slot[t] # c /\ ring[t] # c /\ held[t] # c
         /\ \A y \in Parties : cur[y] # c
BY DEF Fresh, Calls, Caller

\* A byte put in a channel with room is there, and those before it stay.
LEMMA AppendFacts ==
  ASSUME NEW s \in Seq(Bytes), NEW e \in Bytes, Len(s) < ChanCap
  PROVE  /\ Append(s, e) \in Seq(Bytes) /\ Len(Append(s, e)) <= ChanCap
         /\ Told(Append(s, e)) <=> Told(s) \/ e = Answered
BY PeerAssumption DEF Told

\* A byte read from a channel was in it, and the rest were too.
LEMMA TailFacts ==
  ASSUME NEW s \in Seq(Bytes), s # <<>>
  PROVE  /\ Tail(s) \in Seq(Bytes) /\ Len(Tail(s)) <= Len(s)
         /\ Head(s) = Answered => Told(s)
         /\ Told(Tail(s)) => Told(s)
<1>1. Len(s) \in Nat /\ Len(s) > 0 /\ Head(s) = s[1]
  BY EmptySeq
<1>2. Tail(s) \in Seq(Bytes) /\ Len(Tail(s)) = Len(s) - 1
  BY HeadTailProperties
<1>3. \A i \in 1..Len(Tail(s)) : Tail(s)[i] = s[i + 1]
  BY <1>1, <1>2, HeadTailProperties
<1> QED
  BY <1>1, <1>2, <1>3 DEF Told

\* A new channel is empty.
LEMMA EmptyFacts == <<>> \in Seq(Bytes) /\ Len(<<>>) = 0 /\ ~Told(<<>>)
BY DEF Told

\* A byte sent to a caller that waits goes to its channel and to no other.
LEMMA SendFacts ==
  ASSUME Typed, OwnerInv, NEW p \in Ports, Rings(p), CanSend(p), NEW b \in Bytes, Send(p, b)
  PROVE  /\ ChannelsTyped'
         /\ Caller(cur[p]) \in Parties
         /\ \A x \in Parties : x # Caller(cur[p]) => progress'[x] = progress[x]
         /\ Told(progress'[Caller(cur[p])]) <=> Told(progress[Caller(cur[p])]) \/ b = Answered
<1> DEFINE k == Caller(cur[p])
<1>1. k \in Parties
  BY CallFacts DEF OwnerInv
<1>2. progress[k] \in Seq(Bytes) /\ Len(progress[k]) < ChanCap
  BY <1>1 DEF Typed, ChannelsTyped, CanSend
<1>3. progress' = [progress EXCEPT ![k] = Append(progress[k], b)]
  BY DEF Send
<1>4. /\ Append(progress[k], b) \in Seq(Bytes) /\ Len(Append(progress[k], b)) <= ChanCap
      /\ Told(Append(progress[k], b)) <=> Told(progress[k]) \/ b = Answered
  BY <1>2, AppendFacts
<1>5. \A x \in Parties : progress'[x] = IF x = k THEN Append(progress[k], b) ELSE progress[x]
  BY <1>1, <1>3 DEF Typed, ChannelsTyped
<1>6. progress' \in [Parties -> Seq(Bytes)]
  BY <1>1, <1>3, <1>4 DEF Typed, ChannelsTyped
<1> QED
  BY <1>1, <1>4, <1>5, <1>6 DEF ChannelsTyped, Typed

\* A byte heard leaves its caller's channel and no other.
LEMMA HearsFacts ==
  ASSUME Typed, NEW x \in Parties, NEW b, Hears(x, b)
  PROVE  /\ ChannelsTyped'
         /\ pc[x] = "calling" /\ (b = Answered => Told(progress[x]))
         /\ \A y \in Parties : y # x => progress'[y] = progress[y]
         /\ Told(progress'[x]) => Told(progress[x])
<1>1. progress[x] \in Seq(Bytes) /\ Len(progress[x]) <= ChanCap /\ progress[x] # <<>>
  BY DEF Typed, ChannelsTyped, Hears
<1>2. /\ Tail(progress[x]) \in Seq(Bytes) /\ Len(Tail(progress[x])) <= Len(progress[x])
      /\ b = Answered => Told(progress[x])
      /\ Told(Tail(progress[x])) => Told(progress[x])
  BY <1>1, TailFacts DEF Hears
<1>3. progress' = [progress EXCEPT ![x] = Tail(progress[x])]
  BY DEF Hears
<1>4. \A y \in Parties : progress'[y] = IF y = x THEN Tail(progress[x]) ELSE progress[y]
  BY <1>3 DEF Typed, ChannelsTyped
<1>5. progress' \in [Parties -> Seq(Bytes)]
  BY <1>2, <1>3 DEF Typed, ChannelsTyped
<1>6. Len(Tail(progress[x])) <= ChanCap
  BY <1>1, <1>2, EmptySeq, LenProperties, PeerAssumption
<1> QED
  BY <1>2, <1>4, <1>5, <1>6 DEF ChannelsTyped, Typed, Hears

\* A channel emptied is empty, and the others stay.
LEMMA ClearFacts ==
  ASSUME Typed, NEW x \in Parties, progress' = [progress EXCEPT ![x] = <<>>]
  PROVE  /\ ChannelsTyped'
         /\ \A y \in Parties : y # x => progress'[y] = progress[y]
         /\ ~Told(progress'[x])
BY EmptyFacts, PeerAssumption DEF ChannelsTyped, Typed

\* Channels nobody touches stay as they are.
LEMMA KeepFacts ==
  ASSUME Typed, UNCHANGED progress
  PROVE  ChannelsTyped' /\ \A x \in Parties : progress'[x] = progress[x]
BY DEF ChannelsTyped, Typed

\* The two parts are the types of the module.
LEMMA TypedIsTypeOK == Typed => TypeOK
BY DEF Typed, PartiesTyped, ChannelsTyped, TypeOK, Bytes

\* Ports and diallers are parties, and no ring session is either.
LEMMA PartyFacts ==
  /\ Ports \subseteq Parties /\ Guests \subseteq Parties /\ Ringers \subseteq Parties
  /\ Diallers \subseteq Parties /\ Ports \subseteq Diallers
  /\ Diallers \cap Ringers = {} /\ Parties = Diallers \cup Ringers
  /\ RingAt \in [Ringers -> Ports] /\ NoCall # Menu
BY PeerAssumption DEF Parties, Diallers

\* A dial finds the slot taken...
DialRefused(x, t) == SlotTaken(t) /\ UNCHANGED <<slot, pc, cur, progress>>

\* ...or puts a fresh call in it.
DialPlaced(x, t, c) ==
  /\ slot[t] = NoCall
  /\ slot' = [slot EXCEPT ![t] = c]
  /\ pc' = [pc EXCEPT ![x] = "calling"]
  /\ cur' = [cur EXCEPT ![x] = c]
  /\ progress' = [progress EXCEPT ![x] = <<>>]

\* A dial does one of the two.
LEMMA DialCases ==
  ASSUME NEW x, NEW t, Dial(x, t)
  PROVE  DialRefused(x, t) \/ \E c \in Fresh(x) : DialPlaced(x, t, c)
BY DEF Dial, DialRefused, DialPlaced, SlotTaken

\* Every step keeps the types.
LEMMA StepTyped ==
  ASSUME Typed, OwnerInv, Next
  PROVE  Typed'
<1> USE PartyFacts, CallFacts DEF RingCap
<1>0. PartiesTyped
  BY DEF Typed
<1>1. ASSUME NEW x \in Parties, NEW t \in Ports, Dial(x, t) PROVE Typed'
  <2>1. CASE DialRefused(x, t)
    BY <1>0, <1>1, <2>1, KeepFacts DEF Typed, Dial, DialRefused, PartiesTyped, HangUp
  <2>2. ASSUME NEW c \in Fresh(x), DialPlaced(x, t, c) PROVE Typed'
    <3>1. c \in Calls /\ c # NoCall
      BY FreshFacts
    <3> QED
      BY <1>0, <1>1, <2>2, <3>1, ClearFacts DEF Typed, Dial, DialPlaced, PartiesTyped, HangUp
  <2> QED
    BY <1>1, <2>1, <2>2, DialCases
<1>2. ASSUME NEW x \in Parties, HearRing(x) PROVE Typed'
  <2>1. ChannelsTyped'
    BY <1>2, HearsFacts DEF HearRing
  <2>2. PartiesTyped'
    BY <1>0, <1>2 DEF HearRing, PartiesTyped, Hears
  <2> QED
    BY <2>1, <2>2 DEF Typed
<1>3. ASSUME NEW x \in Parties, HearAnswer(x) PROVE Typed'
  <2>1. ChannelsTyped'
    BY <1>3, HearsFacts DEF HearAnswer
  <2>2. PartiesTyped'
    BY <1>0, <1>3 DEF HearAnswer, PartiesTyped, Hears
  <2> QED
    BY <2>1, <2>2 DEF Typed
<1>4. ASSUME NEW x \in Parties, HearFailure(x) PROVE Typed'
  <2>1. ChannelsTyped'
    BY <1>4, HearsFacts, KeepFacts DEF HearFailure
  <2>2. PartiesTyped'
    BY <1>0, <1>4 DEF HearFailure, PartiesTyped, BackToIdle, Reclaim
  <2> QED
    BY <2>1, <2>2 DEF Typed
<1>5. ASSUME NEW x \in Parties, GiveUp(x) PROVE Typed'
  <2>1. ChannelsTyped'
    BY <1>5, ClearFacts DEF GiveUp
  <2>2. PartiesTyped'
    BY <1>0, <1>5 DEF GiveUp, PartiesTyped, BackToIdle, Reclaim
  <2> QED
    BY <2>1, <2>2 DEF Typed
<1>6. ASSUME NEW x \in Parties, RequestRing(x) PROVE Typed'
  <2>1. PICK c \in Fresh(x) :
          ring' = [ring EXCEPT ![RingAt[x]] = c] /\ cur' = [cur EXCEPT ![x] = c]
    BY <1>6 DEF RequestRing
  <2>2. c \in Calls /\ c # NoCall
    BY FreshFacts
  <2>3. ChannelsTyped'
    BY <1>6, ClearFacts DEF RequestRing
  <2>4. x \in Ringers /\ x \notin Ports /\ RingAt[x] \in Ports
    BY <1>6 DEF RequestRing
  <2>5. PartiesTyped'
    BY <1>0, <1>6, <2>1, <2>2, <2>4 DEF RequestRing, PartiesTyped
  <2> QED
    BY <2>3, <2>5 DEF Typed
<1>7. ASSUME NEW x \in Parties, EndRing(x) PROVE Typed'
  <2>1. ChannelsTyped'
    BY <1>7, ClearFacts DEF EndRing
  <2>2. PartiesTyped'
    BY <1>0, <1>7 DEF EndRing, PartiesTyped, BackToIdle, CancelRing
  <2> QED
    BY <2>1, <2>2 DEF Typed
<1>8. ASSUME NEW x \in Parties, EndOnline(x) PROVE Typed'
  <2>1. ChannelsTyped'
    BY <1>8, KeepFacts DEF EndOnline
  <2>2. PartiesTyped'
    BY <1>0, <1>8 DEF EndOnline, PartiesTyped, BackToIdle
  <2> QED
    BY <2>1, <2>2 DEF Typed
<1>9. ASSUME NEW p \in Ports, TakeRing(p) PROVE Typed'
  <2>1. ChannelsTyped'
    BY <1>9, KeepFacts DEF TakeRing, StartRinging
  <2>2. PartiesTyped'
    BY <1>0, <1>9 DEF TakeRing, PartiesTyped, StartRinging, LineFree
  <2> QED
    BY <2>1, <2>2 DEF Typed
<1>10. ASSUME NEW p \in Ports, TakePeerCall(p) PROVE Typed'
  <2>1. ChannelsTyped'
    BY <1>10, KeepFacts DEF TakePeerCall, StartRinging
  <2>2. PartiesTyped'
    BY <1>0, <1>10 DEF TakePeerCall, PartiesTyped, StartRinging, LineFree
  <2> QED
    BY <2>1, <2>2 DEF Typed
<1>11. ASSUME NEW p \in Ports, RingOnce(p) PROVE Typed'
  <2>1. ChannelsTyped'
    <3>1. Rings(p) /\ Rang \in Bytes
      BY <1>11 DEF RingOnce, Rings, Bytes
    <3> QED
      BY <1>11, <3>1, SendFacts, KeepFacts DEF RingOnce
  <2>2. PartiesTyped'
    BY <1>0, <1>11 DEF RingOnce, PartiesTyped, BackToIdle
  <2> QED
    BY <2>1, <2>2 DEF Typed
<1>12. ASSUME NEW p \in Ports, RingFails(p) PROVE Typed'
  <2>1. ChannelsTyped'
    <3>1. Rings(p) /\ PortError \in Bytes
      BY <1>12 DEF RingFails, Rings, Bytes
    <3> QED
      BY <1>12, <3>1, SendFacts, KeepFacts DEF RingFails
  <2>2. PartiesTyped'
    BY <1>0, <1>12 DEF RingFails, PartiesTyped, BackToIdle
  <2> QED
    BY <2>1, <2>2 DEF Typed
<1>13. ASSUME NEW p \in Ports, AnswerByHand(p) PROVE Typed'
  <2>1. ChannelsTyped'
    BY <1>13, KeepFacts DEF AnswerByHand
  <2>2. PartiesTyped'
    BY <1>0, <1>13 DEF AnswerByHand, PartiesTyped
  <2> QED
    BY <2>1, <2>2 DEF Typed
<1>14. ASSUME NEW p \in Ports, AnswerPeer(p) PROVE Typed'
  <2>1. ChannelsTyped'
    <3>1. Rings(p) /\ Answered \in Bytes
      BY <1>14 DEF AnswerPeer, Rings, Bytes
    <3> QED
      BY <1>14, <3>1, SendFacts, KeepFacts DEF AnswerPeer
  <2>2. PartiesTyped'
    BY <1>0, <1>14 DEF AnswerPeer, PartiesTyped, BackToIdle
  <2> QED
    BY <2>1, <2>2 DEF Typed
<1>15. ASSUME NEW p \in Ports, AnswerRing(p) PROVE Typed'
  <2>1. ChannelsTyped'
    <3>1. Rings(p) /\ Answered \in Bytes
      BY <1>15 DEF AnswerRing, Rings, Bytes
    <3> QED
      BY <1>15, <3>1, SendFacts, KeepFacts DEF AnswerRing
  <2>2. PartiesTyped'
    BY <1>0, <1>15 DEF AnswerRing, PartiesTyped, BackToIdle
  <2> QED
    BY <2>1, <2>2 DEF Typed
<1>16. ASSUME NEW p \in Ports, Escape(p) PROVE Typed'
  <2>1. ChannelsTyped'
    BY <1>16, KeepFacts DEF Escape, BackToIdle
  <2>2. PartiesTyped'
    BY <1>0, <1>16 DEF Escape, PartiesTyped, BackToIdle
  <2> QED
    BY <2>1, <2>2 DEF Typed
<1>17. ASSUME NEW p \in Ports, ReturnOnline(p) PROVE Typed'
  <2>1. ChannelsTyped'
    BY <1>17, KeepFacts DEF ReturnOnline, HangUp
  <2>2. PartiesTyped'
    BY <1>0, <1>17 DEF ReturnOnline, PartiesTyped, HangUp
  <2> QED
    BY <2>1, <2>2 DEF Typed
<1>18. ASSUME NEW p \in Ports, HangUpParked(p) PROVE Typed'
  <2>1. ChannelsTyped'
    BY <1>18, KeepFacts DEF HangUpParked
  <2>2. PartiesTyped'
    BY <1>0, <1>18 DEF HangUpParked, PartiesTyped, HangUp
  <2> QED
    BY <2>1, <2>2 DEF Typed
<1>19. ASSUME NEW p \in Ports, Restart(p) PROVE Typed'
  <2>1. ChannelsTyped'
    BY <1>19, ClearFacts, KeepFacts DEF Restart
  <2>2. PartiesTyped'
    BY <1>0, <1>19 DEF Restart, PartiesTyped, BackToIdle, Reclaim, HangUp
  <2> QED
    BY <2>1, <2>2 DEF Typed
<1> QED
  BY <1>1, <1>2, <1>3, <1>4, <1>5, <1>6, <1>7, <1>8, <1>9, <1>10, <1>11,
     <1>12, <1>13, <1>14, <1>15, <1>16, <1>17, <1>18, <1>19
     DEF Next, CallerStep, PortStep

\* Every call stays with its caller, and a ring waits where its session rings.
LEMMA StepOwner ==
  ASSUME Typed, OwnerInv, NoStaleCall, WaitInv, Next
  PROVE  OwnerInv'
<1> USE PartyFacts, CallFacts
       DEF PartiesTyped, Typed, OwnerInv, NoStaleCall, ReceiverAlive, Rings, WaitInv
<1>1. ASSUME NEW x \in Parties, NEW t \in Ports, Dial(x, t) PROVE OwnerInv'
  <2>1. CASE DialRefused(x, t)
    BY <1>1, <2>1 DEF Dial, DialRefused, HangUp
  <2>2. ASSUME NEW c \in Fresh(x), DialPlaced(x, t, c) PROVE OwnerInv'
    <3>1. /\ c \in Calls /\ Caller(c) = x /\ c # NoCall
          /\ \A u \in Ports : slot[u] # c /\ ring[u] # c /\ held[u] # c
          /\ \A y \in Parties : cur[y] # c
      BY FreshFacts
    <3>2. x \in Diallers
      BY <1>1 DEF Dial, Diallers
    <3>3. \A u \in Ports : slot'[u] # NoCall => Caller(slot'[u]) \in Diallers
      BY <1>1, <2>2, <3>1, <3>2 DEF Dial, DialPlaced, HangUp
    <3>4. \A u \in Ports : ring'[u] # NoCall =>
          Caller(ring'[u]) \in Ringers /\ RingAt[Caller(ring'[u])] = u /\ ReceiverAlive(ring[u])'
      BY <1>1, <2>2, <3>1, <3>2 DEF Dial, DialPlaced, HangUp
    <3>5. \A y \in Parties : pc'[y] = "calling" => cur'[y] \in Calls /\ Caller(cur'[y]) = y
      BY <1>1, <2>2, <3>1, <3>2 DEF Dial, DialPlaced, HangUp
    <3>6. \A u \in Ports : Rings(u)' => cur'[u] \in Calls /\ Caller(cur'[u]) # u
      BY <1>1, <2>2, <3>1, <3>2 DEF Dial, DialPlaced, HangUp
    <3> QED
      BY <3>3, <3>4, <3>5, <3>6
  <2> QED
    BY <1>1, <2>1, <2>2, DialCases
<1>2. ASSUME NEW x \in Parties, HearRing(x) PROVE OwnerInv'
  BY <1>2 DEF HearRing, Hears
<1>3. ASSUME NEW x \in Parties, HearAnswer(x) PROVE OwnerInv'
  <2>1. x \in Diallers
    BY <1>3 DEF HearAnswer, Diallers
  <2>2. \A u \in Ports : slot'[u] # NoCall => Caller(slot'[u]) \in Diallers
    BY <1>3, <2>1 DEF HearAnswer, Hears
  <2>3. \A u \in Ports : ring'[u] # NoCall =>
          Caller(ring'[u]) \in Ringers /\ RingAt[Caller(ring'[u])] = u /\ ReceiverAlive(ring[u])'
    BY <1>3, <2>1 DEF HearAnswer, Hears
  <2>4. \A y \in Parties : pc'[y] = "calling" => cur'[y] \in Calls /\ Caller(cur'[y]) = y
    BY <1>3, <2>1 DEF HearAnswer, Hears
  <2>5. \A u \in Ports : Rings(u)' => cur'[u] \in Calls /\ Caller(cur'[u]) # u
    BY <1>3, <2>1 DEF HearAnswer, Hears
  <2> QED
    BY <2>2, <2>3, <2>4, <2>5
<1>4. ASSUME NEW x \in Parties, HearFailure(x) PROVE OwnerInv'
  <2>1. x \in Diallers
    BY <1>4 DEF HearFailure, Diallers
  <2>2. \A u \in Ports : slot'[u] # NoCall => Caller(slot'[u]) \in Diallers
    BY <1>4, <2>1 DEF HearFailure, Hears, Reclaim, BackToIdle
  <2>3. \A u \in Ports : ring'[u] # NoCall =>
          Caller(ring'[u]) \in Ringers /\ RingAt[Caller(ring'[u])] = u /\ ReceiverAlive(ring[u])'
    BY <1>4, <2>1 DEF HearFailure, Hears, Reclaim, BackToIdle
  <2>4. \A y \in Parties : pc'[y] = "calling" => cur'[y] \in Calls /\ Caller(cur'[y]) = y
    BY <1>4, <2>1 DEF HearFailure, Hears, Reclaim, BackToIdle
  <2>5. \A u \in Ports : Rings(u)' => cur'[u] \in Calls /\ Caller(cur'[u]) # u
    BY <1>4, <2>1 DEF HearFailure, Hears, Reclaim, BackToIdle
  <2> QED
    BY <2>2, <2>3, <2>4, <2>5
<1>5. ASSUME NEW x \in Parties, GiveUp(x) PROVE OwnerInv'
  <2>1. x \in Diallers
    BY <1>5 DEF GiveUp, Diallers
  <2>2. \A u \in Ports : slot'[u] # NoCall => Caller(slot'[u]) \in Diallers
    BY <1>5, <2>1 DEF GiveUp, Reclaim, BackToIdle
  <2>3. \A u \in Ports : ring'[u] # NoCall =>
          Caller(ring'[u]) \in Ringers /\ RingAt[Caller(ring'[u])] = u /\ ReceiverAlive(ring[u])'
    BY <1>5, <2>1 DEF GiveUp, Reclaim, BackToIdle
  <2>4. \A y \in Parties : pc'[y] = "calling" => cur'[y] \in Calls /\ Caller(cur'[y]) = y
    BY <1>5, <2>1 DEF GiveUp, Reclaim, BackToIdle
  <2>5. \A u \in Ports : Rings(u)' => cur'[u] \in Calls /\ Caller(cur'[u]) # u
    BY <1>5, <2>1 DEF GiveUp, Reclaim, BackToIdle
  <2> QED
    BY <2>2, <2>3, <2>4, <2>5
<1>6. ASSUME NEW x \in Parties, RequestRing(x) PROVE OwnerInv'
  <2>1. PICK c \in Fresh(x) :
          ring' = [ring EXCEPT ![RingAt[x]] = c] /\ cur' = [cur EXCEPT ![x] = c]
    BY <1>6 DEF RequestRing
  <2>2. /\ c \in Calls /\ Caller(c) = x /\ c # NoCall
        /\ \A u \in Ports : slot[u] # c /\ ring[u] # c /\ held[u] # c
        /\ \A y \in Parties : cur[y] # c
    BY FreshFacts
  <2> QED
    BY <1>6, <2>1, <2>2 DEF RequestRing
<1>7. ASSUME NEW x \in Parties, EndRing(x) PROVE OwnerInv'
  BY <1>7 DEF EndRing, CancelRing, BackToIdle
<1>8. ASSUME NEW x \in Parties, EndOnline(x) PROVE OwnerInv'
  BY <1>8 DEF EndOnline, BackToIdle
<1>9. ASSUME NEW p \in Ports, TakeRing(p) PROVE OwnerInv'
  BY <1>9 DEF TakeRing, StartRinging, LineFree
<1>10. ASSUME NEW p \in Ports, TakePeerCall(p) PROVE OwnerInv'
  BY <1>10 DEF TakePeerCall, StartRinging, LineFree
<1>11. ASSUME NEW p \in Ports, RingOnce(p) PROVE OwnerInv'
  BY <1>11 DEF RingOnce, BackToIdle
<1>12. ASSUME NEW p \in Ports, RingFails(p) PROVE OwnerInv'
  BY <1>12 DEF RingFails, BackToIdle
<1>13. ASSUME NEW p \in Ports, AnswerByHand(p) PROVE OwnerInv'
  BY <1>13 DEF AnswerByHand
<1>14. ASSUME NEW p \in Ports, AnswerPeer(p) PROVE OwnerInv'
  BY <1>14 DEF AnswerPeer, BackToIdle
<1>15. ASSUME NEW p \in Ports, AnswerRing(p) PROVE OwnerInv'
  BY <1>15 DEF AnswerRing
<1>16. ASSUME NEW p \in Ports, Escape(p) PROVE OwnerInv'
  BY <1>16 DEF Escape, BackToIdle
<1>17. ASSUME NEW p \in Ports, ReturnOnline(p) PROVE OwnerInv'
  BY <1>17 DEF ReturnOnline, HangUp
<1>18. ASSUME NEW p \in Ports, HangUpParked(p) PROVE OwnerInv'
  BY <1>18 DEF HangUpParked, HangUp
<1>19. ASSUME NEW p \in Ports, Restart(p) PROVE OwnerInv'
  BY <1>19 DEF Restart, Reclaim, BackToIdle, HangUp
<1> QED
  BY <1>1, <1>2, <1>3, <1>4, <1>5, <1>6, <1>7, <1>8, <1>9, <1>10, <1>11,
     <1>12, <1>13, <1>14, <1>15, <1>16, <1>17, <1>18, <1>19
     DEF Next, CallerStep, PortStep

\* No step gives a waiting call to anybody but its caller.
LEMMA StepWait ==
  ASSUME Typed, OwnerInv, NoStaleCall, WaitInv, HeldOnce, Next
  PROVE  WaitInv'
<1> USE PartyFacts, CallFacts
       DEF PartiesTyped, Typed, OwnerInv, NoStaleCall, ReceiverAlive, Rings, WaitInv, HeldOnce
<1>1. ASSUME NEW x \in Parties, NEW t \in Ports, Dial(x, t) PROVE WaitInv'
  <2>1. CASE DialRefused(x, t)
    BY <1>1, <2>1 DEF Dial, DialRefused, HangUp
  <2>2. ASSUME NEW c \in Fresh(x), DialPlaced(x, t, c) PROVE WaitInv'
    <3>1. /\ c \in Calls /\ Caller(c) = x /\ c # NoCall
          /\ \A u \in Ports : slot[u] # c /\ ring[u] # c /\ held[u] # c
          /\ \A y \in Parties : cur[y] # c
      BY FreshFacts
    <3> QED
      BY <1>1, <2>2, <3>1 DEF Dial, DialPlaced, HangUp
  <2> QED
    BY <1>1, <2>1, <2>2, DialCases
<1>2. ASSUME NEW x \in Parties, HearRing(x) PROVE WaitInv'
  BY <1>2 DEF HearRing, Hears
<1>3. ASSUME NEW x \in Parties, HearAnswer(x) PROVE WaitInv'
  BY <1>3 DEF HearAnswer, Hears
<1>4. ASSUME NEW x \in Parties, HearFailure(x) PROVE WaitInv'
  BY <1>4 DEF HearFailure, Hears, Reclaim, BackToIdle
<1>5. ASSUME NEW x \in Parties, GiveUp(x) PROVE WaitInv'
  BY <1>5 DEF GiveUp, Reclaim, BackToIdle
<1>6. ASSUME NEW x \in Parties, RequestRing(x) PROVE WaitInv'
  <2>1. PICK c \in Fresh(x) :
          ring' = [ring EXCEPT ![RingAt[x]] = c] /\ cur' = [cur EXCEPT ![x] = c]
    BY <1>6 DEF RequestRing
  <2>2. /\ c \in Calls /\ Caller(c) = x /\ c # NoCall
        /\ \A u \in Ports : slot[u] # c /\ ring[u] # c /\ held[u] # c
        /\ \A y \in Parties : cur[y] # c
    BY FreshFacts
  <2> QED
    BY <1>6, <2>1, <2>2 DEF RequestRing
<1>7. ASSUME NEW x \in Parties, EndRing(x) PROVE WaitInv'
  BY <1>7 DEF EndRing, CancelRing, BackToIdle
<1>8. ASSUME NEW x \in Parties, EndOnline(x) PROVE WaitInv'
  BY <1>8 DEF EndOnline, BackToIdle
<1>9. ASSUME NEW p \in Ports, TakeRing(p) PROVE WaitInv'
  BY <1>9 DEF TakeRing, StartRinging, LineFree
<1>10. ASSUME NEW p \in Ports, TakePeerCall(p) PROVE WaitInv'
  BY <1>10 DEF TakePeerCall, StartRinging, LineFree
<1>11. ASSUME NEW p \in Ports, RingOnce(p) PROVE WaitInv'
  BY <1>11 DEF RingOnce, BackToIdle
<1>12. ASSUME NEW p \in Ports, RingFails(p) PROVE WaitInv'
  BY <1>12 DEF RingFails, BackToIdle
<1>13. ASSUME NEW p \in Ports, AnswerByHand(p) PROVE WaitInv'
  BY <1>13 DEF AnswerByHand
<1>14. ASSUME NEW p \in Ports, AnswerPeer(p) PROVE WaitInv'
  BY <1>14 DEF AnswerPeer, BackToIdle
<1>15. ASSUME NEW p \in Ports, AnswerRing(p) PROVE WaitInv'
  BY <1>15 DEF AnswerRing
<1>16. ASSUME NEW p \in Ports, Escape(p) PROVE WaitInv'
  BY <1>16 DEF Escape, BackToIdle
<1>17. ASSUME NEW p \in Ports, ReturnOnline(p) PROVE WaitInv'
  BY <1>17 DEF ReturnOnline, HangUp
<1>18. ASSUME NEW p \in Ports, HangUpParked(p) PROVE WaitInv'
  BY <1>18 DEF HangUpParked, HangUp
<1>19. ASSUME NEW p \in Ports, Restart(p) PROVE WaitInv'
  BY <1>19 DEF Restart, Reclaim, BackToIdle, HangUp
<1> QED
  BY <1>1, <1>2, <1>3, <1>4, <1>5, <1>6, <1>7, <1>8, <1>9, <1>10, <1>11,
     <1>12, <1>13, <1>14, <1>15, <1>16, <1>17, <1>18, <1>19
     DEF Next, CallerStep, PortStep

\* No caller leaves a call behind: one that hears an answer has none waiting.
LEMMA StepStale ==
  ASSUME Typed, OwnerInv, NoStaleCall, WaitInv, HeldOnce, AnswerInv, Next
  PROVE  NoStaleCall'
<1> USE PartyFacts, CallFacts
       DEF PartiesTyped, Typed, OwnerInv, NoStaleCall, ReceiverAlive, Rings, WaitInv, HeldOnce
<1>1. ASSUME NEW x \in Parties, NEW t \in Ports, Dial(x, t) PROVE NoStaleCall'
  <2>1. CASE DialRefused(x, t)
    BY <1>1, <2>1 DEF Dial, DialRefused, HangUp
  <2>2. ASSUME NEW c \in Fresh(x), DialPlaced(x, t, c) PROVE NoStaleCall'
    <3>1. /\ c \in Calls /\ Caller(c) = x /\ c # NoCall
          /\ \A u \in Ports : slot[u] # c /\ ring[u] # c /\ held[u] # c
          /\ \A y \in Parties : cur[y] # c
      BY FreshFacts
    <3> QED
      BY <1>1, <2>2, <3>1 DEF Dial, DialPlaced, HangUp
  <2> QED
    BY <1>1, <2>1, <2>2, DialCases
<1>2. ASSUME NEW x \in Parties, HearRing(x) PROVE NoStaleCall'
  BY <1>2 DEF HearRing, Hears
<1>3. ASSUME NEW x \in Parties, HearAnswer(x) PROVE NoStaleCall'
  <2>1. x \in Diallers /\ pc[x] = "calling" /\ Told(progress[x])
    BY <1>3, HearsFacts DEF HearAnswer, Diallers
  <2>2. Settled(cur[x])
    BY <2>1 DEF AnswerInv
  <2> QED
    BY <1>3, <2>1, <2>2 DEF HearAnswer, Settled
<1>4. ASSUME NEW x \in Parties, HearFailure(x) PROVE NoStaleCall'
  BY <1>4 DEF HearFailure, Hears, Reclaim, BackToIdle
<1>5. ASSUME NEW x \in Parties, GiveUp(x) PROVE NoStaleCall'
  BY <1>5 DEF GiveUp, Reclaim, BackToIdle
<1>6. ASSUME NEW x \in Parties, RequestRing(x) PROVE NoStaleCall'
  <2>1. PICK c \in Fresh(x) :
          ring' = [ring EXCEPT ![RingAt[x]] = c] /\ cur' = [cur EXCEPT ![x] = c]
    BY <1>6 DEF RequestRing
  <2>2. /\ c \in Calls /\ Caller(c) = x /\ c # NoCall
        /\ \A u \in Ports : slot[u] # c /\ ring[u] # c /\ held[u] # c
        /\ \A y \in Parties : cur[y] # c
    BY FreshFacts
  <2> QED
    BY <1>6, <2>1, <2>2 DEF RequestRing
<1>7. ASSUME NEW x \in Parties, EndRing(x) PROVE NoStaleCall'
  BY <1>7 DEF EndRing, CancelRing, BackToIdle
<1>8. ASSUME NEW x \in Parties, EndOnline(x) PROVE NoStaleCall'
  BY <1>8 DEF EndOnline, BackToIdle
<1>9. ASSUME NEW p \in Ports, TakeRing(p) PROVE NoStaleCall'
  BY <1>9 DEF TakeRing, StartRinging, LineFree
<1>10. ASSUME NEW p \in Ports, TakePeerCall(p) PROVE NoStaleCall'
  BY <1>10 DEF TakePeerCall, StartRinging, LineFree
<1>11. ASSUME NEW p \in Ports, RingOnce(p) PROVE NoStaleCall'
  BY <1>11 DEF RingOnce, BackToIdle
<1>12. ASSUME NEW p \in Ports, RingFails(p) PROVE NoStaleCall'
  BY <1>12 DEF RingFails, BackToIdle
<1>13. ASSUME NEW p \in Ports, AnswerByHand(p) PROVE NoStaleCall'
  BY <1>13 DEF AnswerByHand
<1>14. ASSUME NEW p \in Ports, AnswerPeer(p) PROVE NoStaleCall'
  BY <1>14 DEF AnswerPeer, BackToIdle
<1>15. ASSUME NEW p \in Ports, AnswerRing(p) PROVE NoStaleCall'
  BY <1>15 DEF AnswerRing
<1>16. ASSUME NEW p \in Ports, Escape(p) PROVE NoStaleCall'
  BY <1>16 DEF Escape, BackToIdle
<1>17. ASSUME NEW p \in Ports, ReturnOnline(p) PROVE NoStaleCall'
  BY <1>17 DEF ReturnOnline, HangUp
<1>18. ASSUME NEW p \in Ports, HangUpParked(p) PROVE NoStaleCall'
  BY <1>18 DEF HangUpParked, HangUp
<1>19. ASSUME NEW p \in Ports, Restart(p) PROVE NoStaleCall'
  BY <1>19 DEF Restart, Reclaim, BackToIdle, HangUp
<1> QED
  BY <1>1, <1>2, <1>3, <1>4, <1>5, <1>6, <1>7, <1>8, <1>9, <1>10, <1>11,
     <1>12, <1>13, <1>14, <1>15, <1>16, <1>17, <1>18, <1>19
     DEF Next, CallerStep, PortStep

\* No step leaves a call in two places.
LEMMA StepHeld ==
  ASSUME Typed, OwnerInv, NoStaleCall, WaitInv, HeldOnce, AnswerInv, Next
  PROVE  HeldOnce'
<1> USE PartyFacts, CallFacts
       DEF PartiesTyped, Typed, OwnerInv, NoStaleCall, ReceiverAlive, Rings, WaitInv, HeldOnce
<1>1. ASSUME NEW x \in Parties, NEW t \in Ports, Dial(x, t) PROVE HeldOnce'
  <2>1. CASE DialRefused(x, t)
    BY <1>1, <2>1 DEF Dial, DialRefused, HangUp
  <2>2. ASSUME NEW c \in Fresh(x), DialPlaced(x, t, c) PROVE HeldOnce'
    <3>1. /\ c \in Calls /\ Caller(c) = x /\ c # NoCall
          /\ \A u \in Ports : slot[u] # c /\ ring[u] # c /\ held[u] # c
          /\ \A y \in Parties : cur[y] # c
      BY FreshFacts
    <3> QED
      BY <1>1, <2>2, <3>1 DEF Dial, DialPlaced, HangUp
  <2> QED
    BY <1>1, <2>1, <2>2, DialCases
<1>2. ASSUME NEW x \in Parties, HearRing(x) PROVE HeldOnce'
  BY <1>2 DEF HearRing, Hears
<1>3. ASSUME NEW x \in Parties, HearAnswer(x) PROVE HeldOnce'
  <2>1. x \in Diallers /\ pc[x] = "calling" /\ Told(progress[x])
    BY <1>3, HearsFacts DEF HearAnswer, Diallers
  <2>2. Settled(cur[x])
    BY <2>1 DEF AnswerInv
  <2> QED
    BY <1>3, <2>1, <2>2 DEF HearAnswer, Settled
<1>4. ASSUME NEW x \in Parties, HearFailure(x) PROVE HeldOnce'
  BY <1>4 DEF HearFailure, Hears, Reclaim, BackToIdle
<1>5. ASSUME NEW x \in Parties, GiveUp(x) PROVE HeldOnce'
  BY <1>5 DEF GiveUp, Reclaim, BackToIdle
<1>6. ASSUME NEW x \in Parties, RequestRing(x) PROVE HeldOnce'
  <2>1. PICK c \in Fresh(x) :
          ring' = [ring EXCEPT ![RingAt[x]] = c] /\ cur' = [cur EXCEPT ![x] = c]
    BY <1>6 DEF RequestRing
  <2>2. /\ c \in Calls /\ Caller(c) = x /\ c # NoCall
        /\ \A u \in Ports : slot[u] # c /\ ring[u] # c /\ held[u] # c
        /\ \A y \in Parties : cur[y] # c
    BY FreshFacts
  <2> QED
    BY <1>6, <2>1, <2>2 DEF RequestRing
<1>7. ASSUME NEW x \in Parties, EndRing(x) PROVE HeldOnce'
  BY <1>7 DEF EndRing, CancelRing, BackToIdle
<1>8. ASSUME NEW x \in Parties, EndOnline(x) PROVE HeldOnce'
  BY <1>8 DEF EndOnline, BackToIdle
<1>9. ASSUME NEW p \in Ports, TakeRing(p) PROVE HeldOnce'
  BY <1>9 DEF TakeRing, StartRinging, LineFree
<1>10. ASSUME NEW p \in Ports, TakePeerCall(p) PROVE HeldOnce'
  BY <1>10 DEF TakePeerCall, StartRinging, LineFree
<1>11. ASSUME NEW p \in Ports, RingOnce(p) PROVE HeldOnce'
  BY <1>11 DEF RingOnce, BackToIdle
<1>12. ASSUME NEW p \in Ports, RingFails(p) PROVE HeldOnce'
  BY <1>12 DEF RingFails, BackToIdle
<1>13. ASSUME NEW p \in Ports, AnswerByHand(p) PROVE HeldOnce'
  BY <1>13 DEF AnswerByHand
<1>14. ASSUME NEW p \in Ports, AnswerPeer(p) PROVE HeldOnce'
  BY <1>14 DEF AnswerPeer, BackToIdle
<1>15. ASSUME NEW p \in Ports, AnswerRing(p) PROVE HeldOnce'
  BY <1>15 DEF AnswerRing
<1>16. ASSUME NEW p \in Ports, Escape(p) PROVE HeldOnce'
  BY <1>16 DEF Escape, BackToIdle
<1>17. ASSUME NEW p \in Ports, ReturnOnline(p) PROVE HeldOnce'
  BY <1>17 DEF ReturnOnline, HangUp
<1>18. ASSUME NEW p \in Ports, HangUpParked(p) PROVE HeldOnce'
  BY <1>18 DEF HangUpParked, HangUp
<1>19. ASSUME NEW p \in Ports, Restart(p) PROVE HeldOnce'
  BY <1>19 DEF Restart, Reclaim, BackToIdle, HangUp
<1> QED
  BY <1>1, <1>2, <1>3, <1>4, <1>5, <1>6, <1>7, <1>8, <1>9, <1>10, <1>11,
     <1>12, <1>13, <1>14, <1>15, <1>16, <1>17, <1>18, <1>19
     DEF Next, CallerStep, PortStep

\* A connected caller's call stays settled.
LEMMA StepConn ==
  ASSUME Typed, OwnerInv, NoStaleCall, WaitInv, HeldOnce, AnswerInv, ConnInv, Next
  PROVE  ConnInv'
<1> USE PartyFacts, CallFacts
       DEF PartiesTyped, Typed, OwnerInv, NoStaleCall, ReceiverAlive, Rings, WaitInv, HeldOnce,
           ConnInv, Settled
<1>1. ASSUME NEW x \in Parties, NEW t \in Ports, Dial(x, t) PROVE ConnInv'
  <2>1. CASE DialRefused(x, t)
    BY <1>1, <2>1 DEF Dial, DialRefused, HangUp
  <2>2. ASSUME NEW c \in Fresh(x), DialPlaced(x, t, c) PROVE ConnInv'
    <3>1. /\ c \in Calls /\ Caller(c) = x /\ c # NoCall
          /\ \A u \in Ports : slot[u] # c /\ ring[u] # c /\ held[u] # c
          /\ \A y \in Parties : cur[y] # c
      BY FreshFacts
    <3> QED
      BY <1>1, <2>2, <3>1 DEF Dial, DialPlaced, HangUp
  <2> QED
    BY <1>1, <2>1, <2>2, DialCases
<1>2. ASSUME NEW x \in Parties, HearRing(x) PROVE ConnInv'
  BY <1>2 DEF HearRing, Hears
<1>3. ASSUME NEW x \in Parties, HearAnswer(x) PROVE ConnInv'
  <2>1. x \in Diallers /\ pc[x] = "calling" /\ Told(progress[x])
    BY <1>3, HearsFacts DEF HearAnswer, Diallers
  <2>2. Settled(cur[x])
    BY <2>1 DEF AnswerInv
  <2> QED
    BY <1>3, <2>1, <2>2 DEF HearAnswer, Settled
<1>4. ASSUME NEW x \in Parties, HearFailure(x) PROVE ConnInv'
  BY <1>4 DEF HearFailure, Hears, Reclaim, BackToIdle
<1>5. ASSUME NEW x \in Parties, GiveUp(x) PROVE ConnInv'
  BY <1>5 DEF GiveUp, Reclaim, BackToIdle
<1>6. ASSUME NEW x \in Parties, RequestRing(x) PROVE ConnInv'
  <2>1. PICK c \in Fresh(x) :
          ring' = [ring EXCEPT ![RingAt[x]] = c] /\ cur' = [cur EXCEPT ![x] = c]
    BY <1>6 DEF RequestRing
  <2>2. /\ c \in Calls /\ Caller(c) = x /\ c # NoCall
        /\ \A u \in Ports : slot[u] # c /\ ring[u] # c /\ held[u] # c
        /\ \A y \in Parties : cur[y] # c
    BY FreshFacts
  <2> QED
    BY <1>6, <2>1, <2>2 DEF RequestRing
<1>7. ASSUME NEW x \in Parties, EndRing(x) PROVE ConnInv'
  BY <1>7 DEF EndRing, CancelRing, BackToIdle
<1>8. ASSUME NEW x \in Parties, EndOnline(x) PROVE ConnInv'
  BY <1>8 DEF EndOnline, BackToIdle
<1>9. ASSUME NEW p \in Ports, TakeRing(p) PROVE ConnInv'
  BY <1>9 DEF TakeRing, StartRinging, LineFree
<1>10. ASSUME NEW p \in Ports, TakePeerCall(p) PROVE ConnInv'
  BY <1>10 DEF TakePeerCall, StartRinging, LineFree
<1>11. ASSUME NEW p \in Ports, RingOnce(p) PROVE ConnInv'
  BY <1>11 DEF RingOnce, BackToIdle
<1>12. ASSUME NEW p \in Ports, RingFails(p) PROVE ConnInv'
  BY <1>12 DEF RingFails, BackToIdle
<1>13. ASSUME NEW p \in Ports, AnswerByHand(p) PROVE ConnInv'
  BY <1>13 DEF AnswerByHand
<1>14. ASSUME NEW p \in Ports, AnswerPeer(p) PROVE ConnInv'
  BY <1>14 DEF AnswerPeer, BackToIdle
<1>15. ASSUME NEW p \in Ports, AnswerRing(p) PROVE ConnInv'
  BY <1>15 DEF AnswerRing
<1>16. ASSUME NEW p \in Ports, Escape(p) PROVE ConnInv'
  BY <1>16 DEF Escape, BackToIdle
<1>17. ASSUME NEW p \in Ports, ReturnOnline(p) PROVE ConnInv'
  BY <1>17 DEF ReturnOnline, HangUp
<1>18. ASSUME NEW p \in Ports, HangUpParked(p) PROVE ConnInv'
  BY <1>18 DEF HangUpParked, HangUp
<1>19. ASSUME NEW p \in Ports, Restart(p) PROVE ConnInv'
  BY <1>19 DEF Restart, Reclaim, BackToIdle, HangUp
<1> QED
  BY <1>1, <1>2, <1>3, <1>4, <1>5, <1>6, <1>7, <1>8, <1>9, <1>10, <1>11,
     <1>12, <1>13, <1>14, <1>15, <1>16, <1>17, <1>18, <1>19
     DEF Next, CallerStep, PortStep

\* A call is settled when its answer is sent, and stays so until it is heard.
LEMMA StepAnswer ==
  ASSUME Typed, OwnerInv, NoStaleCall, WaitInv, HeldOnce, AnswerInv, Next
  PROVE  AnswerInv'
<1> USE PartyFacts, CallFacts
       DEF PartiesTyped, Typed, OwnerInv, NoStaleCall, ReceiverAlive, Rings, WaitInv, HeldOnce,
           AnswerInv, Settled
<1>1. ASSUME NEW x \in Parties, NEW t \in Ports, Dial(x, t) PROVE AnswerInv'
  <2>1. CASE DialRefused(x, t)
    BY <1>1, <2>1 DEF Dial, DialRefused, HangUp
  <2>2. ASSUME NEW c \in Fresh(x), DialPlaced(x, t, c) PROVE AnswerInv'
    <3>1. /\ c \in Calls /\ Caller(c) = x /\ c # NoCall
          /\ \A u \in Ports : slot[u] # c /\ ring[u] # c /\ held[u] # c
          /\ \A y \in Parties : cur[y] # c
      BY FreshFacts
    <3>2. progress' = [progress EXCEPT ![x] = <<>>]
      BY <2>2 DEF DialPlaced
    <3>3. \A y \in Diallers : y # x => progress'[y] = progress[y]
      BY <3>2, ClearFacts
    <3>4. ~Told(progress'[x])
      BY <3>2, ClearFacts
    <3>5. \A y \in Diallers : y # x /\ pc[y] = "calling" /\ Settled(cur[y]) => Settled(cur[y])'
      BY <2>2, <3>1 DEF DialPlaced
    <3> QED
      BY <2>2, <3>3, <3>4, <3>5 DEF DialPlaced
  <2> QED
    BY <1>1, <2>1, <2>2, DialCases
<1>2. ASSUME NEW x \in Parties, HearRing(x) PROVE AnswerInv'
  <2>1. \A y \in Diallers : Told(progress'[y]) => Told(progress[y])
    BY <1>2, HearsFacts DEF HearRing
  <2> QED
    BY <1>2, <2>1 DEF HearRing
<1>3. ASSUME NEW x \in Parties, HearAnswer(x) PROVE AnswerInv'
  <2>1. \A y \in Diallers : Told(progress'[y]) => Told(progress[y])
    BY <1>3, HearsFacts DEF HearAnswer
  <2> QED
    BY <1>3, <2>1 DEF HearAnswer
<1>4. ASSUME NEW x \in Parties, HearFailure(x) PROVE AnswerInv'
  <2>1. \A y \in Diallers : Told(progress'[y]) => Told(progress[y])
    BY <1>4, HearsFacts, KeepFacts DEF HearFailure
  <2> QED
    BY <1>4, <2>1 DEF HearFailure, Reclaim, BackToIdle
<1>5. ASSUME NEW x \in Parties, GiveUp(x) PROVE AnswerInv'
  BY <1>5 DEF GiveUp, Reclaim, BackToIdle
<1>6. ASSUME NEW x \in Parties, RequestRing(x) PROVE AnswerInv'
  <2>1. PICK c \in Fresh(x) :
          ring' = [ring EXCEPT ![RingAt[x]] = c] /\ cur' = [cur EXCEPT ![x] = c]
    BY <1>6 DEF RequestRing
  <2>2. /\ c \in Calls /\ Caller(c) = x /\ c # NoCall
        /\ \A u \in Ports : slot[u] # c /\ ring[u] # c /\ held[u] # c
        /\ \A y \in Parties : cur[y] # c
    BY FreshFacts
  <2>3. x \notin Diallers /\ \A y \in Diallers : progress'[y] = progress[y]
    BY <1>6, ClearFacts DEF RequestRing
  <2>4. \A y \in Diallers : pc'[y] = pc[y] /\ cur'[y] = cur[y]
    BY <1>6, <2>1, <2>3 DEF RequestRing
  <2>5. \A y \in Diallers : Settled(cur[y]) => Settled(cur[y])'
    BY <1>6, <2>3, <2>4 DEF RequestRing
  <2> QED
    BY <2>3, <2>4, <2>5
<1>7. ASSUME NEW x \in Parties, EndRing(x) PROVE AnswerInv'
  BY <1>7 DEF EndRing, CancelRing, BackToIdle
<1>8. ASSUME NEW x \in Parties, EndOnline(x) PROVE AnswerInv'
  BY <1>8 DEF EndOnline, BackToIdle
<1>9. ASSUME NEW p \in Ports, TakeRing(p) PROVE AnswerInv'
  BY <1>9 DEF TakeRing, StartRinging, LineFree
<1>10. ASSUME NEW p \in Ports, TakePeerCall(p) PROVE AnswerInv'
  BY <1>10 DEF TakePeerCall, StartRinging, LineFree
<1>11. ASSUME NEW p \in Ports, RingOnce(p) PROVE AnswerInv'
  <2>1. \A y \in Diallers : Told(progress'[y]) => Told(progress[y])
    <3>1. Rings(p) /\ Rang \in Bytes /\ Answered # Rang
      BY <1>11 DEF RingOnce, Bytes, Rang, Answered, PortError
    <3> QED
      BY <1>11, <3>1, SendFacts, KeepFacts DEF RingOnce
  <2> QED
    BY <1>11, <2>1 DEF RingOnce, BackToIdle
<1>12. ASSUME NEW p \in Ports, RingFails(p) PROVE AnswerInv'
  <2>1. \A y \in Diallers : Told(progress'[y]) => Told(progress[y])
    <3>1. Rings(p) /\ PortError \in Bytes /\ Answered # PortError
      BY <1>12 DEF RingFails, Bytes, Rang, Answered, PortError
    <3> QED
      BY <1>12, <3>1, SendFacts, KeepFacts DEF RingFails
  <2> QED
    BY <1>12, <2>1 DEF RingFails, BackToIdle
<1>13. ASSUME NEW p \in Ports, AnswerByHand(p) PROVE AnswerInv'
  BY <1>13 DEF AnswerByHand
<1>14. ASSUME NEW p \in Ports, AnswerPeer(p) PROVE AnswerInv'
  <2>1. Rings(p) /\ Answered \in Bytes
    BY <1>14 DEF AnswerPeer, Bytes
  <2>2. \A y \in Diallers :
          Told(progress'[y]) => Told(progress[y]) \/ y = Caller(cur[p])
    BY <1>14, <2>1, SendFacts, KeepFacts DEF AnswerPeer
  <2>3. CASE CanSend(p)
    <3>1. cur[Caller(cur[p])] = cur[p]
      BY <2>3 DEF CanSend
    <3>2. Settled(cur[p])'
      BY <1>14, <2>1, <2>3 DEF AnswerPeer
    <3> QED
      BY <1>14, <2>2, <2>3, <3>1, <3>2 DEF AnswerPeer
  <2>4. CASE ~CanSend(p)
    <3>1. UNCHANGED progress
      BY <1>14, <2>4 DEF AnswerPeer
    <3> QED
      BY <1>14, <2>4, <3>1 DEF AnswerPeer, BackToIdle
  <2> QED
    BY <2>3, <2>4
<1>15. ASSUME NEW p \in Ports, AnswerRing(p) PROVE AnswerInv'
  <2>1. \A y \in Diallers : Told(progress'[y]) => Told(progress[y])
    <3>1. Rings(p) /\ Answered \in Bytes /\ Caller(cur[p]) \notin Diallers
      BY <1>15 DEF AnswerRing, Bytes
    <3> QED
      BY <1>15, <3>1, SendFacts, KeepFacts DEF AnswerRing
  <2> QED
    BY <1>15, <2>1 DEF AnswerRing
<1>16. ASSUME NEW p \in Ports, Escape(p) PROVE AnswerInv'
  BY <1>16 DEF Escape, BackToIdle
<1>17. ASSUME NEW p \in Ports, ReturnOnline(p) PROVE AnswerInv'
  BY <1>17 DEF ReturnOnline, HangUp
<1>18. ASSUME NEW p \in Ports, HangUpParked(p) PROVE AnswerInv'
  BY <1>18 DEF HangUpParked, HangUp
<1>19. ASSUME NEW p \in Ports, Restart(p) PROVE AnswerInv'
  <2>1. \A y \in Diallers : Told(progress'[y]) => Told(progress[y])
    BY <1>19, ClearFacts, KeepFacts DEF Restart
  <2> QED
    BY <1>19, <2>1 DEF Restart, Reclaim, BackToIdle, HangUp
<1> QED
  BY <1>1, <1>2, <1>3, <1>4, <1>5, <1>6, <1>7, <1>8, <1>9, <1>10, <1>11,
     <1>12, <1>13, <1>14, <1>15, <1>16, <1>17, <1>18, <1>19
     DEF Next, CallerStep, PortStep

-----------------------------------------------------------------------------
(* Theorems.                                                                *)

\* The invariant holds at the start.
LEMMA InitInv == Init => Inv
<1> SUFFICES ASSUME Init PROVE Inv
  OBVIOUS
<1>1. Typed
  BY PartyFacts, EmptyFacts, PeerAssumption DEF Init, Typed, PartiesTyped, ChannelsTyped, RingCap
<1>2. OwnerInv /\ WaitInv /\ ConnInv /\ NoStaleCall /\ HeldOnce
  BY PartyFacts, CallFacts DEF Init, OwnerInv, WaitInv, ConnInv, NoStaleCall, HeldOnce, Rings
<1>3. AnswerInv
  BY PartyFacts DEF Init, AnswerInv
<1> QED
  BY <1>1, <1>2, <1>3 DEF Inv

\* A step of something else leaves it as it is.
LEMMA StutterInv == Inv /\ UNCHANGED vars => Inv'
BY
   DEF Inv, vars, Typed, PartiesTyped, ChannelsTyped, OwnerInv, WaitInv, AnswerInv, ConnInv,
       Settled,
       NoStaleCall, HeldOnce, Rings, ReceiverAlive

\* The calls are where they should be, whoever dials, rings, answers, gives up
\* or is restarted (request_peer_call, PeerSlotGuard, process_peer_ring).
THEOREM Invariance == Spec => []Inv
<1>1. Inv /\ [Next]_vars => Inv'
  <2>1. Inv /\ Next => Inv'
    BY StepTyped, StepOwner, StepWait, StepAnswer, StepConn, StepStale, StepHeld DEF Inv
  <2> QED
    BY <2>1, StutterInv
<1> QED
  BY <1>1, InitInv, PTL DEF Spec

\* No call is left behind by its caller and nobody is connected who was not
\* answered, for any number of callers (PeerSlotGuard, await_peer_outcome).
THEOREM CallsSoundHolds == Spec => []CallsSound
<1>1. Inv => CallsSound
  <2> SUFFICES ASSUME Inv PROVE CallsSound
    OBVIOUS
  <2>1. TypeOK /\ NoStaleCall
    BY TypedIsTypeOK DEF Inv
  <2>2. ASSUME NEW x \in Diallers, NEW c \in {x} \X (1..MaxCalls), Connected(x, c)
        PROVE  \A p \in Ports : slot[p] # c /\ (p # x /\ cur[p] = c => pc[p] = "online")
    <3>1. c \in Calls /\ Caller(c) = x /\ c # NoCall
      BY PartyFacts, CallFacts DEF Calls, Caller
    <3>2. Settled(c)
      BY <2>2, <3>1 DEF Inv, ConnInv, Connected
    <3>3. ASSUME NEW p \in Ports, p # x, cur[p] = c PROVE pc[p] = "online"
      BY <3>1, <3>2, <3>3, PartyFacts
         DEF Inv, Typed, PartiesTyped, OwnerInv, Settled, Rings
    <3> QED
      BY <3>2, <3>3 DEF Settled
  <2>3. ConnectedIsAnswered
    BY <2>2 DEF ConnectedIsAnswered, Diallers
  <2> QED
    BY <2>1, <2>3 DEF CallsSound
<1> QED
  BY <1>1, Invariance, PTL

\* A step on one slot's call, as CallKept has it.
KeepsCalls ==
  \A p \in Ports :
    slot[p] # NoCall /\ slot'[p] # slot[p] =>
      cur'[p] = slot[p] \/ pc'[Caller(slot[p])] # "calling"

\* The guard of one caller never removes the call of another, and no step but
\* the port's own takes it (take_if_mine).
THEOREM CallKeptHolds == Spec => CallKept
<1>1. Inv /\ [Next]_vars => [KeepsCalls]_vars
  <2> SUFFICES ASSUME Inv, Next PROVE KeepsCalls
    OBVIOUS
  <2> USE PartyFacts, CallFacts
         DEF Inv, Typed, PartiesTyped, OwnerInv, NoStaleCall, ReceiverAlive, KeepsCalls
  <2>1. ASSUME NEW x \in Parties, NEW t \in Ports, Dial(x, t) PROVE KeepsCalls
    <3>1. CASE DialRefused(x, t)
      BY <2>1, <3>1 DEF Dial, DialRefused
    <3>2. ASSUME NEW c \in Fresh(x), DialPlaced(x, t, c) PROVE KeepsCalls
      BY <2>1, <3>2 DEF Dial, DialPlaced, HangUp
    <3> QED
      BY <2>1, <3>1, <3>2, DialCases
  <2>2. ASSUME NEW x \in Parties, HearRing(x) PROVE KeepsCalls
    BY <2>2 DEF HearRing
  <2>3. ASSUME NEW x \in Parties, HearAnswer(x) PROVE KeepsCalls
    BY <2>3 DEF HearAnswer
  <2>4. ASSUME NEW x \in Parties, HearFailure(x) PROVE KeepsCalls
    BY <2>4 DEF HearFailure, Reclaim, BackToIdle
  <2>5. ASSUME NEW x \in Parties, GiveUp(x) PROVE KeepsCalls
    BY <2>5 DEF GiveUp, Reclaim, BackToIdle
  <2>6. ASSUME NEW x \in Parties, RequestRing(x) PROVE KeepsCalls
    BY <2>6 DEF RequestRing
  <2>7. ASSUME NEW x \in Parties, EndRing(x) PROVE KeepsCalls
    BY <2>7 DEF EndRing
  <2>8. ASSUME NEW x \in Parties, EndOnline(x) PROVE KeepsCalls
    BY <2>8 DEF EndOnline
  <2>9. ASSUME NEW p \in Ports, TakeRing(p) PROVE KeepsCalls
    BY <2>9 DEF TakeRing, StartRinging
  <2>10. ASSUME NEW p \in Ports, TakePeerCall(p) PROVE KeepsCalls
    BY <2>10 DEF TakePeerCall, StartRinging, LineFree
  <2>11. ASSUME NEW p \in Ports, RingOnce(p) PROVE KeepsCalls
    BY <2>11 DEF RingOnce
  <2>12. ASSUME NEW p \in Ports, RingFails(p) PROVE KeepsCalls
    BY <2>12 DEF RingFails
  <2>13. ASSUME NEW p \in Ports, AnswerByHand(p) PROVE KeepsCalls
    BY <2>13 DEF AnswerByHand
  <2>14. ASSUME NEW p \in Ports, AnswerPeer(p) PROVE KeepsCalls
    BY <2>14 DEF AnswerPeer
  <2>15. ASSUME NEW p \in Ports, AnswerRing(p) PROVE KeepsCalls
    BY <2>15 DEF AnswerRing
  <2>16. ASSUME NEW p \in Ports, Escape(p) PROVE KeepsCalls
    BY <2>16 DEF Escape, BackToIdle
  <2>17. ASSUME NEW p \in Ports, ReturnOnline(p) PROVE KeepsCalls
    BY <2>17 DEF ReturnOnline, HangUp
  <2>18. ASSUME NEW p \in Ports, HangUpParked(p) PROVE KeepsCalls
    BY <2>18 DEF HangUpParked
  <2>19. ASSUME NEW p \in Ports, Restart(p) PROVE KeepsCalls
    BY <2>19 DEF Restart, Reclaim, BackToIdle, HangUp
  <2> QED
    BY <2>1, <2>2, <2>3, <2>4, <2>5, <2>6, <2>7, <2>8, <2>9, <2>10, <2>11,
       <2>12, <2>13, <2>14, <2>15, <2>16, <2>17, <2>18, <2>19
       DEF Next, CallerStep, PortStep
<1>2. CallKept <=> [][KeepsCalls]_vars
  BY DEF CallKept, KeepsCalls
<1> QED
  BY <1>1, <1>2, Invariance, PTL DEF Spec

\* A step on the parked calls, as ParkedKept has it.
KeepsParked == \A p \in Ports : held[p] # NoCall /\ held'[p] # held[p] => held'[p] = NoCall

\* No call is answered over one parked with +++, for any number of ports and callers
\* (line_free_for_incoming).
THEOREM ParkedKeptHolds == Spec => ParkedKept
<1>1. Inv /\ [Next]_vars => [KeepsParked]_vars
  <2> SUFFICES ASSUME Inv, Next PROVE KeepsParked
    OBVIOUS
  <2>1. PartiesTyped
    BY DEF Inv, Typed
  <2>2. CASE \E p \in Ports : Escape(p)
    BY <2>1, <2>2, PartyFacts DEF PartiesTyped, Escape, KeepsParked
  <2>3. CASE held' = held \/ \E x \in Parties : HangUp(x)
    BY <2>1, <2>3 DEF PartiesTyped, HangUp, KeepsParked
  <2>4. (\E p \in Ports : Escape(p)) \/ held' = held \/ \E x \in Parties : HangUp(x)
    BY PartyFacts
       DEF Next, CallerStep, PortStep, Dial, HearRing, HearAnswer, HearFailure, GiveUp, RequestRing,
           EndRing, EndOnline, TakeRing, TakePeerCall, StartRinging, RingOnce, RingFails,
           AnswerByHand, AnswerPeer, AnswerRing, ReturnOnline, HangUpParked, Restart
  <2> QED
    BY <2>2, <2>3, <2>4
<1>2. ParkedKept <=> [][KeepsParked]_vars
  BY DEF ParkedKept, KeepsParked
<1> QED
  BY <1>1, <1>2, Invariance, PTL DEF Spec
=============================================================================
