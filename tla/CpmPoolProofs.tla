---------------------------- MODULE CpmPoolProofs ----------------------------
(***************************************************************************)
(* Proofs that the pool of module CpmPool counts its members, leaves no call  *)
(* behind and answers none over another, for any number of members and       *)
(* callers.                                                                 *)
(***************************************************************************)
EXTENDS CpmPool, FiniteSetTheorems, SequenceTheorems, TLAPS

\* An answer is under way in channel s.
Told(s) == \E i \in 1..Len(s) : s[i] = Answered

\* A caller has a call, its own, from placing it to hanging up, and its channel
\* is empty except while it waits for the outcome.
OwnerInv ==
  \A x \in PoolCallers :
    /\ caller[x] \in {"calling", "online"} => placed[x] \in PoolCalls /\ Caller(placed[x]) = x
    /\ caller[x] \in {"idle", "checked"} => placed[x] = NoCall
    /\ caller[x] # "calling" => heard[x] = <<>>

\* The call c waits in the slot no more, and no modem rings for it.
Settled(c) == poolSlot # c /\ \A m \in Members : incoming[m] # c

\* The call of a caller to whom an answer is under way is settled.
AnswerInv == \A x \in PoolCallers : caller[x] = "calling" /\ Told(heard[x]) => Settled(placed[x])

\* A call rings at one modem or is connected to one, a call taken is not in the slot,
\* and a modem that rings holds no other call.
OneMember ==
  /\ \A m, n \in Members :
       {incoming[m], link[m]} \cap {incoming[n], link[n]} \cap PoolCalls # {} => m = n
  /\ \A m \in Members :
       /\ poolSlot # NoCall => poolSlot \notin {incoming[m], link[m]}
       /\ incoming[m] # NoCall => link[m] \notin PoolCalls

\* PoolTypeOK in three parts: the pool and its modems...
Listening == {m \in Members : member[m] = "in"}
PoolTyped ==
  /\ listeners = Cardinality(Listening)
  /\ member \in [Members -> {"out", "in", "leaving", "last"}]

ModemsTyped ==
  /\ poolSlot \in PoolCalls \cup {NoCall}
  /\ mode \in [Members -> {"command", "online"}]
  /\ incoming \in [Members -> PoolCalls \cup {NoCall}]
  /\ rung \in SUBSET Members
  /\ link \in [Members -> PoolCalls \cup {NoCall, Outgoing}]
  /\ \A m \in Members : mode[m] = "online" => link[m] # NoCall

\* ...the callers...
CallersTyped ==
  /\ caller \in [PoolCallers -> {"idle", "checked", "calling", "online"}]
  /\ placed \in [PoolCallers -> PoolCalls \cup {NoCall}]

\* ...and their channels.
Bytes == {Rang, Answered}
ChannelsTyped ==
  /\ heard \in [PoolCallers -> Seq(Bytes)]
  /\ \A x \in PoolCallers : Len(heard[x]) <= ChanCap

Typed == ModemsTyped /\ CallersTyped /\ ChannelsTyped

\* The inductive invariant.
Inv ==
  /\ PoolTyped /\ Typed
  /\ OwnerInv /\ AnswerInv /\ NoStalePoolCall /\ OneMember /\ PoolConnectedIsAnswered

-----------------------------------------------------------------------------
(* Calls, channels and the count.                                           *)

\* A call names its caller and is neither an empty slot nor an outgoing one.
LEMMA CallFacts ==
  ASSUME NEW c \in PoolCalls
  PROVE  Caller(c) \in PoolCallers /\ c # NoCall /\ c # Outgoing
BY PoolAssumption DEF PoolCalls, Caller

\* A fresh call of x is x's; it waits nowhere and no modem has it.
LEMMA FreshFacts ==
  ASSUME NEW x \in PoolCallers, NEW c \in PoolFresh(x)
  PROVE  /\ c \in PoolCalls /\ Caller(c) = x
         /\ poolSlot # c /\ placed[x] # c
         /\ \A m \in Members : incoming[m] # c /\ link[m] # c
BY DEF PoolFresh, PoolCalls, Caller

\* A byte put in a channel with room is there, and those before it stay.
LEMMA AppendFacts ==
  ASSUME NEW s \in Seq(Bytes), NEW e \in Bytes, Len(s) < ChanCap
  PROVE  /\ Append(s, e) \in Seq(Bytes) /\ Len(Append(s, e)) <= ChanCap
         /\ Told(Append(s, e)) <=> Told(s) \/ e = Answered
BY PoolAssumption DEF Told

\* A byte read from a channel was in it, and the rest were too.
LEMMA TailFacts ==
  ASSUME NEW s \in Seq(Bytes), s # <<>>
  PROVE  /\ Tail(s) \in Seq(Bytes) /\ Len(Tail(s)) <= Len(s)
         /\ Head(s) = Answered => Told(s)
         /\ Told(Tail(s)) => Told(s)
<1>1. Len(s) \in Nat /\ Len(s) > 0 /\ Head(s) = s[1]
  BY EmptySeq
<1>2. Tail(s) \in Seq(Bytes) /\ Len(Tail(s)) = Len(s) - 1
  BY HeadTailProperties
<1>3. \A i \in 1..Len(Tail(s)) : Tail(s)[i] = s[i + 1]
  BY <1>1, <1>2, HeadTailProperties
<1> QED
  BY <1>1, <1>2, <1>3 DEF Told

\* A new channel is empty.
LEMMA EmptyFacts == <<>> \in Seq(Bytes) /\ Len(<<>>) = 0 /\ ~Told(<<>>)
BY DEF Told

\* A modem's byte goes to the caller that waits for its call, or nowhere.
LEMMA SendsFacts ==
  ASSUME Typed, NEW m \in Members, incoming[m] # NoCall, NEW b \in Bytes, Sends(m, b)
  PROVE  /\ ChannelsTyped'
         /\ \A x \in PoolCallers :
              /\ heard'[x] # heard[x] => x = Caller(incoming[m]) /\ PoolReceiverAlive(incoming[m])
              /\ Told(heard'[x]) => Told(heard[x]) \/ (b = Answered /\ x = Caller(incoming[m])
                                                              /\ PoolReceiverAlive(incoming[m]))
<1> DEFINE k == Caller(incoming[m])
<1>1. k \in PoolCallers
  BY CallFacts DEF Typed, ModemsTyped
<1>2. CASE ~PoolReceiverAlive(incoming[m])
  BY <1>2 DEF Sends, Typed, ChannelsTyped
<1>3. CASE PoolReceiverAlive(incoming[m])
  <2>1. heard' = [heard EXCEPT ![k] = Append(heard[k], b)] /\ Len(heard[k]) < ChanCap
    BY <1>3 DEF Sends
  <2>2. heard[k] \in Seq(Bytes)
    BY <1>1 DEF Typed, ChannelsTyped
  <2>3. /\ Append(heard[k], b) \in Seq(Bytes) /\ Len(Append(heard[k], b)) <= ChanCap
        /\ Told(Append(heard[k], b)) <=> Told(heard[k]) \/ b = Answered
    BY <2>1, <2>2, AppendFacts
  <2>4. \A x \in PoolCallers : heard'[x] = IF x = k THEN Append(heard[k], b) ELSE heard[x]
    BY <1>1, <2>1 DEF Typed, ChannelsTyped
  <2>5. heard' \in [PoolCallers -> Seq(Bytes)]
    BY <1>1, <2>1, <2>3 DEF Typed, ChannelsTyped
  <2> QED
    BY <1>1, <1>3, <2>3, <2>4, <2>5 DEF Typed, ChannelsTyped
<1> QED
  BY <1>2, <1>3

\* A byte read leaves its caller's channel and no other.
LEMMA ReadFacts ==
  ASSUME Typed, NEW x \in PoolCallers, heard[x] # <<>>, heard' = [heard EXCEPT ![x] = Tail(@)]
  PROVE  /\ ChannelsTyped'
         /\ \A y \in PoolCallers : y # x => heard'[y] = heard[y]
         /\ Told(heard'[x]) => Told(heard[x])
<1>1. heard[x] \in Seq(Bytes) /\ Len(heard[x]) <= ChanCap
  BY DEF Typed, ChannelsTyped
<1>2. /\ Tail(heard[x]) \in Seq(Bytes) /\ Len(Tail(heard[x])) <= Len(heard[x])
      /\ Told(Tail(heard[x])) => Told(heard[x])
  BY <1>1, TailFacts
<1>3. \A y \in PoolCallers : heard'[y] = IF y = x THEN Tail(heard[x]) ELSE heard[y]
  BY DEF Typed, ChannelsTyped
<1>4. heard' \in [PoolCallers -> Seq(Bytes)]
  BY <1>2 DEF Typed, ChannelsTyped
<1>5. Len(Tail(heard[x])) <= ChanCap
  BY <1>1, <1>2, LenProperties, PoolAssumption
<1> QED
  BY <1>2, <1>3, <1>4, <1>5 DEF ChannelsTyped, Typed

\* A channel emptied is empty, and the others stay.
LEMMA ClearFacts ==
  ASSUME Typed, NEW x \in PoolCallers, heard' = [heard EXCEPT ![x] = <<>>]
  PROVE  /\ ChannelsTyped'
         /\ \A y \in PoolCallers : y # x => heard'[y] = heard[y]
         /\ heard'[x] = <<>> /\ ~Told(heard'[x])
BY EmptyFacts, PoolAssumption DEF ChannelsTyped, Typed

\* Channels nobody touches stay as they are.
LEMMA KeepFacts ==
  ASSUME Typed, UNCHANGED heard
  PROVE  ChannelsTyped' /\ \A x \in PoolCallers : heard'[x] = heard[x]
BY DEF ChannelsTyped, Typed

\* A place finds the slot taken...
PlaceRefused(x) == poolSlot # NoCall /\ CallerIdle(x) /\ UNCHANGED poolSlot

\* ...or puts a fresh call in it.
PlaceDone(x, c) ==
  /\ poolSlot = NoCall /\ poolSlot' = c
  /\ caller' = [caller EXCEPT ![x] = "calling"]
  /\ placed' = [placed EXCEPT ![x] = c]
  /\ UNCHANGED heard

\* A place does one of the two.
LEMMA PlaceCases ==
  ASSUME NEW x, Place(x)
  PROVE  PlaceRefused(x) \/ \E c \in PoolFresh(x) : PlaceDone(x, c)
BY DEF Place, PlaceRefused, PlaceDone

\* The parts are the types of the module.
LEMMA TypedIsTypeOK == PoolTyped /\ Typed => PoolTypeOK
BY DEF PoolTyped, Listening, Typed, ModemsTyped, CallersTyped, ChannelsTyped, PoolTypeOK, Bytes

\* Every step keeps the count: a member that joins is counted, one that leaves
\* is not, and nothing else touches either (fetch_add, fetch_sub).
LEMMA StepPool ==
  ASSUME PoolTyped, PoolNext
  PROVE  PoolTyped'
<1>1. IsFiniteSet(Listening)
  BY PoolAssumption, FS_Subset DEF Listening
<1>2. ASSUME NEW m \in Members, Join(m) PROVE PoolTyped'
  <2>1. member' \in [Members -> {"out", "in", "leaving", "last"}]
    BY <1>2 DEF Join, PoolTyped
  <2>2. Listening' = Listening \cup {m} /\ m \notin Listening
    BY <1>2 DEF Join, PoolTyped, Listening
  <2>3. Cardinality(Listening') = Cardinality(Listening) + 1
    BY <1>1, <2>2, FS_AddElement
  <2> QED
    BY <1>2, <2>1, <2>3 DEF Join, PoolTyped
<1>3. ASSUME NEW m \in Members, Leave(m) PROVE PoolTyped'
  <2>1. member' \in [Members -> {"out", "in", "leaving", "last"}]
    BY <1>3 DEF Leave, PoolTyped
  <2>2. Listening' = Listening \ {m} /\ m \in Listening
    BY <1>3 DEF Leave, PoolTyped, Listening
  <2>3. Cardinality(Listening') = Cardinality(Listening) - 1
    BY <1>1, <2>2, FS_RemoveElement
  <2> QED
    BY <1>3, <2>1, <2>3 DEF Leave, PoolTyped
<1>4. ASSUME NEW m \in Members, Left(m) PROVE PoolTyped'
  <2>1. member' \in [Members -> {"out", "in", "leaving", "last"}]
    BY <1>4 DEF Left, PoolTyped
  <2>2. Listening' = Listening
    BY <1>4 DEF Left, PoolTyped, Listening
  <2> QED
    BY <1>4, <2>1, <2>2 DEF Left, PoolTyped
<1>5. ASSUME UNCHANGED <<listeners, member>> PROVE PoolTyped'
  BY <1>5 DEF PoolTyped, Listening
<1>6. ASSUME NEW x \in PoolCallers, PoolCallerStep(x) PROVE UNCHANGED <<listeners, member>>
  BY <1>6 DEF PoolCallerStep, Check, Place, PoolHearRing, PoolHearAnswer, PoolGiveUp, CallerHangsUp
<1>7. ASSUME NEW m \in Members, MemberStep(m)
      PROVE  Join(m) \/ Leave(m) \/ Left(m) \/ UNCHANGED <<listeners, member>>
  BY <1>7 DEF MemberStep, TakeCall, MemberRings, AnswerIncoming, DialOut, MemberEscape, MemberReturn, Hangup
<1> QED
  BY <1>2, <1>3, <1>4, <1>5, <1>6, <1>7 DEF PoolNext

\* Every step keeps the types.
LEMMA StepTyped ==
  ASSUME Typed, PoolNext
  PROVE  Typed'
<1> USE CallFacts DEF Typed, ModemsTyped, CallersTyped
<1>1. ASSUME NEW x \in PoolCallers, Check(x) PROVE Typed'
  <2>1. ChannelsTyped'
    BY <1>1, KeepFacts DEF Check
  <2>2. ModemsTyped' /\ CallersTyped'
    BY <1>1 DEF Check, modemVars
  <2> QED
    BY <2>1, <2>2 DEF Typed
<1>2. ASSUME NEW x \in PoolCallers, Place(x) PROVE Typed'
  <2>1. CASE PlaceRefused(x)
    BY <1>2, <2>1, ClearFacts, KeepFacts DEF Place, PlaceRefused, CallerIdle, modemVars
  <2>2. ASSUME NEW c \in PoolFresh(x), PlaceDone(x, c) PROVE Typed'
    <3>1. /\ c \in PoolCalls /\ Caller(c) = x /\ poolSlot # c /\ placed[x] # c
          /\ \A m \in Members : incoming[m] # c /\ link[m] # c
      BY FreshFacts
    <3> QED
      BY <1>2, <2>2, <3>1, ClearFacts, KeepFacts DEF Place, PlaceDone, modemVars
  <2> QED
    BY <1>2, <2>1, <2>2, PlaceCases
<1>3. ASSUME NEW x \in PoolCallers, PoolHearRing(x) PROVE Typed'
  <2>1. ChannelsTyped'
    BY <1>3, ReadFacts DEF PoolHearRing
  <2>2. ModemsTyped' /\ CallersTyped'
    BY <1>3 DEF PoolHearRing, modemVars
  <2> QED
    BY <2>1, <2>2 DEF Typed
<1>4. ASSUME NEW x \in PoolCallers, PoolHearAnswer(x) PROVE Typed'
  <2>1. ChannelsTyped'
    BY <1>4, ClearFacts DEF PoolHearAnswer
  <2>2. ModemsTyped' /\ CallersTyped'
    BY <1>4 DEF PoolHearAnswer, modemVars
  <2> QED
    BY <2>1, <2>2 DEF Typed
<1>5. ASSUME NEW x \in PoolCallers, PoolGiveUp(x) PROVE Typed'
  <2>1. ChannelsTyped'
    BY <1>5, ClearFacts DEF PoolGiveUp, CallerIdle
  <2>2. ModemsTyped' /\ CallersTyped'
    BY <1>5 DEF PoolGiveUp, PoolReclaim, CallerIdle, modemVars
  <2> QED
    BY <2>1, <2>2 DEF Typed
<1>6. ASSUME NEW x \in PoolCallers, CallerHangsUp(x) PROVE Typed'
  <2>1. ChannelsTyped'
    BY <1>6, ClearFacts DEF CallerHangsUp, CallerIdle
  <2>2. ModemsTyped' /\ CallersTyped'
    BY <1>6 DEF CallerHangsUp, CallerIdle, modemVars
  <2> QED
    BY <2>1, <2>2 DEF Typed
<1>7. ASSUME NEW m \in Members, Join(m) PROVE Typed'
  <2>1. ChannelsTyped'
    BY <1>7, KeepFacts DEF Join, callerVars
  <2>2. ModemsTyped' /\ CallersTyped'
    BY <1>7 DEF Join, modemVars, callerVars
  <2> QED
    BY <2>1, <2>2 DEF Typed
<1>8. ASSUME NEW m \in Members, Leave(m) PROVE Typed'
  <2>1. ChannelsTyped'
    BY <1>8, KeepFacts DEF Leave, callerVars
  <2>2. ModemsTyped' /\ CallersTyped'
    BY <1>8 DEF Leave, modemVars, callerVars
  <2> QED
    BY <2>1, <2>2 DEF Typed
<1>9. ASSUME NEW m \in Members, Left(m) PROVE Typed'
  <2>1. ChannelsTyped'
    BY <1>9, KeepFacts DEF Left, callerVars
  <2>2. ModemsTyped' /\ CallersTyped'
    BY <1>9 DEF Left, callerVars
  <2> QED
    BY <2>1, <2>2 DEF Typed
<1>10. ASSUME NEW m \in Members, TakeCall(m) PROVE Typed'
  <2>1. ChannelsTyped'
    BY <1>10, KeepFacts DEF TakeCall, callerVars
  <2>2. ModemsTyped' /\ CallersTyped'
    BY <1>10 DEF TakeCall, CanAnswer, callerVars
  <2> QED
    BY <2>1, <2>2 DEF Typed
<1>11. ASSUME NEW m \in Members, MemberRings(m) PROVE Typed'
  <2>1. ChannelsTyped'
    BY <1>11, SendsFacts DEF MemberRings, Bytes
  <2>2. ModemsTyped' /\ CallersTyped'
    BY <1>11 DEF MemberRings
  <2> QED
    BY <2>1, <2>2 DEF Typed
<1>12. ASSUME NEW m \in Members, AnswerIncoming(m) PROVE Typed'
  <2>1. ChannelsTyped'
    BY <1>12, SendsFacts DEF AnswerIncoming, Bytes
  <2>2. ModemsTyped' /\ CallersTyped'
    BY <1>12 DEF AnswerIncoming
  <2> QED
    BY <2>1, <2>2 DEF Typed
<1>13. ASSUME NEW m \in Members, DialOut(m) PROVE Typed'
  <2>1. ChannelsTyped'
    BY <1>13, KeepFacts DEF DialOut, callerVars
  <2>2. ModemsTyped' /\ CallersTyped'
    BY <1>13, PoolAssumption DEF DialOut, callerVars
  <2> QED
    BY <2>1, <2>2 DEF Typed
<1>14. ASSUME NEW m \in Members, MemberEscape(m) PROVE Typed'
  <2>1. ChannelsTyped'
    BY <1>14, KeepFacts DEF MemberEscape, callerVars
  <2>2. ModemsTyped' /\ CallersTyped'
    BY <1>14 DEF MemberEscape, callerVars
  <2> QED
    BY <2>1, <2>2 DEF Typed
<1>15. ASSUME NEW m \in Members, MemberReturn(m) PROVE Typed'
  <2>1. ChannelsTyped'
    BY <1>15, KeepFacts DEF MemberReturn, callerVars
  <2>2. ModemsTyped' /\ CallersTyped'
    BY <1>15 DEF MemberReturn, callerVars
  <2> QED
    BY <2>1, <2>2 DEF Typed
<1>16. ASSUME NEW m \in Members, Hangup(m) PROVE Typed'
  <2>1. ChannelsTyped'
    BY <1>16, KeepFacts DEF Hangup, callerVars
  <2>2. ModemsTyped' /\ CallersTyped'
    BY <1>16 DEF Hangup, callerVars
  <2> QED
    BY <2>1, <2>2 DEF Typed
<1> QED
  BY <1>1, <1>2, <1>3, <1>4, <1>5, <1>6, <1>7, <1>8, <1>9, <1>10, <1>11,
     <1>12, <1>13, <1>14, <1>15, <1>16
     DEF PoolNext, PoolCallerStep, MemberStep

\* A caller keeps to its own call, and its channel is emptied with it.
LEMMA StepOwner ==
  ASSUME Typed, OwnerInv, PoolNext
  PROVE  OwnerInv'
<1> USE CallFacts DEF Typed, ModemsTyped, CallersTyped, OwnerInv, PoolReceiverAlive
<1>1. ASSUME NEW x \in PoolCallers, Check(x) PROVE OwnerInv'
  BY <1>1 DEF Check, modemVars
<1>2. ASSUME NEW x \in PoolCallers, Place(x) PROVE OwnerInv'
  <2>1. CASE PlaceRefused(x)
    BY <1>2, <2>1, ClearFacts, KeepFacts DEF Place, PlaceRefused, CallerIdle, modemVars
  <2>2. ASSUME NEW c \in PoolFresh(x), PlaceDone(x, c) PROVE OwnerInv'
    <3>1. /\ c \in PoolCalls /\ Caller(c) = x /\ poolSlot # c /\ placed[x] # c
          /\ \A m \in Members : incoming[m] # c /\ link[m] # c
      BY FreshFacts
    <3> QED
      BY <1>2, <2>2, <3>1, ClearFacts, KeepFacts DEF Place, PlaceDone, modemVars
  <2> QED
    BY <1>2, <2>1, <2>2, PlaceCases
<1>3. ASSUME NEW x \in PoolCallers, PoolHearRing(x) PROVE OwnerInv'
  <2>1. \A y \in PoolCallers : heard'[y] # heard[y] => y = x
    BY <1>3, ReadFacts DEF PoolHearRing
  <2> QED
    BY <1>3, <2>1 DEF PoolHearRing, modemVars
<1>4. ASSUME NEW x \in PoolCallers, PoolHearAnswer(x) PROVE OwnerInv'
  <2>1. heard'[x] = <<>> /\ \A y \in PoolCallers : y # x => heard'[y] = heard[y]
    BY <1>4, ClearFacts DEF PoolHearAnswer
  <2> QED
    BY <1>4, <2>1 DEF PoolHearAnswer, modemVars
<1>5. ASSUME NEW x \in PoolCallers, PoolGiveUp(x) PROVE OwnerInv'
  <2>1. heard'[x] = <<>> /\ \A y \in PoolCallers : y # x => heard'[y] = heard[y]
    BY <1>5, ClearFacts DEF PoolGiveUp, CallerIdle
  <2> QED
    BY <1>5, <2>1 DEF PoolGiveUp, PoolReclaim, CallerIdle, modemVars
<1>6. ASSUME NEW x \in PoolCallers, CallerHangsUp(x) PROVE OwnerInv'
  <2>1. heard'[x] = <<>> /\ \A y \in PoolCallers : y # x => heard'[y] = heard[y]
    BY <1>6, ClearFacts DEF CallerHangsUp, CallerIdle
  <2> QED
    BY <1>6, <2>1 DEF CallerHangsUp, CallerIdle, modemVars
<1>7. ASSUME NEW m \in Members, Join(m) PROVE OwnerInv'
  BY <1>7 DEF Join, modemVars, callerVars
<1>8. ASSUME NEW m \in Members, Leave(m) PROVE OwnerInv'
  BY <1>8 DEF Leave, modemVars, callerVars
<1>9. ASSUME NEW m \in Members, Left(m) PROVE OwnerInv'
  BY <1>9 DEF Left, callerVars
<1>10. ASSUME NEW m \in Members, TakeCall(m) PROVE OwnerInv'
  BY <1>10 DEF TakeCall, CanAnswer, callerVars
<1>11. ASSUME NEW m \in Members, MemberRings(m) PROVE OwnerInv'
  <2>1. \A y \in PoolCallers : heard'[y] # heard[y] => caller[y] = "calling"
    BY <1>11, SendsFacts DEF MemberRings, Bytes
  <2> QED
    BY <1>11, <2>1 DEF MemberRings
<1>12. ASSUME NEW m \in Members, AnswerIncoming(m) PROVE OwnerInv'
  <2>1. \A y \in PoolCallers : heard'[y] # heard[y] => caller[y] = "calling"
    BY <1>12, SendsFacts DEF AnswerIncoming, Bytes
  <2> QED
    BY <1>12, <2>1 DEF AnswerIncoming
<1>13. ASSUME NEW m \in Members, DialOut(m) PROVE OwnerInv'
  BY <1>13 DEF DialOut, callerVars
<1>14. ASSUME NEW m \in Members, MemberEscape(m) PROVE OwnerInv'
  BY <1>14 DEF MemberEscape, callerVars
<1>15. ASSUME NEW m \in Members, MemberReturn(m) PROVE OwnerInv'
  BY <1>15 DEF MemberReturn, callerVars
<1>16. ASSUME NEW m \in Members, Hangup(m) PROVE OwnerInv'
  BY <1>16 DEF Hangup, callerVars
<1> QED
  BY <1>1, <1>2, <1>3, <1>4, <1>5, <1>6, <1>7, <1>8, <1>9, <1>10, <1>11,
     <1>12, <1>13, <1>14, <1>15, <1>16
     DEF PoolNext, PoolCallerStep, MemberStep

\* No caller leaves a call behind: one that hears an answer has none waiting.
LEMMA StepStale ==
  ASSUME Typed, OwnerInv, NoStalePoolCall, AnswerInv, PoolNext
  PROVE  NoStalePoolCall'
<1> USE CallFacts
       DEF Typed, ModemsTyped, CallersTyped, OwnerInv, PoolReceiverAlive, NoStalePoolCall, AnswerInv,
           Settled
<1>1. ASSUME NEW x \in PoolCallers, Check(x) PROVE NoStalePoolCall'
  BY <1>1 DEF Check, modemVars
<1>2. ASSUME NEW x \in PoolCallers, Place(x) PROVE NoStalePoolCall'
  <2>1. CASE PlaceRefused(x)
    BY <1>2, <2>1 DEF Place, PlaceRefused, CallerIdle, modemVars
  <2>2. ASSUME NEW c \in PoolFresh(x), PlaceDone(x, c) PROVE NoStalePoolCall'
    <3>1. /\ c \in PoolCalls /\ Caller(c) = x /\ poolSlot # c /\ placed[x] # c
          /\ \A m \in Members : incoming[m] # c /\ link[m] # c
      BY FreshFacts
    <3> QED
      BY <1>2, <2>2, <3>1 DEF Place, PlaceDone, modemVars
  <2> QED
    BY <1>2, <2>1, <2>2, PlaceCases
<1>3. ASSUME NEW x \in PoolCallers, PoolHearRing(x) PROVE NoStalePoolCall'
  BY <1>3 DEF PoolHearRing, modemVars
<1>4. ASSUME NEW x \in PoolCallers, PoolHearAnswer(x) PROVE NoStalePoolCall'
  <2>1. Told(heard[x])
    BY <1>4, TailFacts DEF PoolHearAnswer, ChannelsTyped
  <2> QED
    BY <1>4, <2>1 DEF PoolHearAnswer, modemVars
<1>5. ASSUME NEW x \in PoolCallers, PoolGiveUp(x) PROVE NoStalePoolCall'
  BY <1>5 DEF PoolGiveUp, PoolReclaim, CallerIdle, modemVars
<1>6. ASSUME NEW x \in PoolCallers, CallerHangsUp(x) PROVE NoStalePoolCall'
  BY <1>6 DEF CallerHangsUp, CallerIdle, modemVars
<1>7. ASSUME NEW m \in Members, Join(m) PROVE NoStalePoolCall'
  BY <1>7 DEF Join, modemVars, callerVars
<1>8. ASSUME NEW m \in Members, Leave(m) PROVE NoStalePoolCall'
  BY <1>8 DEF Leave, modemVars, callerVars
<1>9. ASSUME NEW m \in Members, Left(m) PROVE NoStalePoolCall'
  BY <1>9 DEF Left, callerVars
<1>10. ASSUME NEW m \in Members, TakeCall(m) PROVE NoStalePoolCall'
  BY <1>10 DEF TakeCall, CanAnswer, callerVars
<1>11. ASSUME NEW m \in Members, MemberRings(m) PROVE NoStalePoolCall'
  BY <1>11 DEF MemberRings
<1>12. ASSUME NEW m \in Members, AnswerIncoming(m) PROVE NoStalePoolCall'
  BY <1>12 DEF AnswerIncoming
<1>13. ASSUME NEW m \in Members, DialOut(m) PROVE NoStalePoolCall'
  BY <1>13 DEF DialOut, callerVars
<1>14. ASSUME NEW m \in Members, MemberEscape(m) PROVE NoStalePoolCall'
  BY <1>14 DEF MemberEscape, callerVars
<1>15. ASSUME NEW m \in Members, MemberReturn(m) PROVE NoStalePoolCall'
  BY <1>15 DEF MemberReturn, callerVars
<1>16. ASSUME NEW m \in Members, Hangup(m) PROVE NoStalePoolCall'
  BY <1>16 DEF Hangup, callerVars
<1> QED
  BY <1>1, <1>2, <1>3, <1>4, <1>5, <1>6, <1>7, <1>8, <1>9, <1>10, <1>11,
     <1>12, <1>13, <1>14, <1>15, <1>16
     DEF PoolNext, PoolCallerStep, MemberStep

\* No step gives a call to a second member.
LEMMA StepOne ==
  ASSUME Typed, OwnerInv, NoStalePoolCall, OneMember, PoolNext
  PROVE  OneMember'
<1> USE CallFacts
       DEF Typed, ModemsTyped, CallersTyped, OwnerInv, PoolReceiverAlive, NoStalePoolCall, OneMember
<1>1. ASSUME NEW x \in PoolCallers, Check(x) PROVE OneMember'
  BY <1>1 DEF Check, modemVars
<1>2. ASSUME NEW x \in PoolCallers, Place(x) PROVE OneMember'
  <2>1. CASE PlaceRefused(x)
    BY <1>2, <2>1 DEF Place, PlaceRefused, CallerIdle, modemVars
  <2>2. ASSUME NEW c \in PoolFresh(x), PlaceDone(x, c) PROVE OneMember'
    <3>1. /\ c \in PoolCalls /\ Caller(c) = x /\ poolSlot # c /\ placed[x] # c
          /\ \A m \in Members : incoming[m] # c /\ link[m] # c
      BY FreshFacts
    <3> QED
      BY <1>2, <2>2, <3>1 DEF Place, PlaceDone, modemVars
  <2> QED
    BY <1>2, <2>1, <2>2, PlaceCases
<1>3. ASSUME NEW x \in PoolCallers, PoolHearRing(x) PROVE OneMember'
  BY <1>3 DEF PoolHearRing, modemVars
<1>4. ASSUME NEW x \in PoolCallers, PoolHearAnswer(x) PROVE OneMember'
  BY <1>4 DEF PoolHearAnswer, modemVars
<1>5. ASSUME NEW x \in PoolCallers, PoolGiveUp(x) PROVE OneMember'
  BY <1>5 DEF PoolGiveUp, PoolReclaim, CallerIdle, modemVars
<1>6. ASSUME NEW x \in PoolCallers, CallerHangsUp(x) PROVE OneMember'
  BY <1>6 DEF CallerHangsUp, CallerIdle, modemVars
<1>7. ASSUME NEW m \in Members, Join(m) PROVE OneMember'
  BY <1>7 DEF Join, modemVars, callerVars
<1>8. ASSUME NEW m \in Members, Leave(m) PROVE OneMember'
  BY <1>8 DEF Leave, modemVars, callerVars
<1>9. ASSUME NEW m \in Members, Left(m) PROVE OneMember'
  BY <1>9 DEF Left, callerVars
<1>10. ASSUME NEW m \in Members, TakeCall(m) PROVE OneMember'
  BY <1>10 DEF TakeCall, CanAnswer, callerVars
<1>11. ASSUME NEW m \in Members, MemberRings(m) PROVE OneMember'
  BY <1>11 DEF MemberRings
<1>12. ASSUME NEW m \in Members, AnswerIncoming(m) PROVE OneMember'
  BY <1>12 DEF AnswerIncoming
<1>13. ASSUME NEW m \in Members, DialOut(m) PROVE OneMember'
  BY <1>13 DEF DialOut, callerVars
<1>14. ASSUME NEW m \in Members, MemberEscape(m) PROVE OneMember'
  BY <1>14 DEF MemberEscape, callerVars
<1>15. ASSUME NEW m \in Members, MemberReturn(m) PROVE OneMember'
  BY <1>15 DEF MemberReturn, callerVars
<1>16. ASSUME NEW m \in Members, Hangup(m) PROVE OneMember'
  BY <1>16 DEF Hangup, callerVars
<1> QED
  BY <1>1, <1>2, <1>3, <1>4, <1>5, <1>6, <1>7, <1>8, <1>9, <1>10, <1>11,
     <1>12, <1>13, <1>14, <1>15, <1>16
     DEF PoolNext, PoolCallerStep, MemberStep

\* A connected caller's call stays settled.
LEMMA StepConn ==
  ASSUME Typed, OwnerInv, NoStalePoolCall, AnswerInv, PoolConnectedIsAnswered, PoolNext
  PROVE  PoolConnectedIsAnswered'
<1> USE CallFacts
       DEF Typed, ModemsTyped, CallersTyped, OwnerInv, PoolReceiverAlive, NoStalePoolCall, AnswerInv,
           PoolConnectedIsAnswered, Settled
<1>1. ASSUME NEW x \in PoolCallers, Check(x) PROVE PoolConnectedIsAnswered'
  BY <1>1 DEF Check, modemVars
<1>2. ASSUME NEW x \in PoolCallers, Place(x) PROVE PoolConnectedIsAnswered'
  <2>1. CASE PlaceRefused(x)
    BY <1>2, <2>1 DEF Place, PlaceRefused, CallerIdle, modemVars
  <2>2. ASSUME NEW c \in PoolFresh(x), PlaceDone(x, c) PROVE PoolConnectedIsAnswered'
    <3>1. /\ c \in PoolCalls /\ Caller(c) = x /\ poolSlot # c /\ placed[x] # c
          /\ \A m \in Members : incoming[m] # c /\ link[m] # c
      BY FreshFacts
    <3> QED
      BY <1>2, <2>2, <3>1 DEF Place, PlaceDone, modemVars
  <2> QED
    BY <1>2, <2>1, <2>2, PlaceCases
<1>3. ASSUME NEW x \in PoolCallers, PoolHearRing(x) PROVE PoolConnectedIsAnswered'
  BY <1>3 DEF PoolHearRing, modemVars
<1>4. ASSUME NEW x \in PoolCallers, PoolHearAnswer(x) PROVE PoolConnectedIsAnswered'
  <2>1. Told(heard[x])
    BY <1>4, TailFacts DEF PoolHearAnswer, ChannelsTyped
  <2> QED
    BY <1>4, <2>1 DEF PoolHearAnswer, modemVars
<1>5. ASSUME NEW x \in PoolCallers, PoolGiveUp(x) PROVE PoolConnectedIsAnswered'
  BY <1>5 DEF PoolGiveUp, PoolReclaim, CallerIdle, modemVars
<1>6. ASSUME NEW x \in PoolCallers, CallerHangsUp(x) PROVE PoolConnectedIsAnswered'
  BY <1>6 DEF CallerHangsUp, CallerIdle, modemVars
<1>7. ASSUME NEW m \in Members, Join(m) PROVE PoolConnectedIsAnswered'
  BY <1>7 DEF Join, modemVars, callerVars
<1>8. ASSUME NEW m \in Members, Leave(m) PROVE PoolConnectedIsAnswered'
  BY <1>8 DEF Leave, modemVars, callerVars
<1>9. ASSUME NEW m \in Members, Left(m) PROVE PoolConnectedIsAnswered'
  BY <1>9 DEF Left, callerVars
<1>10. ASSUME NEW m \in Members, TakeCall(m) PROVE PoolConnectedIsAnswered'
  BY <1>10 DEF TakeCall, CanAnswer, callerVars
<1>11. ASSUME NEW m \in Members, MemberRings(m) PROVE PoolConnectedIsAnswered'
  BY <1>11 DEF MemberRings
<1>12. ASSUME NEW m \in Members, AnswerIncoming(m) PROVE PoolConnectedIsAnswered'
  BY <1>12 DEF AnswerIncoming
<1>13. ASSUME NEW m \in Members, DialOut(m) PROVE PoolConnectedIsAnswered'
  BY <1>13 DEF DialOut, callerVars
<1>14. ASSUME NEW m \in Members, MemberEscape(m) PROVE PoolConnectedIsAnswered'
  BY <1>14 DEF MemberEscape, callerVars
<1>15. ASSUME NEW m \in Members, MemberReturn(m) PROVE PoolConnectedIsAnswered'
  BY <1>15 DEF MemberReturn, callerVars
<1>16. ASSUME NEW m \in Members, Hangup(m) PROVE PoolConnectedIsAnswered'
  BY <1>16 DEF Hangup, callerVars
<1> QED
  BY <1>1, <1>2, <1>3, <1>4, <1>5, <1>6, <1>7, <1>8, <1>9, <1>10, <1>11,
     <1>12, <1>13, <1>14, <1>15, <1>16
     DEF PoolNext, PoolCallerStep, MemberStep

\* A call is settled when its answer is sent, and stays so until it is heard.
LEMMA StepAnswer ==
  ASSUME Typed, OwnerInv, NoStalePoolCall, OneMember, AnswerInv, PoolNext
  PROVE  AnswerInv'
<1> USE CallFacts
       DEF Typed, ModemsTyped, CallersTyped, OwnerInv, PoolReceiverAlive, NoStalePoolCall, OneMember,
           AnswerInv, Settled
<1>1. ASSUME NEW x \in PoolCallers, Check(x) PROVE AnswerInv'
  BY <1>1 DEF Check, modemVars
<1>2. ASSUME NEW x \in PoolCallers, Place(x) PROVE AnswerInv'
  <2>1. CASE PlaceRefused(x)
    BY <1>2, <2>1, ClearFacts, KeepFacts, EmptyFacts DEF Place, PlaceRefused, CallerIdle, modemVars
  <2>2. ASSUME NEW c \in PoolFresh(x), PlaceDone(x, c) PROVE AnswerInv'
    <3>1. /\ c \in PoolCalls /\ Caller(c) = x /\ poolSlot # c /\ placed[x] # c
          /\ \A m \in Members : incoming[m] # c /\ link[m] # c
      BY FreshFacts
    <3> QED
      BY <1>2, <2>2, <3>1, ClearFacts, KeepFacts, EmptyFacts DEF Place, PlaceDone, modemVars
  <2> QED
    BY <1>2, <2>1, <2>2, PlaceCases
<1>3. ASSUME NEW x \in PoolCallers, PoolHearRing(x) PROVE AnswerInv'
  <2>1. \A y \in PoolCallers : Told(heard'[y]) => Told(heard[y])
    BY <1>3, ReadFacts DEF PoolHearRing
  <2> QED
    BY <1>3, <2>1 DEF PoolHearRing, modemVars
<1>4. ASSUME NEW x \in PoolCallers, PoolHearAnswer(x) PROVE AnswerInv'
  <2>1. \A y \in PoolCallers : Told(heard'[y]) => Told(heard[y])
    BY <1>4, ClearFacts DEF PoolHearAnswer
  <2> QED
    BY <1>4, <2>1 DEF PoolHearAnswer, modemVars
<1>5. ASSUME NEW x \in PoolCallers, PoolGiveUp(x) PROVE AnswerInv'
  <2>1. \A y \in PoolCallers : Told(heard'[y]) => Told(heard[y])
    BY <1>5, ClearFacts DEF PoolGiveUp, CallerIdle
  <2> QED
    BY <1>5, <2>1 DEF PoolGiveUp, PoolReclaim, CallerIdle, modemVars
<1>6. ASSUME NEW x \in PoolCallers, CallerHangsUp(x) PROVE AnswerInv'
  <2>1. \A y \in PoolCallers : Told(heard'[y]) => Told(heard[y])
    BY <1>6, ClearFacts DEF CallerHangsUp, CallerIdle
  <2> QED
    BY <1>6, <2>1 DEF CallerHangsUp, CallerIdle, modemVars
<1>7. ASSUME NEW m \in Members, Join(m) PROVE AnswerInv'
  BY <1>7 DEF Join, modemVars, callerVars
<1>8. ASSUME NEW m \in Members, Leave(m) PROVE AnswerInv'
  BY <1>8 DEF Leave, modemVars, callerVars
<1>9. ASSUME NEW m \in Members, Left(m) PROVE AnswerInv'
  BY <1>9 DEF Left, callerVars
<1>10. ASSUME NEW m \in Members, TakeCall(m) PROVE AnswerInv'
  BY <1>10 DEF TakeCall, CanAnswer, callerVars
<1>11. ASSUME NEW m \in Members, MemberRings(m) PROVE AnswerInv'
  <2>1. \A y \in PoolCallers : Told(heard'[y]) => Told(heard[y])
    BY <1>11, SendsFacts DEF MemberRings, Bytes, Rang, Answered
  <2> QED
    BY <1>11, <2>1 DEF MemberRings
<1>12. ASSUME NEW m \in Members, AnswerIncoming(m) PROVE AnswerInv'
  <2>1. \A y \in PoolCallers :
          Told(heard'[y]) => Told(heard[y]) \/ (y = Caller(incoming[m]) /\ placed[y] = incoming[m])
    BY <1>12, SendsFacts DEF AnswerIncoming, Bytes
  <2>2. poolSlot' # incoming[m] /\ \A n \in Members : incoming'[n] # incoming[m]
    BY <1>12 DEF AnswerIncoming
  <2> QED
    BY <1>12, <2>1, <2>2 DEF AnswerIncoming
<1>13. ASSUME NEW m \in Members, DialOut(m) PROVE AnswerInv'
  BY <1>13 DEF DialOut, callerVars
<1>14. ASSUME NEW m \in Members, MemberEscape(m) PROVE AnswerInv'
  BY <1>14 DEF MemberEscape, callerVars
<1>15. ASSUME NEW m \in Members, MemberReturn(m) PROVE AnswerInv'
  BY <1>15 DEF MemberReturn, callerVars
<1>16. ASSUME NEW m \in Members, Hangup(m) PROVE AnswerInv'
  BY <1>16 DEF Hangup, callerVars
<1> QED
  BY <1>1, <1>2, <1>3, <1>4, <1>5, <1>6, <1>7, <1>8, <1>9, <1>10, <1>11,
     <1>12, <1>13, <1>14, <1>15, <1>16
     DEF PoolNext, PoolCallerStep, MemberStep

-----------------------------------------------------------------------------
(* Theorems.                                                                *)

\* The invariant holds at the start.
LEMMA InitInv == PoolInit => Inv
<1> SUFFICES ASSUME PoolInit PROVE Inv
  OBVIOUS
<1>1. PoolTyped
  <2>1. Listening = {}
    BY DEF PoolInit, Listening
  <2> QED
    BY <2>1, FS_EmptySet DEF PoolInit, PoolTyped
<1>2. Typed
  BY EmptyFacts, PoolAssumption DEF PoolInit, Typed, ModemsTyped, CallersTyped, ChannelsTyped
<1>3. OwnerInv /\ NoStalePoolCall /\ OneMember /\ PoolConnectedIsAnswered
  BY CallFacts DEF PoolInit, OwnerInv, NoStalePoolCall, OneMember, PoolConnectedIsAnswered
<1>4. AnswerInv
  BY DEF PoolInit, AnswerInv
<1> QED
  BY <1>1, <1>2, <1>3, <1>4 DEF Inv

\* A step of something else leaves it as it is.
LEMMA StutterInv == Inv /\ UNCHANGED poolVars => Inv'
BY DEF Inv, poolVars, PoolTyped, Listening, Typed, ModemsTyped, CallersTyped, ChannelsTyped, OwnerInv,
       AnswerInv, Settled, NoStalePoolCall, OneMember, PoolConnectedIsAnswered, PoolReceiverAlive

\* The pool is counted and its calls are where they should be, whoever dials,
\* joins, answers, gives up or leaves (request_cpm_call, CpmSlotGuard).
THEOREM Invariance == PoolSpec => []Inv
<1>1. Inv /\ [PoolNext]_poolVars => Inv'
  <2>1. Inv /\ PoolNext => Inv'
    BY StepPool, StepTyped, StepOwner, StepAnswer, StepStale, StepOne, StepConn DEF Inv
  <2> QED
    BY <2>1, StutterInv
<1> QED
  BY <1>1, InitInv, PTL DEF PoolSpec

\* The count of listeners is the number of members, no call is left behind and
\* nobody is connected who was not answered, for any number of sessions and
\* callers (cpm_peer_listen_enter, CpmSlotGuard, await_peer_outcome).
THEOREM CallsSoundHolds == PoolSpec => []PoolCallsSound
<1>1. Inv => PoolCallsSound
  BY TypedIsTypeOK DEF Inv, PoolCallsSound
<1> QED
  BY <1>1, Invariance, PTL

\* A step on the waiting call, as PoolCallKept has it.
KeepsCall ==
  poolSlot # NoCall /\ poolSlot' # poolSlot =>
    \/ \E m \in Members : incoming'[m] = poolSlot
    \/ caller'[Caller(poolSlot)] # "calling"
    \/ \E m \in Members : member[m] = "last" /\ member'[m] = "out"

\* No caller's guard removes the call of another, and but for the last member's
\* leaving only a member that takes it does (take_if_mine, cpm_peer_listen_exit).
THEOREM CallKeptHolds == PoolSpec => PoolCallKept
<1>1. Inv /\ [PoolNext]_poolVars => [KeepsCall]_poolVars
  <2> SUFFICES ASSUME Inv, PoolNext PROVE KeepsCall
    OBVIOUS
  <2> USE CallFacts DEF Inv, PoolTyped, Typed, ModemsTyped, CallersTyped, OwnerInv, NoStalePoolCall,
                    PoolReceiverAlive, KeepsCall
  <2>1. ASSUME NEW x \in PoolCallers, Check(x) PROVE KeepsCall
    BY <2>1 DEF Check
  <2>2. ASSUME NEW x \in PoolCallers, Place(x) PROVE KeepsCall
    BY <2>2, PlaceCases DEF PlaceRefused, PlaceDone
  <2>3. ASSUME NEW x \in PoolCallers, PoolHearRing(x) PROVE KeepsCall
    BY <2>3 DEF PoolHearRing
  <2>4. ASSUME NEW x \in PoolCallers, PoolHearAnswer(x) PROVE KeepsCall
    BY <2>4 DEF PoolHearAnswer
  <2>5. ASSUME NEW x \in PoolCallers, PoolGiveUp(x) PROVE KeepsCall
    BY <2>5 DEF PoolGiveUp, PoolReclaim, CallerIdle
  <2>6. ASSUME NEW x \in PoolCallers, CallerHangsUp(x) PROVE KeepsCall
    BY <2>6 DEF CallerHangsUp
  <2>7. ASSUME NEW m \in Members, Join(m) PROVE KeepsCall
    BY <2>7 DEF Join
  <2>8. ASSUME NEW m \in Members, Leave(m) PROVE KeepsCall
    BY <2>8 DEF Leave
  <2>9. ASSUME NEW m \in Members, Left(m) PROVE KeepsCall
    BY <2>9 DEF Left
  <2>10. ASSUME NEW m \in Members, TakeCall(m) PROVE KeepsCall
    BY <2>10 DEF TakeCall
  <2>11. ASSUME NEW m \in Members, MemberRings(m) PROVE KeepsCall
    BY <2>11 DEF MemberRings
  <2>12. ASSUME NEW m \in Members, AnswerIncoming(m) PROVE KeepsCall
    BY <2>12 DEF AnswerIncoming
  <2>13. ASSUME NEW m \in Members, DialOut(m) PROVE KeepsCall
    BY <2>13 DEF DialOut
  <2>14. ASSUME NEW m \in Members, MemberEscape(m) PROVE KeepsCall
    BY <2>14 DEF MemberEscape
  <2>15. ASSUME NEW m \in Members, MemberReturn(m) PROVE KeepsCall
    BY <2>15 DEF MemberReturn
  <2>16. ASSUME NEW m \in Members, Hangup(m) PROVE KeepsCall
    BY <2>16 DEF Hangup
  <2> QED
    BY <2>1, <2>2, <2>3, <2>4, <2>5, <2>6, <2>7, <2>8, <2>9, <2>10,
       <2>11, <2>12, <2>13, <2>14, <2>15, <2>16
       DEF PoolNext, PoolCallerStep, MemberStep
<1>2. PoolCallKept <=> [][KeepsCall]_poolVars
  BY DEF PoolCallKept, KeepsCall
<1> QED
  BY <1>1, <1>2, Invariance, PTL DEF PoolSpec

\* A step on the members' connections, as CallNotReplaced has it.
NotReplaced ==
  \A m \in Members :
    link[m] # NoCall /\ link'[m] \notin {link[m], NoCall} =>
      link[m] = Outgoing /\ link'[m] = incoming[m]

\* No member's call is replaced by another, for any number of sessions and callers
\* (can_answer, answer_incoming).
THEOREM CallNotReplacedHolds == PoolSpec => CallNotReplaced
<1>1. Inv /\ [PoolNext]_poolVars => [NotReplaced]_poolVars
  <2> SUFFICES ASSUME Inv, PoolNext PROVE NotReplaced
    OBVIOUS
  <2>1. ModemsTyped /\ OneMember
    BY DEF Inv, Typed
  <2>2. CASE link' = link
    BY <2>2 DEF NotReplaced
  <2>3. ASSUME NEW m \in Members, AnswerIncoming(m) PROVE NotReplaced
    BY <2>1, <2>3 DEF ModemsTyped, OneMember, AnswerIncoming, NotReplaced
  <2>4. ASSUME NEW m \in Members, Left(m) \/ DialOut(m) \/ Hangup(m) PROVE NotReplaced
    BY <2>1, <2>4 DEF ModemsTyped, Left, DialOut, Hangup, NotReplaced
  <2>5. \/ link' = link
        \/ \E m \in Members : AnswerIncoming(m) \/ Left(m) \/ DialOut(m) \/ Hangup(m)
    BY DEF PoolNext, PoolCallerStep, MemberStep, Check, Place, PoolHearRing, PoolHearAnswer, PoolGiveUp, CallerHangsUp,
           Join, Leave, TakeCall, MemberRings, MemberEscape, MemberReturn, modemVars
  <2> QED
    BY <2>2, <2>3, <2>4, <2>5
<1>2. CallNotReplaced <=> [][NotReplaced]_poolVars
  BY DEF CallNotReplaced, NotReplaced
<1> QED
  BY <1>1, <1>2, Invariance, PTL DEF PoolSpec
=============================================================================
