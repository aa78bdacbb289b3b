--------------------------- MODULE AdmissionProofs ---------------------------
(***************************************************************************)
(* Proofs that the limiter, the telnet slots and the SSH pre-login pool of    *)
(* module Admission keep their counts and their limits, for any number of    *)
(* addresses and connections and any limits.  The three share only the step   *)
(* in which a loop asks the limiter, so each has its own invariant.          *)
(***************************************************************************)
EXTENDS Admission, FiniteSetTheorems, TLAPS

-----------------------------------------------------------------------------
(* The invariants, part by part.                                            *)

Stamp == [n : Nat, age : Ages]

RateTyped ==
  /\ rateMax \in RateMaxes /\ window \in RateWindows
  /\ seen \in [Addrs -> SUBSET Stamp] /\ letIn \in [Addrs -> SUBSET Stamp]
  /\ \A a \in Addrs : IsFiniteSet(seen[a]) /\ IsFiniteSet(letIn[a])

RateInv == RateTyped /\ OnlyLetInCounts

Live == {c \in TConns : tconn[c] # "none"}

\* The slots are exact, and a connection past the cap's test has a slot free.
TelnetInv ==
  /\ tloop \in Loops
  /\ tconn \in [TConns -> {"none", "door", "bye", "in"}] /\ stuck \subseteq TConns
  /\ count = Cardinality(Live) + (IF tloop.s \in {"over", "check"} THEN 1 ELSE 0)
  /\ Cardinality(Live) <= MaxSessions
  /\ tloop.s = "check" => Cardinality(Live) < MaxSessions

SshTyped ==
  /\ sloop \in Loops
  /\ sconn \in [SConns -> {"none", "hello", "auth", "in", "ended"}]
  /\ addr \in [SConns -> Addrs]
  /\ released \in [SConns -> BOOLEAN]
  /\ giving \subseteq SConns
  /\ total \in Nat /\ byKey \in [Keys -> Nat]

\* A place is released by a login or an end, the end always releases, and only
\* a released place is on its way back.
ReleaseInv ==
  \A c \in SConns :
    /\ released[c] => sconn[c] \in {"in", "ended"}
    /\ sconn[c] = "ended" => released[c]
    /\ c \in giving => released[c]

HoldersAt(k) == {c \in Holders : KeyOf[addr[c]] = k}

SshInv == SshTyped /\ ReleaseInv /\ PlacesExact

Inv == RateInv /\ TelnetInv /\ SshInv

\* The parts are the module's own properties.
LEMMA InvFacts == Inv => PlacesSound /\ OnlyLetInCounts
<1> SUFFICES ASSUME Inv PROVE PlacesSound /\ OnlyLetInCounts
  OBVIOUS
<1>1. IsFiniteSet(Live) /\ Cardinality(Live) \in Nat
  BY AdmissionAssumption, FS_Subset, FS_CardinalityType DEF Live
<1>2. AdmissionTypeOK
  <2>1. count \in Nat
    BY <1>1 DEF Inv, TelnetInv
  <2>2. \A a \in Addrs : \A s \in {seen[a], letIn[a]} : s \subseteq [n : Nat, age : Ages] /\ IsFiniteSet(s)
    BY DEF Inv, RateInv, RateTyped, Stamp
  <2> QED
    BY <2>1, <2>2 DEF Inv, RateInv, RateTyped, TelnetInv, SshInv, SshTyped, AdmissionTypeOK
<1>3. TelnetSlotsExact
  BY DEF Inv, TelnetInv, TelnetSlotsExact, Live
<1> QED
  BY <1>2, <1>3 DEF Inv, RateInv, SshInv, PlacesSound

-----------------------------------------------------------------------------
(* The rate limiter.                                                        *)

\* The ages of a finite set of stamps grow, and it gets no larger.
LEMMA AgedFacts ==
  ASSUME NEW S \in SUBSET Stamp, IsFiniteSet(S)
  PROVE  /\ Aged(S) \in SUBSET Stamp
         /\ IsFiniteSet(Aged(S)) /\ Cardinality(Aged(S)) <= Cardinality(S)
<1> DEFINE Older(e) == [e EXCEPT !.age = IF @ < AgeCap THEN @ + 1 ELSE @]
           f == [e \in S |-> Older(e)]
<1>1. ASSUME NEW e \in Stamp PROVE Older(e) \in Stamp
  BY AdmissionAssumption DEF Stamp, Ages
<1>2. Aged(S) \in SUBSET Stamp
  BY <1>1 DEF Aged
<1>3. f \in [S -> Aged(S)] /\ \A t \in Aged(S) : \E e \in S : f[e] = t
  BY DEF Aged
<1>4. f \in Surjection(S, Aged(S))
  BY <1>3 DEF Surjection
<1> QED
  BY <1>2, <1>4, FS_Surjection

\* What is recent after a tick was recent before it.
LEMMA RecentAged ==
  ASSUME NEW S \in SUBSET Stamp, window \in RateWindows
  PROVE  Recent(Aged(Recent(S))) = Recent(Aged(S))
<1>1. ASSUME NEW t \in Recent(Aged(S)) PROVE t \in Recent(Aged(Recent(S)))
  <2>1. PICK e \in S : t = [e EXCEPT !.age = IF @ < AgeCap THEN @ + 1 ELSE @]
    BY DEF Recent, Aged
  <2>2. e.age < window
    BY <2>1, AdmissionAssumption DEF Recent, Stamp, Ages
  <2> QED
    BY <2>1, <2>2 DEF Recent, Aged
<1> QED
  BY <1>1 DEF Recent, Aged

\* What is recent is a finite part.
LEMMA RecentFacts ==
  ASSUME NEW S \in SUBSET Stamp, IsFiniteSet(S)
  PROVE  /\ Recent(S) \in SUBSET Stamp /\ Recent(Recent(S)) = Recent(S)
         /\ IsFiniteSet(Recent(S)) /\ Cardinality(Recent(S)) <= Cardinality(S)
<1>1. Recent(S) \in SUBSET S
  BY DEF Recent
<1> QED
  BY <1>1, FS_Subset DEF Recent

\* The sweep of old addresses removes nothing that counts.
LEMMA SweptFacts ==
  ASSUME RateTyped
  PROVE  /\ Swept \in [Addrs -> SUBSET Stamp]
         /\ \A a \in Addrs : IsFiniteSet(Swept[a]) /\ Recent(Swept[a]) = Recent(seen[a])
<1>1. \A a \in Addrs : Swept[a] = IF \E e \in seen[a] : e.age < window THEN seen[a] ELSE {}
  BY DEF Swept
<1>2. \A a \in Addrs : Swept[a] \in SUBSET Stamp /\ IsFiniteSet(Swept[a])
  BY <1>1, FS_EmptySet DEF RateTyped
<1>3. \A a \in Addrs : Recent(Swept[a]) = Recent(seen[a])
  BY <1>1 DEF Recent
<1> QED
  BY <1>2, <1>3 DEF Swept

\* A connection asked about is counted among those let in, and stored only then.
LEMMA NoteFacts ==
  ASSUME RateInv, NEW a \in Addrs, NEW let \in BOOLEAN, NoteConnection(a, let), UNCHANGED <<rateMax, window>>
  PROVE  /\ RateInv'
         /\ \A b \in Addrs : letIn'[b] # letIn[b] => Cardinality(letIn'[b]) <= rateMax
<1> DEFINE held == Recent(Swept[a])
<1>1. /\ held \in SUBSET Stamp /\ IsFiniteSet(held) /\ Recent(held) = held
      /\ held = letIn[a]
  BY SweptFacts, RecentFacts DEF RateInv, OnlyLetInCounts
<1>2. rateMax \in Nat /\ Cardinality(held) \in Nat
  BY <1>1, AdmissionAssumption, FS_CardinalityType DEF RateInv, RateTyped
<1>3. CASE let
  <2>1. Cardinality(held) < rateMax
    BY <1>3 DEF NoteConnection
  <2>2. PICK e \in Stamps(held) :
          /\ seen' = [Swept EXCEPT ![a] = held \cup {e}]
          /\ letIn' = [letIn EXCEPT ![a] = letIn[a] \cup {e}]
    BY <1>3 DEF NoteConnection
  <2>3. e \in Stamp /\ e.age < window
    BY <1>2, AdmissionAssumption DEF Stamps, Stamp, Ages, RateInv, RateTyped
  <2>4. Recent(held \cup {e}) = held \cup {e}
    BY <1>1, <2>3 DEF Recent
  <2>5. IsFiniteSet(held \cup {e}) /\ Cardinality(held \cup {e}) <= Cardinality(held) + 1
    <3>1. /\ IsFiniteSet(held \cup {e})
          /\ Cardinality(held \cup {e}) = IF e \in held THEN Cardinality(held) ELSE Cardinality(held) + 1
      BY <1>1, FS_AddElement
    <3> HIDE DEF held
    <3> QED
      BY <1>2, <3>1
  <2>6. /\ seen' \in [Addrs -> SUBSET Stamp] /\ letIn' \in [Addrs -> SUBSET Stamp]
        /\ seen'[a] = held \cup {e} /\ letIn'[a] = held \cup {e}
        /\ \A b \in Addrs : b # a => seen'[b] = Swept[b] /\ letIn'[b] = letIn[b]
    BY <1>1, <2>2, <2>3, SweptFacts DEF RateInv, RateTyped
  <2>7. RateTyped'
    BY <2>5, <2>6, SweptFacts DEF RateInv, RateTyped
  <2>8. OnlyLetInCounts'
    BY <1>1, <2>4, <2>6, SweptFacts DEF RateInv, OnlyLetInCounts, Recent
  <2>9. Cardinality(held \cup {e}) <= rateMax
    <3>1. Cardinality(held \cup {e}) \in Nat
      BY <2>5, FS_CardinalityType
    <3> QED
      BY <1>2, <2>1, <2>5, <3>1
  <2> QED
    BY <2>6, <2>7, <2>8, <2>9 DEF RateInv
<1>4. CASE ~let
  <2>1. seen' = [Swept EXCEPT ![a] = held] /\ letIn' = letIn
    BY <1>4 DEF NoteConnection
  <2>2. /\ seen' \in [Addrs -> SUBSET Stamp] /\ seen'[a] = held
        /\ \A b \in Addrs : b # a => seen'[b] = Swept[b]
    BY <1>1, <2>1, SweptFacts DEF RateInv
  <2> QED
    BY <1>1, <2>1, <2>2, SweptFacts DEF RateInv, RateTyped, OnlyLetInCounts, Recent
<1> QED
  BY <1>3, <1>4

\* Time passes for what is stored and what was let in alike.
LEMMA TickFacts ==
  ASSUME RateInv, RateTick
  PROVE  /\ RateInv'
         /\ \A a \in Addrs : Cardinality(letIn'[a]) <= Cardinality(letIn[a])
<1>1. ASSUME NEW a \in Addrs
      PROVE  /\ seen'[a] \in SUBSET Stamp /\ IsFiniteSet(seen'[a])
             /\ letIn'[a] \in SUBSET Stamp /\ IsFiniteSet(letIn'[a])
             /\ Recent(seen'[a]) = letIn'[a]
             /\ Cardinality(letIn'[a]) <= Cardinality(letIn[a])
  <2>1. /\ seen[a] \in SUBSET Stamp /\ IsFiniteSet(seen[a])
        /\ letIn[a] \in SUBSET Stamp /\ IsFiniteSet(letIn[a]) /\ letIn[a] = Recent(seen[a])
    BY DEF RateInv, RateTyped, OnlyLetInCounts
  <2>2. seen'[a] = Aged(seen[a]) /\ letIn'[a] = Recent(Aged(letIn[a]))
    BY DEF RateTick
  <2>3. /\ Aged(seen[a]) \in SUBSET Stamp /\ IsFiniteSet(Aged(seen[a]))
        /\ Aged(letIn[a]) \in SUBSET Stamp /\ IsFiniteSet(Aged(letIn[a]))
        /\ Cardinality(Aged(letIn[a])) <= Cardinality(letIn[a])
    BY <2>1, AgedFacts
  <2>4. /\ letIn'[a] \in SUBSET Stamp /\ IsFiniteSet(letIn'[a])
        /\ Cardinality(letIn'[a]) <= Cardinality(Aged(letIn[a]))
    BY <2>2, <2>3, RecentFacts
  <2>5. Recent(seen'[a]) = letIn'[a]
    BY <2>1, <2>2, RecentAged DEF RateInv, RateTyped
  <2>6. /\ Cardinality(letIn'[a]) \in Nat /\ Cardinality(Aged(letIn[a])) \in Nat
        /\ Cardinality(letIn[a]) \in Nat
    BY <2>1, <2>3, <2>4, FS_CardinalityType
  <2> QED
    BY <2>2, <2>3, <2>4, <2>5, <2>6
<1>2. /\ seen' \in [Addrs -> SUBSET Stamp] /\ letIn' \in [Addrs -> SUBSET Stamp]
  BY <1>1 DEF RateTick
<1>3. rateMax' \in RateMaxes /\ window' = window /\ window \in RateWindows
  BY DEF RateTick, RateInv, RateTyped
<1> QED
  BY <1>1, <1>2, <1>3 DEF RateInv, RateTyped, OnlyLetInCounts, Recent

\* A step asks the limiter, changes the limit, lets time pass or does none of it.
LEMMA RateSteps ==
  ASSUME AdmissionNext
  PROVE  \/ RateTick
         \/ SetRate \/ SetWindow
         \/ \E a \in Addrs, let \in BOOLEAN : NoteConnection(a, let) /\ UNCHANGED <<rateMax, window>>
         \/ UNCHANGED rate
<1>1. ASSUME NEW a \in Addrs, TelnetAccept(a) \/ SshAccept(a)
      PROVE  \/ \E let \in BOOLEAN : NoteConnection(a, let) /\ UNCHANGED <<rateMax, window>>
             \/ UNCHANGED rate
  BY <1>1 DEF TelnetAccept, SshAccept, Limiter, rate
<1>2. ASSUME NEW c \in TConns,
             \/ TelnetSpawn(c) \/ TelnetIn(c) \/ TelnetStuck(c)
             \/ TelnetDeadline(c) \/ TelnetBye(c) \/ TelnetEnd(c)
      PROVE  UNCHANGED rate
  BY <1>2
     DEF TelnetSpawn, TelnetIn, TelnetStuck, TelnetDeadline, TelnetBye, TelnetEnd, TelnetGone, rate
<1>3. ASSUME NEW c \in SConns,
             \/ SshAdmit(c) \/ SshHello(c) \/ SshLoggedIn(c) \/ SshDeadline(c) \/ SshEnd(c)
             \/ GiveBack(c) \/ SshForget(c)
      PROVE  UNCHANGED rate
  BY <1>3
     DEF SshAdmit, SshHello, SshLoggedIn, SshDeadline, SshEnd, SshDrop, GiveBack, SshForget, rate
<1>4. ASSUME TelnetClaim \/ TelnetOver \/ TelnetBarred \/ SshFull PROVE UNCHANGED rate
  BY <1>4 DEF TelnetClaim, TelnetOver, TelnetBarred, SshFull, rate
<1> QED
  BY <1>1, <1>2, <1>3, <1>4 DEF AdmissionNext

\* A step of RateKept.
RateStep ==
  \A a \in Addrs :
    window' = window /\ Cardinality(letIn'[a]) > Cardinality(letIn[a]) =>
      Cardinality(letIn'[a]) <= rateMax

\* Every step keeps the limiter's count and lets nobody in beyond the limit.
LEMMA StepRate ==
  ASSUME RateInv, AdmissionNext
  PROVE  RateInv' /\ RateStep
<1>1. \A a \in Addrs : Cardinality(letIn[a]) \in Nat
  BY FS_CardinalityType DEF RateInv, RateTyped
<1>2. CASE RateTick
  <2>1. RateInv' /\ \A a \in Addrs : Cardinality(letIn'[a]) <= Cardinality(letIn[a])
    BY <1>2, TickFacts
  <2>2. \A a \in Addrs : Cardinality(letIn'[a]) \in Nat
    BY <2>1, FS_CardinalityType DEF RateInv, RateTyped
  <2> QED
    BY <1>1, <2>1, <2>2 DEF RateStep
<1>3. CASE SetRate \/ UNCHANGED rate
  <2>1. /\ letIn' = letIn /\ seen' = seen /\ rateMax' \in RateMaxes
        /\ window' = window /\ window \in RateWindows
    BY <1>3 DEF SetRate, rate, RateInv, RateTyped
  <2> QED
    BY <1>1, <2>1 DEF RateInv, RateTyped, OnlyLetInCounts, RateStep, Recent
<1>5. CASE SetWindow
  <2>1. /\ seen' = seen /\ rateMax' = rateMax /\ window' \in RateWindows /\ window' # window
        /\ letIn' = [a \in Addrs |-> {e \in seen[a] : e.age < window'}]
    BY <1>5 DEF SetWindow
  <2>2. \A a \in Addrs : letIn'[a] \in SUBSET seen[a] /\ Recent(seen[a])' = letIn'[a]
    BY <2>1 DEF Recent
  <2>3. \A a \in Addrs : letIn'[a] \in SUBSET Stamp /\ IsFiniteSet(letIn'[a])
    BY <2>2, FS_Subset DEF RateInv, RateTyped
  <2>4. RateTyped'
    BY <2>1, <2>3 DEF RateInv, RateTyped
  <2> QED
    BY <2>1, <2>2, <2>4 DEF RateInv, OnlyLetInCounts, RateStep
<1>4. ASSUME NEW a \in Addrs, NEW let \in BOOLEAN, NoteConnection(a, let), UNCHANGED <<rateMax, window>>
      PROVE  RateInv' /\ RateStep
  BY <1>1, <1>4, NoteFacts DEF RateStep
<1> QED
  BY <1>2, <1>3, <1>4, <1>5, RateSteps

-----------------------------------------------------------------------------
(* The telnet slots.                                                        *)

\* The live connections are finitely many; one more, or one fewer, counts so.
LEMMA LiveFacts ==
  /\ IsFiniteSet(Live) /\ Cardinality(Live) \in Nat
  /\ \A c \in TConns \ Live : Cardinality(Live \cup {c}) = Cardinality(Live) + 1
  /\ \A c \in Live : Cardinality(Live \ {c}) = Cardinality(Live) - 1
<1>1. IsFiniteSet(Live)
  BY AdmissionAssumption, FS_Subset DEF Live
<1>2. Cardinality(Live) \in Nat
  BY <1>1, FS_CardinalityType
<1>3. ASSUME NEW c \in TConns \ Live PROVE Cardinality(Live \cup {c}) = Cardinality(Live) + 1
  BY <1>1, FS_AddElement
<1>4. ASSUME NEW c \in Live PROVE Cardinality(Live \ {c}) = Cardinality(Live) - 1
  BY <1>1, FS_RemoveElement
<1> QED
  BY <1>1, <1>2, <1>3, <1>4

\* The resting loop is a loop.
LEMMA AcceptingFacts ==
  /\ Accepting \in Loops /\ Accepting.s = "accept" /\ Accepting.addr \in Addrs
  /\ [Accepting EXCEPT !.s = "over"] \in Loops /\ [Accepting EXCEPT !.s = "over"].s = "over"
<1>1. (CHOOSE a \in Addrs : TRUE) \in Addrs
  BY AdmissionAssumption
<1> QED
  BY <1>1 DEF Accepting, Loops

\* Steps that touch nothing of the telnet listener.
LEMMA TelnetSteps ==
  ASSUME AdmissionNext
  PROVE  \/ TelnetClaim \/ TelnetOver \/ TelnetBarred
         \/ \E a \in Addrs : TelnetAccept(a)
         \/ \E c \in TConns :
              \/ TelnetSpawn(c) \/ TelnetIn(c) \/ TelnetStuck(c)
              \/ TelnetDeadline(c) \/ TelnetBye(c) \/ TelnetEnd(c)
         \/ UNCHANGED telnet
<1>1. ASSUME NEW c \in SConns,
             \/ SshAdmit(c) \/ SshHello(c) \/ SshLoggedIn(c) \/ SshDeadline(c) \/ SshEnd(c)
             \/ GiveBack(c) \/ SshForget(c)
      PROVE  UNCHANGED telnet
  BY <1>1 DEF SshAdmit, SshHello, SshLoggedIn, SshDeadline, SshEnd, SshDrop, GiveBack, SshForget
<1>2. ASSUME RateTick \/ SetRate \/ SetWindow \/ SshFull \/ \E a \in Addrs : SshAccept(a) PROVE UNCHANGED telnet
  BY <1>2 DEF RateTick, SetRate, SetWindow, SshFull, SshAccept
<1> QED
  BY <1>1, <1>2 DEF AdmissionNext

\* The end of a session gives its one slot back.
LEMMA GoneFacts ==
  ASSUME TelnetInv, NEW c \in TConns, tconn[c] # "none", TelnetGone(c)
  PROVE  TelnetInv'
<1>1. c \in Live /\ Live' = Live \ {c}
  BY DEF TelnetGone, TelnetInv, Live
<1>2. tconn' \in [TConns -> {"none", "door", "bye", "in"}] /\ stuck' \subseteq TConns
  BY DEF TelnetGone, TelnetInv
<1>3. Cardinality(Live') = Cardinality(Live) - 1 /\ Cardinality(Live) \in Nat
  BY <1>1, LiveFacts
<1>4. count' = count - 1 /\ tloop' = tloop
  BY DEF TelnetGone
<1> QED
  BY <1>2, <1>3, <1>4, AdmissionAssumption DEF TelnetInv

\* Every step keeps the slots: the loop's claim is a slot or is rolled back, and
\* a session's slot goes back with it.
LEMMA StepTelnet ==
  ASSUME TelnetInv, AdmissionNext
  PROVE  TelnetInv'
<1> USE AdmissionAssumption, LiveFacts, AcceptingFacts
<1>1. ASSUME UNCHANGED <<tconn, stuck>> PROVE Live' = Live
  BY <1>1 DEF Live
<1>2. ASSUME NEW a \in Addrs, TelnetAccept(a) PROVE TelnetInv'
  <2>1. Live' = Live /\ UNCHANGED <<count, tconn, stuck>>
    BY <1>1, <1>2 DEF TelnetAccept
  <2>2. tloop' \in Loops /\ tloop.s = "accept" /\ tloop'.s \in {"accept", "claim"}
    BY <1>2 DEF TelnetAccept, TelnetInv, Loops
  <2> QED
    BY <2>1, <2>2 DEF TelnetInv
<1>3. CASE TelnetClaim
  <2>1. Live' = Live /\ UNCHANGED <<tconn, stuck>> /\ count' = count + 1 /\ tloop.s = "claim"
    BY <1>1, <1>3 DEF TelnetClaim
  <2>2. CASE count >= MaxSessions
    BY <1>3, <2>1, <2>2 DEF TelnetClaim, TelnetInv
  <2>3. CASE ~(count >= MaxSessions)
    <3>1. tloop' \in Loops /\ tloop'.s = "check"
      BY <1>3, <2>3 DEF TelnetClaim, TelnetInv, Loops
    <3> QED
      BY <2>1, <2>3, <3>1 DEF TelnetInv
  <2> QED
    BY <2>2, <2>3
<1>4. CASE TelnetOver \/ TelnetBarred
  <2>1. Live' = Live /\ UNCHANGED <<tconn, stuck>> /\ count' = count - 1 /\ tloop' = Accepting
    BY <1>1, <1>4 DEF TelnetOver, TelnetBarred
  <2>2. tloop.s \in {"over", "check"}
    BY <1>4 DEF TelnetOver, TelnetBarred
  <2> QED
    BY <2>1, <2>2 DEF TelnetInv
<1>5. ASSUME NEW c \in TConns, TelnetSpawn(c) PROVE TelnetInv'
  <2>1. c \in TConns \ Live /\ Live' = Live \cup {c}
    BY <1>5 DEF TelnetSpawn, TelnetInv, Live
  <2>2. tconn' \in [TConns -> {"none", "door", "bye", "in"}] /\ stuck' \subseteq TConns
    BY <1>5 DEF TelnetSpawn, TelnetInv
  <2>3. Cardinality(Live') = Cardinality(Live) + 1
    BY <2>1
  <2> QED
    BY <1>5, <2>2, <2>3 DEF TelnetSpawn, TelnetInv
<1>6. ASSUME NEW c \in TConns, TelnetIn(c) \/ TelnetStuck(c) \/ TelnetDeadline(c) PROVE TelnetInv'
  <2>1. Live' = Live /\ UNCHANGED <<count, tloop>>
    BY <1>6 DEF TelnetIn, TelnetStuck, TelnetDeadline, TelnetInv, Live
  <2>2. tconn' \in [TConns -> {"none", "door", "bye", "in"}] /\ stuck' \subseteq TConns
    BY <1>6 DEF TelnetIn, TelnetStuck, TelnetDeadline, TelnetInv
  <2> QED
    BY <2>1, <2>2 DEF TelnetInv
<1>7. ASSUME NEW c \in TConns, TelnetBye(c) \/ TelnetEnd(c) PROVE TelnetInv'
  BY <1>7, GoneFacts DEF TelnetBye, TelnetEnd
<1>8. CASE UNCHANGED telnet
  BY <1>1, <1>8 DEF telnet, TelnetInv
<1> QED
  BY <1>2, <1>3, <1>4, <1>5, <1>6, <1>7, <1>8, TelnetSteps

-----------------------------------------------------------------------------
(* The pre-login pool.                                                      *)

\* What of PlacesExact counts connections; HoldersAt names its sets.
LEMMA PlacesFacts ==
  PlacesExact <=>
    /\ total = Cardinality(Holders)
    /\ \A k \in Keys : byKey[k] = Cardinality(HoldersAt(k))
    /\ total <= MaxPreLogin
    /\ \A k \in Keys : byKey[k] <= MaxPerAddr
BY DEF PlacesExact, HoldersAt

\* The holders are finitely many, in total and of each key.
LEMMA HoldersFacts ==
  /\ IsFiniteSet(Holders) /\ Cardinality(Holders) \in Nat
  /\ \A k \in Keys : IsFiniteSet(HoldersAt(k)) /\ Cardinality(HoldersAt(k)) \in Nat
<1>1. IsFiniteSet(Holders)
  BY AdmissionAssumption, FS_Subset DEF Holders
<1>2. \A k \in Keys : IsFiniteSet(HoldersAt(k))
  BY <1>1, FS_Subset DEF HoldersAt
<1> QED
  BY <1>1, <1>2, FS_CardinalityType

\* Steps that leave the holders and their addresses alone keep the places.
LEMMA SameHolders ==
  ASSUME SshInv, Holders' = Holders, UNCHANGED <<total, byKey>>,
         \A c \in Holders : addr'[c] = addr[c]
  PROVE  PlacesExact'
<1>1. \A k \in Keys : HoldersAt(k)' = HoldersAt(k)
  BY DEF HoldersAt
<1> QED
  BY <1>1 DEF SshInv, PlacesExact, HoldersAt

\* Steps that touch nothing of the SSH listener.
LEMMA SshSteps ==
  ASSUME AdmissionNext
  PROVE  \/ SshFull
         \/ \E a \in Addrs : SshAccept(a)
         \/ \E c \in SConns :
              \/ SshAdmit(c) \/ SshHello(c) \/ SshLoggedIn(c) \/ SshDeadline(c) \/ SshEnd(c)
              \/ GiveBack(c) \/ SshForget(c)
         \/ UNCHANGED ssh
<1>1. ASSUME NEW c \in TConns,
             \/ TelnetSpawn(c) \/ TelnetIn(c) \/ TelnetStuck(c)
             \/ TelnetDeadline(c) \/ TelnetBye(c) \/ TelnetEnd(c)
      PROVE  UNCHANGED ssh
  BY <1>1 DEF TelnetSpawn, TelnetIn, TelnetStuck, TelnetDeadline, TelnetBye, TelnetEnd, TelnetGone
<1>2. ASSUME \/ RateTick \/ SetRate \/ SetWindow \/ TelnetClaim \/ TelnetOver \/ TelnetBarred
             \/ \E a \in Addrs : TelnetAccept(a)
      PROVE  UNCHANGED ssh
  BY <1>2 DEF RateTick, SetRate, SetWindow, TelnetClaim, TelnetOver, TelnetBarred, TelnetAccept
<1> QED
  BY <1>1, <1>2 DEF AdmissionNext

\* A claim adds one holder, at the key of its address, below both limits.
LEMMA AdmitFacts ==
  ASSUME SshInv, NEW c \in SConns, SshAdmit(c)
  PROVE  SshInv'
<1> DEFINE k0 == KeyOf[sloop.addr]
<1>1. sloop.addr \in Addrs /\ k0 \in Keys
  BY DEF SshInv, SshTyped, Loops, Keys
<1>2. SshTyped'
  <2>1. byKey' \in [Keys -> Nat] /\ total' \in Nat
    BY <1>1 DEF SshAdmit, SshInv, SshTyped
  <2> QED
    BY <1>1, <2>1, AcceptingFacts DEF SshAdmit, SshInv, SshTyped
<1>3. released[c] = FALSE
  BY DEF SshAdmit, SshInv, SshTyped, ReleaseInv
<1>4. ReleaseInv'
  BY <1>3 DEF SshAdmit, SshInv, SshTyped, ReleaseInv
<1>5. Holders' = Holders \cup {c} /\ c \notin Holders
  BY <1>3 DEF SshAdmit, SshInv, SshTyped, Holders
<1>6. \A k \in Keys : HoldersAt(k)' = IF k = k0 THEN HoldersAt(k) \cup {c} ELSE HoldersAt(k)
  BY <1>1, <1>5 DEF SshAdmit, SshInv, SshTyped, HoldersAt, Holders
<1>7. Cardinality(Holders') = Cardinality(Holders) + 1
  BY <1>5, HoldersFacts, FS_AddElement
<1>8. \A k \in Keys : c \notin HoldersAt(k)
  BY <1>5 DEF HoldersAt
<1>9. Cardinality(HoldersAt(k0) \cup {c}) = Cardinality(HoldersAt(k0)) + 1
  BY <1>1, <1>8, HoldersFacts, FS_AddElement
<1>10. \A k \in Keys : byKey'[k] = Cardinality(HoldersAt(k)') /\ byKey'[k] <= MaxPerAddr
  <2>1. \A k \in Keys : byKey[k] = Cardinality(HoldersAt(k)) /\ byKey[k] <= MaxPerAddr
    BY PlacesFacts DEF SshInv
  <2>2. /\ byKey[k0] < MaxPerAddr /\ byKey[k0] \in Nat
        /\ \A k \in Keys : byKey'[k] = IF k = k0 THEN byKey[k] + 1 ELSE byKey[k]
    BY <1>1 DEF SshAdmit, SshInv, SshTyped
  <2>3. ASSUME NEW k \in Keys, k = k0
        PROVE  byKey'[k] = Cardinality(HoldersAt(k)') /\ byKey'[k] <= MaxPerAddr
    <3>1. byKey'[k] = Cardinality(HoldersAt(k) \cup {c})
      BY <1>1, <1>9, <2>1, <2>2, <2>3
    <3>2. byKey[k] + 1 <= MaxPerAddr
      BY <2>2, <2>3, AdmissionAssumption
    <3> QED
      BY <1>6, <2>2, <2>3, <3>1, <3>2
  <2>4. ASSUME NEW k \in Keys, k # k0
        PROVE  byKey'[k] = Cardinality(HoldersAt(k)') /\ byKey'[k] <= MaxPerAddr
    BY <1>6, <2>1, <2>2, <2>4
  <2> QED
    BY <2>3, <2>4
<1>11. total' = Cardinality(Holders') /\ total' <= MaxPreLogin
  BY <1>7, AdmissionAssumption DEF SshAdmit, SshInv, SshTyped, PlacesExact
<1> QED
  BY <1>2, <1>4, <1>10, <1>11 DEF SshInv, PlacesExact, HoldersAt

\* A place given back removes one holder, at the key of its address.
LEMMA GiveBackFacts ==
  ASSUME SshInv, NEW c \in SConns, GiveBack(c)
  PROVE  SshInv'
<1> DEFINE k0 == KeyOf[addr[c]]
<1>1. k0 \in Keys
  BY DEF SshInv, SshTyped, Keys
<1>2. c \in Holders /\ released[c] = TRUE
  BY DEF GiveBack, SshInv, SshTyped, ReleaseInv, Holders
<1>3. SshTyped'
  <2>1. byKey' \in [Keys -> Nat] /\ total' \in Nat
    BY <1>1 DEF GiveBack, SshInv, SshTyped
  <2> QED
    BY <2>1 DEF GiveBack, SshInv, SshTyped
<1>4. ReleaseInv'
  BY DEF GiveBack, SshInv, SshTyped, ReleaseInv
<1>5. Holders' = Holders \ {c}
  BY <1>2 DEF GiveBack, SshInv, SshTyped, Holders
<1>6. \A k \in Keys : HoldersAt(k)' = IF k = k0 THEN HoldersAt(k) \ {c} ELSE HoldersAt(k)
  BY <1>1, <1>5 DEF GiveBack, SshInv, SshTyped, HoldersAt
<1>7. Cardinality(Holders') = Cardinality(Holders) - 1
  BY <1>2, <1>5, HoldersFacts, FS_RemoveElement
<1>8. c \in HoldersAt(k0)
  BY <1>2 DEF HoldersAt
<1>9. Cardinality(HoldersAt(k0) \ {c}) = Cardinality(HoldersAt(k0)) - 1
  BY <1>1, <1>8, HoldersFacts, FS_RemoveElement
<1>10. /\ Cardinality(Holders') \in Nat
       /\ Cardinality(HoldersAt(k0) \ {c}) \in Nat
  BY <1>1, <1>5, HoldersFacts, FS_RemoveElement, FS_CardinalityType
<1>11. \A k \in Keys : byKey'[k] = Cardinality(HoldersAt(k)') /\ byKey'[k] <= MaxPerAddr
  <2>1. \A k \in Keys : byKey[k] = Cardinality(HoldersAt(k)) /\ byKey[k] <= MaxPerAddr
    BY PlacesFacts DEF SshInv
  <2>2. byKey[k0] \in Nat /\ byKey[k0] > 0
    BY <1>1, <1>9, <1>10, <2>1, HoldersFacts DEF SshInv, SshTyped
  <2>3. \A k \in Keys : byKey'[k] = IF k = k0 THEN byKey[k] - 1 ELSE byKey[k]
    BY <1>1, <2>2 DEF GiveBack, SshInv, SshTyped
  <2>4. ASSUME NEW k \in Keys PROVE byKey'[k] = Cardinality(HoldersAt(k)') /\ byKey'[k] <= MaxPerAddr
    <3>1. CASE k = k0
      <4>1. byKey'[k] = byKey[k] - 1 /\ HoldersAt(k)' = HoldersAt(k) \ {c}
        BY <1>6, <2>3, <3>1
      <4>2. Cardinality(HoldersAt(k) \ {c}) = Cardinality(HoldersAt(k)) - 1
        BY <1>9, <3>1
      <4>3. byKey'[k] = Cardinality(HoldersAt(k)')
        BY <2>1, <4>1, <4>2
      <4>4. byKey[k] \in Nat /\ byKey[k] <= MaxPerAddr /\ MaxPerAddr \in Nat
        BY <2>1, <2>2, <3>1, AdmissionAssumption
      <4>5. byKey'[k] <= MaxPerAddr
        BY <4>1, <4>4
      <4> QED BY <4>3, <4>5
    <3>2. CASE k # k0
      BY <1>6, <2>1, <2>3, <3>2
    <3> QED BY <3>1, <3>2
  <2> QED BY <2>4
<1>12. total' = Cardinality(Holders') /\ total' <= MaxPreLogin
  BY <1>7, <1>10, HoldersFacts, AdmissionAssumption DEF GiveBack, SshInv, SshTyped, PlacesExact
<1> QED
  BY <1>3, <1>4, <1>11, <1>12 DEF SshInv, PlacesExact, HoldersAt

\* A release takes the place to its way back once, by whichever owner is first.
LEMMA ReleaseFacts ==
  ASSUME SshInv, NEW c \in SConns, NEW s \in {"in", "ended"}, sconn[c] \in {"hello", "auth", "in"},
         Release(c), sconn' = [sconn EXCEPT ![c] = s],
         UNCHANGED <<sloop, addr, total, byKey>>
  PROVE  SshInv'
<1>1. SshTyped'
  BY DEF Release, SshInv, SshTyped
<1>2. ReleaseInv'
  BY DEF Release, SshInv, SshTyped, ReleaseInv
<1>3. Holders' = Holders
  <2>1. \A d \in SConns : d # c =>
          sconn'[d] = sconn[d] /\ released'[d] = released[d] /\ (d \in giving' <=> d \in giving)
    BY DEF Release, SshInv, SshTyped
  <2>2. sconn[c] # "none" /\ sconn'[c] # "none" /\ released'[c] = TRUE
    BY DEF Release, SshInv, SshTyped
  <2>3. c \in giving' <=> c \in giving \/ released[c] = FALSE
    BY DEF Release, SshInv, SshTyped
  <2> QED
    BY <2>1, <2>2, <2>3 DEF Holders, SshInv, SshTyped
<1> QED
  BY <1>1, <1>2, <1>3, SameHolders DEF SshInv

\* Every step keeps the pool's count: a place is given back once.
LEMMA StepSsh ==
  ASSUME SshInv, AdmissionNext
  PROVE  SshInv'
<1> USE AcceptingFacts
<1>1. ASSUME sloop' \in Loops, UNCHANGED <<sconn, addr, released, giving, total, byKey>> PROVE SshInv'
  BY <1>1 DEF SshInv, SshTyped, ReleaseInv, PlacesExact, Holders
<1>2. ASSUME SshFull \/ UNCHANGED ssh \/ \E a \in Addrs : SshAccept(a) PROVE SshInv'
  <2>1. sloop' \in Loops /\ UNCHANGED <<sconn, addr, released, giving, total, byKey>>
    BY <1>2 DEF SshFull, SshAccept, ssh, SshInv, SshTyped, Loops
  <2> QED
    BY <1>1, <2>1
<1>3. ASSUME NEW c \in SConns, SshHello(c) PROVE SshInv'
  <2>1. SshTyped' /\ ReleaseInv'
    BY <1>3 DEF SshHello, SshInv, SshTyped, ReleaseInv
  <2>2. Holders' = Holders
    BY <1>3 DEF SshHello, SshInv, SshTyped, Holders
  <2> QED
    BY <1>3, <2>1, <2>2, SameHolders DEF SshHello, SshInv
<1>4. ASSUME NEW c \in SConns, SshLoggedIn(c) \/ SshDeadline(c) \/ SshEnd(c) PROVE SshInv'
  BY <1>4, ReleaseFacts DEF SshLoggedIn, SshDeadline, SshEnd, SshDrop
<1>5. ASSUME NEW c \in SConns, SshForget(c) PROVE SshInv'
  <2>1. SshTyped'
    BY <1>5 DEF SshForget, SshInv, SshTyped
  <2>2. ReleaseInv'
    BY <1>5 DEF SshForget, SshInv, SshTyped, ReleaseInv
  <2>3. c \notin Holders
    BY <1>5 DEF SshForget, SshInv, ReleaseInv, Holders
  <2>4. Holders' = Holders
    BY <1>5, <2>3 DEF SshForget, SshInv, SshTyped, Holders
  <2>5. \A d \in Holders : addr'[d] = addr[d]
    BY <1>5, <2>3 DEF SshForget, SshInv, SshTyped, Holders
  <2> QED
    BY <1>5, <2>1, <2>2, <2>4, <2>5, SameHolders DEF SshForget, SshInv
<1> QED
  BY <1>2, <1>3, <1>4, <1>5, AdmitFacts, GiveBackFacts, SshSteps

-----------------------------------------------------------------------------
(* Theorems.                                                                *)

\* The invariant holds at the start.
LEMMA InitInv == AdmissionInit => Inv
<1> SUFFICES ASSUME AdmissionInit PROVE Inv
  OBVIOUS
<1>1. RateInv
  BY FS_EmptySet DEF AdmissionInit, RateInv, RateTyped, OnlyLetInCounts, Recent
<1>2. Live = {} /\ Holders = {}
  BY DEF AdmissionInit, Live, Holders
<1>3. TelnetInv
  BY <1>2, FS_EmptySet, AcceptingFacts, AdmissionAssumption DEF AdmissionInit, TelnetInv
<1>4. SshTyped /\ ReleaseInv
  BY AcceptingFacts DEF AdmissionInit, SshTyped, ReleaseInv
<1>5. PlacesExact
  BY <1>2, FS_EmptySet, AdmissionAssumption DEF AdmissionInit, PlacesExact
<1> QED
  BY <1>1, <1>3, <1>4, <1>5 DEF Inv, SshInv

\* A step of something else leaves it as it is.
LEMMA StutterInv == Inv /\ UNCHANGED admissionVars => Inv'
<1> SUFFICES ASSUME Inv, UNCHANGED admissionVars PROVE Inv'
  OBVIOUS
<1>1. RateInv'
  BY DEF Inv, admissionVars, rate, RateInv, RateTyped, OnlyLetInCounts, Recent
<1>2. TelnetInv'
  BY DEF Inv, admissionVars, telnet, TelnetInv, Live
<1>3. SshInv'
  BY DEF Inv, admissionVars, ssh, SshInv, SshTyped, ReleaseInv, PlacesExact, Holders
<1> QED
  BY <1>1, <1>2, <1>3 DEF Inv

\* The counts of the limiter, the slots and the pool are exact, whatever the two
\* accept loops, the sessions and the clock do between their steps.
THEOREM Invariance == AdmissionSpec => []Inv
<1>1. Inv /\ [AdmissionNext]_admissionVars => Inv'
  BY StepRate, StepTelnet, StepSsh, StutterInv DEF Inv
<1> QED
  BY <1>1, InitInv, PTL DEF AdmissionSpec

\* A telnet slot and an SSH pre-login place are given back exactly once on every
\* path and no cap is passed, for any caps and any number of connections
\* (SessionSlotGuard, PreLogin).
THEOREM PlacesSoundHolds == AdmissionSpec => []PlacesSound
BY Invariance, InvFacts, PTL

\* What counts against an address is exactly what it was let in by: refusals and
\* the sweep cost it nothing and give it nothing (note_connection).
THEOREM OnlyLetInCountsHolds == AdmissionSpec => []OnlyLetInCounts
BY Invariance, InvFacts, PTL

\* No address passes the limiter more often in a window than the limit in force,
\* over both listeners, however the operator changes it and, from each change of it
\* on, the window (note_connection).
THEOREM RateKeptHolds == AdmissionSpec => RateKept
<1>1. Inv /\ [AdmissionNext]_admissionVars => [RateStep]_admissionVars
  BY StepRate DEF Inv
<1>2. RateKept <=> [][RateStep]_admissionVars
  BY DEF RateKept, RateStep
<1> QED
  BY <1>1, <1>2, Invariance, PTL DEF AdmissionSpec
=============================================================================
