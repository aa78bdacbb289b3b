----------------------------- MODULE LoginProofs -----------------------------
(***************************************************************************)
(* Proofs that the shared lockout and the per-address turn of module Login   *)
(* keep their promises for any number of connections, addresses and locks.  *)
(***************************************************************************)
EXTENDS Login, TLAPS

HasMutex == {"wait", "check", "reply"}
HoldsTurn == {"check", "reply"}

\* A connection refers to a mutex exactly while it waits for it or holds it,
\* and the map still has that very mutex for its address: the sweep only drops
\* what nobody refers to.
RefsInv ==
  \A c \in Conns :
    /\ at[c] \in HasMutex <=> mutex[c] # NoLock
    /\ mutex[c] # NoLock => turns[AddrOf[c]] = mutex[c]

\* Who has passed the mutex owns it.
OwnerInv == \A c \in Conns : at[c] \in HoldsTurn => owner[mutex[c]] = c

\* A connection still at its login has a guess left.
TriesInv == \A c \in Conns : at[c] \notin {"closed", "in"} => tries[c] < MaxAttempts

Inv ==
  /\ LoginTypeOK
  /\ RefsInv /\ OwnerInv /\ TriesInv
  /\ NoCheckWhileLockedOut /\ GuessesBounded

\* The mutual exclusion of the turn follows from the two facts on mutexes.
LEMMA InvExclusive ==
  ASSUME LoginTypeOK, RefsInv, OwnerInv
  PROVE  TurnExclusive
BY LoginAssumption DEF LoginTypeOK, RefsInv, OwnerInv, TurnExclusive, HasMutex, HoldsTurn

\* The initial states satisfy the invariant.
LEMMA InitInv == LoginInit => Inv
<1> SUFFICES ASSUME LoginInit PROVE Inv
  OBVIOUS
<1>1. LoginTypeOK
  BY LoginAssumption DEF LoginInit, LoginTypeOK, Pcs
<1>2. RefsInv /\ OwnerInv /\ TriesInv
  BY LoginAssumption DEF LoginInit, RefsInv, OwnerInv, TriesInv, HasMutex, HoldsTurn
<1>3. NoCheckWhileLockedOut /\ GuessesBounded
  BY LoginAssumption DEF LoginInit, NoCheckWhileLockedOut, GuessesBounded, LockedOut
<1> QED
  BY <1>1, <1>2, <1>3 DEF Inv

\* Asking for a turn leaves every other reference valid.
LEMMA AskTurnRefs ==
  ASSUME LoginTypeOK, RefsInv, NEW c \in Conns, AskTurn(c), at[c] = "prompt"
  PROVE  /\ at' \in [Conns -> Pcs]
         /\ turns' \in [Addrs -> Locks \cup {NoLock}]
         /\ mutex' \in [Conns -> Locks \cup {NoLock}]
         /\ RefsInv'
<1> DEFINE a == AddrOf[c]
<1>1. PICK l \in Locks :
        /\ IF SweptTurns[a] # NoLock THEN l = SweptTurns[a]
           ELSE \A b \in Addrs : SweptTurns[b] # l
        /\ turns' = [SweptTurns EXCEPT ![a] = l]
        /\ mutex' = [mutex EXCEPT ![c] = l]
        /\ at' = [at EXCEPT ![c] = "wait"]
  BY DEF AskTurn
<1>2. a \in Addrs /\ SweptTurns \in [Addrs -> Locks \cup {NoLock}]
  BY LoginAssumption DEF LoginTypeOK, SweptTurns
<1>3. at' \in [Conns -> Pcs] /\ mutex' \in [Conns -> Locks \cup {NoLock}]
  BY <1>1 DEF LoginTypeOK, Pcs
<1>4. turns' \in [Addrs -> Locks \cup {NoLock}]
  BY <1>1, <1>2
<1>5. \A d \in Conns : mutex[d] # NoLock => SweptTurns[AddrOf[d]] = mutex[d]
  BY LoginAssumption DEF RefsInv, SweptTurns, Referenced, LoginTypeOK
<1>6. ASSUME NEW d \in Conns
      PROVE  /\ at'[d] \in HasMutex <=> mutex'[d] # NoLock
             /\ mutex'[d] # NoLock => turns'[AddrOf[d]] = mutex'[d]
  <2>1. CASE d = c
    BY <1>1, <1>2, <2>1, LoginAssumption DEF LoginTypeOK, HasMutex
  <2>2. CASE d # c
    <3>1. mutex'[d] = mutex[d] /\ at'[d] = at[d]
      BY <1>1, <2>2 DEF LoginTypeOK
    <3>2. mutex[d] # NoLock => turns'[AddrOf[d]] = mutex[d]
      <4>1. CASE AddrOf[d] = a
        BY <1>1, <1>2, <1>5, <4>1
      <4>2. CASE AddrOf[d] # a
        BY <1>1, <1>2, <1>5, <4>2, LoginAssumption
      <4> QED
        BY <4>1, <4>2
    <3> QED
      BY <3>1, <3>2 DEF RefsInv
  <2> QED
    BY <2>1, <2>2
<1> QED
  BY <1>3, <1>4, <1>6 DEF RefsInv

\* Dropping c's turn, with or without its mutex held, while c leaves the login
\* states, keeps every other connection's.
LEMMA DropTurnRefs ==
  ASSUME LoginTypeOK, RefsInv, OwnerInv, NEW c \in Conns, DropTurn(c), UNCHANGED turns,
         NEW x \in Pcs \ HasMutex, at' = [at EXCEPT ![c] = x]
  PROVE  /\ at' \in [Conns -> Pcs]
         /\ mutex' \in [Conns -> Locks \cup {NoLock}]
         /\ owner' \in [Locks -> Conns \cup {NoConn}]
         /\ RefsInv' /\ OwnerInv'
<1>1. /\ at' \in [Conns -> Pcs]
      /\ mutex' \in [Conns -> Locks \cup {NoLock}]
      /\ owner' \in [Locks -> Conns \cup {NoConn}]
  BY DEF LoginTypeOK, DropTurn
<1>2. RefsInv'
  BY LoginAssumption DEF LoginTypeOK, RefsInv, DropTurn, HasMutex
<1>3. ASSUME NEW d \in Conns, at'[d] \in HoldsTurn
      PROVE  owner'[mutex'[d]] = d
  <2>1. d # c
    BY <1>3 DEF LoginTypeOK, HasMutex, HoldsTurn
  <2>2. at[d] \in HoldsTurn /\ mutex'[d] = mutex[d]
    BY <1>3, <2>1 DEF LoginTypeOK, DropTurn
  <2>3. owner[mutex[d]] = d /\ mutex[d] \in Locks
    BY <2>2, LoginAssumption DEF OwnerInv, RefsInv, LoginTypeOK, HasMutex, HoldsTurn
  <2> QED
    BY <2>1, <2>2, <2>3 DEF DropTurn
<1> QED
  BY <1>1, <1>2, <1>3 DEF OwnerInv

\* Counting a failure for an address that is not locked out stays in bounds and
\* locks no other address out.
LEMMA RecordBounded ==
  ASSUME LoginTypeOK, GuessesBounded, NEW a \in Addrs, ~LockedOut(a), RecordAuthFailure(a)
  PROVE  /\ fails' \in [Addrs -> Nat] /\ age' \in [Addrs -> 0..LockoutWindow]
         /\ GuessesBounded'
         /\ \A b \in Addrs : b # a /\ ~LockedOut(b) => ~LockedOut(b)'
BY LoginAssumption
   DEF LoginTypeOK, GuessesBounded, LockedOut, WithinLockoutWindow, RecordAuthFailure

\* A successful login's clear_lockout locks nobody out.
LEMMA ClearHarmless ==
  ASSUME LoginTypeOK, GuessesBounded, NEW a \in Addrs, ClearLockout(a)
  PROVE  /\ fails' \in [Addrs -> Nat] /\ age' \in [Addrs -> 0..LockoutWindow]
         /\ GuessesBounded'
         /\ \A b \in Addrs : ~LockedOut(b) => ~LockedOut(b)'
BY LoginAssumption
   DEF LoginTypeOK, GuessesBounded, LockedOut, WithinLockoutWindow, ClearLockout

-----------------------------------------------------------------------------
\* Every step of the system keeps the invariant: one case per action.
LEMMA NextInv == Inv /\ [LoginNext]_loginVars => Inv'
<1> SUFFICES ASSUME Inv, [LoginNext]_loginVars PROVE Inv'
  OBVIOUS
<1> USE DEF Inv
<1>0. \A c \in Conns : AddrOf[c] \in Addrs
  BY LoginAssumption
<1>1. CASE UNCHANGED loginVars
  BY <1>1 DEF loginVars, LoginTypeOK, RefsInv, OwnerInv, TriesInv, NoCheckWhileLockedOut,
     GuessesBounded, LockedOut, WithinLockoutWindow
<1>2. CASE LockoutTick
  <2>1. LoginTypeOK' /\ RefsInv' /\ OwnerInv' /\ TriesInv' /\ GuessesBounded'
    BY <1>2, LoginAssumption DEF LockoutTick, LoginTypeOK, RefsInv, OwnerInv, TriesInv, GuessesBounded
  <2>2. NoCheckWhileLockedOut'
    BY <1>0, <1>2, LoginAssumption DEF LockoutTick, LoginTypeOK, NoCheckWhileLockedOut, LockedOut,
       WithinLockoutWindow
  <2> QED
    BY <2>1, <2>2
<1>3. ASSUME NEW c \in Conns, Connect(c) PROVE Inv'
  BY <1>3, LoginAssumption DEF Connect, LoginTypeOK, Pcs, RefsInv, OwnerInv, TriesInv,
     NoCheckWhileLockedOut, GuessesBounded, LockedOut, WithinLockoutWindow,
     HasMutex, HoldsTurn
<1>4. ASSUME NEW c \in Conns, Present(c) PROVE Inv'
  <2>1. AskTurn(c) /\ at[c] = "prompt"
    BY <1>4 DEF Present
  <2>2. LoginTypeOK' /\ RefsInv'
    BY <1>4, <2>1, AskTurnRefs DEF Present, LoginTypeOK
  <2>3. at' = [at EXCEPT ![c] = "wait"] /\ \A d \in Conns : d # c => mutex'[d] = mutex[d]
    BY <2>1 DEF AskTurn, LoginTypeOK
  <2>4. OwnerInv' /\ TriesInv'
    BY <1>4, <2>1, <2>3 DEF Present, LoginTypeOK, OwnerInv, TriesInv, HoldsTurn
  <2>5. NoCheckWhileLockedOut' /\ GuessesBounded'
    BY <1>4, <2>3 DEF Present, LoginTypeOK, NoCheckWhileLockedOut, GuessesBounded,
       LockedOut, WithinLockoutWindow
  <2> QED
    BY <2>2, <2>4, <2>5
<1>5. ASSUME NEW c \in Conns, TakeTurn(c) PROVE Inv'
  <2>1. mutex[c] \in Locks /\ owner[mutex[c]] = NoConn
    BY <1>5, LoginAssumption DEF TakeTurn, LoginTypeOK, RefsInv, HasMutex
  <2>2. LoginTypeOK' /\ RefsInv' /\ TriesInv'
    BY <1>5, <2>1 DEF TakeTurn, LoginTypeOK, Pcs, RefsInv, TriesInv, HasMutex
  <2>3. OwnerInv'
    BY <1>5, <2>1, LoginAssumption DEF TakeTurn, LoginTypeOK, OwnerInv, HoldsTurn
  <2>4. NoCheckWhileLockedOut' /\ GuessesBounded'
    BY <1>5 DEF TakeTurn, LoginTypeOK, NoCheckWhileLockedOut, GuessesBounded,
       LockedOut, WithinLockoutWindow
  <2> QED
    BY <2>2, <2>3, <2>4
<1>6. ASSUME NEW c \in Conns, RefusedInTurn(c) PROVE Inv'
  <2>1. NoCheckWhileLockedOut' /\ GuessesBounded'
    BY <1>6 DEF RefusedInTurn, LoginTypeOK, NoCheckWhileLockedOut, GuessesBounded,
       LockedOut, WithinLockoutWindow
  <2>2. TriesInv'
    BY <1>6 DEF RefusedInTurn, LoginTypeOK, TriesInv
  <2>3. CASE KindOf[c] = "web"
    <3>1. mutex[c] \in Locks /\ owner[mutex[c]] = NoConn
      BY <1>6, LoginAssumption DEF RefusedInTurn, LoginTypeOK, RefsInv, HasMutex
    <3>2. LoginTypeOK' /\ RefsInv'
      BY <1>6, <2>3, <3>1 DEF RefusedInTurn, LoginTypeOK, Pcs, RefsInv, HasMutex
    <3>3. OwnerInv'
      <4>1. /\ owner' = [owner EXCEPT ![mutex[c]] = c]
            /\ at' = [at EXCEPT ![c] = "reply"] /\ mutex' = mutex
        BY <1>6, <2>3 DEF RefusedInTurn
      <4> QED
        BY <3>1, <4>1, LoginAssumption DEF LoginTypeOK, OwnerInv, HoldsTurn
    <3> QED
      BY <2>1, <2>2, <3>2, <3>3
  <2>4. CASE KindOf[c] # "web"
    <3>1. PICK x \in {"closed", "prompt"} : at' = [at EXCEPT ![c] = x]
      BY <1>6, <2>4 DEF RefusedInTurn
    <3>2. x \in Pcs \ HasMutex /\ DropTurn(c) /\ UNCHANGED turns
      BY <1>6, <2>4, <3>1 DEF RefusedInTurn, Pcs, HasMutex
    <3>3. LoginTypeOK' /\ RefsInv' /\ OwnerInv'
      BY <1>6, <3>1, <3>2, DropTurnRefs DEF RefusedInTurn, LoginTypeOK
    <3> QED
      BY <2>1, <2>2, <3>3
  <2> QED
    BY <2>3, <2>4
<1>7. ASSUME NEW c \in Conns, ReplyWritten(c) PROVE Inv'
  <2>1. "closed" \in Pcs \ HasMutex /\ DropTurn(c) /\ UNCHANGED turns
    BY <1>7 DEF ReplyWritten, Pcs, HasMutex
  <2>2. at' = [at EXCEPT ![c] = "closed"]
    BY <1>7 DEF ReplyWritten
  <2>3. LoginTypeOK' /\ RefsInv' /\ OwnerInv'
    BY <1>7, <2>1, <2>2, DropTurnRefs DEF ReplyWritten, LoginTypeOK
  <2>4. TriesInv' /\ NoCheckWhileLockedOut' /\ GuessesBounded'
    BY <1>7, <2>2 DEF ReplyWritten, LoginTypeOK, TriesInv, NoCheckWhileLockedOut, GuessesBounded, LockedOut, WithinLockoutWindow
  <2> QED
    BY <2>3, <2>4
<1>8. ASSUME NEW c \in Conns, GuessRight(c) PROVE Inv'
  <2>1. PICK x \in {"in", "prompt"} : at' = [at EXCEPT ![c] = x]
    BY <1>8 DEF LogIn, GuessRight
  <2>2. x \in Pcs \ HasMutex /\ DropTurn(c) /\ UNCHANGED turns
    BY <1>8, <2>1 DEF GuessRight, Pcs, HasMutex
  <2>3. /\ fails' \in [Addrs -> Nat] /\ age' \in [Addrs -> 0..LockoutWindow] /\ GuessesBounded'
        /\ \A b \in Addrs : ~LockedOut(b) => ~LockedOut(b)'
    BY <1>0, <1>8, ClearHarmless DEF GuessRight
  <2>5. LoginTypeOK' /\ RefsInv' /\ OwnerInv'
    BY <1>8, <2>1, <2>2, <2>3, DropTurnRefs DEF GuessRight, LoginTypeOK
  <2>6. TriesInv'
    BY <1>8, <2>1 DEF GuessRight, LoginTypeOK, TriesInv
  <2>7. NoCheckWhileLockedOut'
    BY <1>0, <2>1, <2>3 DEF LoginTypeOK, NoCheckWhileLockedOut
  <2> QED
    BY <2>3, <2>5, <2>6, <2>7
<1>9. ASSUME NEW c \in Conns, GuessWrong(c) PROVE Inv'
  <2>1. PICK x \in {"prompt", "closed"} : at' = [at EXCEPT ![c] = x]
    BY <1>9 DEF GuessWrong
  <2>2. x \in Pcs \ HasMutex /\ DropTurn(c) /\ UNCHANGED turns
    BY <1>9, <2>1 DEF GuessWrong, Pcs, HasMutex
  <2>3. at[c] = "check" /\ AddrOf[c] \in Addrs /\ ~LockedOut(AddrOf[c])
    BY <1>0, <1>9 DEF GuessWrong, NoCheckWhileLockedOut
  <2>4. /\ fails' \in [Addrs -> Nat] /\ age' \in [Addrs -> 0..LockoutWindow] /\ GuessesBounded'
        /\ \A b \in Addrs : b # AddrOf[c] /\ ~LockedOut(b) => ~LockedOut(b)'
    BY <1>9, <2>3, RecordBounded DEF GuessWrong
  <2>5. tries' \in [Conns -> 0..MaxAttempts] /\ TriesInv'
    BY <1>9, <2>3, LoginAssumption DEF GuessWrong, LoginTypeOK, TriesInv
  <2>6. LoginTypeOK' /\ RefsInv' /\ OwnerInv'
    BY <1>9, <2>1, <2>2, <2>4, <2>5, DropTurnRefs DEF GuessWrong, LoginTypeOK
  <2>7. NoCheckWhileLockedOut'
    <3> SUFFICES ASSUME NEW d \in Conns, at'[d] = "check" PROVE ~LockedOut(AddrOf[d])'
      BY DEF NoCheckWhileLockedOut
    <3>1. d # c /\ at[d] = "check"
      BY <2>1 DEF LoginTypeOK
    <3>2. AddrOf[d] # AddrOf[c]
      BY <2>3, <3>1, InvExclusive DEF TurnExclusive
    <3>3. ~LockedOut(AddrOf[d])
      BY <3>1 DEF NoCheckWhileLockedOut
    <3> QED
      BY <1>0, <2>4, <3>2, <3>3
  <2> QED
    BY <2>4, <2>5, <2>6, <2>7
<1>10. ASSUME NEW c \in Conns, OfferKey(c) \/ KeyRefused(c) PROVE Inv'
  BY <1>10 DEF OfferKey, KeyRefused, LoginTypeOK, Pcs, RefsInv, OwnerInv, TriesInv,
     NoCheckWhileLockedOut, GuessesBounded, LockedOut, WithinLockoutWindow,
     HasMutex, HoldsTurn
<1>11. ASSUME NEW c \in Conns, KeyAccepted(c) PROVE Inv'
  <2>1. PICK x \in {"in", "prompt"} : at' = [at EXCEPT ![c] = x]
    BY <1>11 DEF LogIn, KeyAccepted
  <2>2. /\ fails' \in [Addrs -> Nat] /\ age' \in [Addrs -> 0..LockoutWindow] /\ GuessesBounded'
        /\ \A b \in Addrs : ~LockedOut(b) => ~LockedOut(b)'
    BY <1>0, <1>11, ClearHarmless DEF KeyAccepted
  <2>4. LoginTypeOK' /\ RefsInv' /\ OwnerInv' /\ TriesInv'
    BY <1>11, <2>1, <2>2 DEF KeyAccepted, LoginTypeOK, Pcs, RefsInv, OwnerInv, TriesInv,
       HasMutex, HoldsTurn
  <2>5. NoCheckWhileLockedOut'
    BY <1>0, <2>1, <2>2 DEF LoginTypeOK, NoCheckWhileLockedOut
  <2> QED
    BY <2>2, <2>4, <2>5
<1>12. ASSUME NEW c \in Conns, Disconnect(c) PROVE Inv'
  <2>1. "closed" \in Pcs \ HasMutex /\ DropTurn(c) /\ UNCHANGED turns
    BY <1>12 DEF Disconnect, Pcs, HasMutex
  <2>2. at' = [at EXCEPT ![c] = "closed"]
    BY <1>12 DEF Disconnect
  <2>4. LoginTypeOK' /\ RefsInv' /\ OwnerInv'
    BY <1>12, <2>1, <2>2, DropTurnRefs DEF Disconnect, LoginTypeOK
  <2>5. TriesInv' /\ NoCheckWhileLockedOut' /\ GuessesBounded'
    BY <1>12, <2>2 DEF Disconnect, LoginTypeOK, TriesInv, NoCheckWhileLockedOut, GuessesBounded,
       LockedOut, WithinLockoutWindow
  <2> QED
    BY <2>4, <2>5
<1> QED
  BY <1>1, <1>2, <1>3, <1>4, <1>5, <1>6, <1>7, <1>8, <1>9, <1>10, <1>11, <1>12
     DEF LoginNext, Step, RefusedAtGate

\* The inductive invariant holds throughout.
THEOREM InvAlways == LoginSpec => []Inv
<1>1. LoginInit => Inv
  BY InitInv
<1>2. Inv /\ [LoginNext]_loginVars => Inv'
  BY NextInv
<1> QED
  BY <1>1, <1>2, PTL DEF LoginSpec

\* Type correctness of the login state, for any number of connections.
THEOREM TypeCorrect == LoginSpec => []LoginTypeOK
BY InvAlways, PTL DEF Inv

\* auth_turn: one credential check at a time per address, although the map of
\* turns is swept of unreferenced mutexes on every call.
THEOREM TurnExclusiveAlways == LoginSpec => []TurnExclusive
<1>1. Inv => TurnExclusive
  BY InvExclusive DEF Inv
<1> QED
  BY <1>1, InvAlways, PTL

\* The lockout holds across listeners and overlapping guesses: an address never
\* has more than MaxAttempts failures counted against it.
THEOREM GuessesBoundedAlways == LoginSpec => []GuessesBounded
BY InvAlways, PTL DEF Inv

\* No credential is verified for a locked-out address, at any moment of the
\* key derivation.
THEOREM NoCheckWhileLockedOutAlways == LoginSpec => []NoCheckWhileLockedOut
BY InvAlways, PTL DEF Inv
=============================================================================
