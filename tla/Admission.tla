------------------------------ MODULE Admission ------------------------------
(***************************************************************************)
(* Who gets as far as a login: the telnet accept loop (src/telnet/mod.rs)    *)
(* with its session slots and the door's deadline (src/telnet/session.rs),   *)
(* the SSH accept loop with its pre-login pool (src/ssh.rs), and the         *)
(* connection rate limiter the two loops share.                             *)
(*                                                                          *)
(* Each loop takes one connection at a time, in steps between which the      *)
(* other loop, the sessions and the clock run.  A telnet connection holds    *)
(* its slot from accept; an SSH connection holds a place in the pool until   *)
(* it logs in or its stream is dropped, and the two give the place back by   *)
(* the same code from different owners.  Times are ages in ticks, which stop  *)
(* growing once they are past every window.                                 *)
(***************************************************************************)
EXTENDS Integers, FiniteSets, Addresses

CONSTANTS
  KeyOf,        \* pre_login_key: the address, or the /64 it belongs to
  Barred,       \* addresses reject_insecure_ip refuses while security is off
  TConns,       \* telnet connection slots, reused after a disconnect
  SConns,       \* SSH connection slots, likewise
  RateMaxes,    \* values the operator gives conn_rate_max; 0 turns it off
  RateWindows,  \* values the operator gives conn_rate_window_secs, in ticks
  AgeCap,       \* a stamp this old is past every window
  MaxSessions,  \* max_sessions of the telnet listener
  MaxPreLogin,  \* MAX_PRE_LOGIN
  MaxPerAddr    \* MAX_PRE_LOGIN_PER_ADDRESS

Keys == {KeyOf[a] : a \in Addrs}

ASSUME AdmissionAssumption ==
  /\ IsFiniteSet(TConns) /\ IsFiniteSet(SConns)
  /\ Addrs # {} /\ DOMAIN KeyOf = Addrs
  /\ Barred \subseteq Addrs
  /\ RateMaxes \subseteq Nat /\ RateMaxes # {}
  /\ AgeCap \in Nat /\ RateWindows \subseteq 1..AgeCap /\ RateWindows # {}
  /\ MaxSessions \in Nat
  /\ MaxPreLogin \in Nat \ {0} /\ MaxPerAddr \in Nat \ {0}

VARIABLES
  rateMax,   \* conn_rate_max, read afresh at every accept
  window,    \* conn_rate_window_secs, likewise
  seen,      \* ConnRate.seen of each address: the ages of its connections, numbered
  letIn,     \* history: likewise, those it let in since the window was last changed
  tloop,     \* the telnet accept loop: step and the address it serves
  count,     \* session_count of the telnet listener
  tconn,     \* telnet connections: none, door, bye, in
  stuck,     \* telnet connections whose peer has stopped reading
  sloop,     \* the SSH accept loop, likewise
  sconn,     \* SSH connections: none, hello, auth, in, ended
  addr,      \* address of each SSH connection
  released,  \* PreLogin.released of each SSH connection
  giving,    \* releases between their swap and their turn at the pool
  total,     \* PreLoginPool.total
  byKey      \* PreLoginPool.by_key; an absent key holds 0

rate == <<rateMax, window, seen, letIn>>
telnet == <<tloop, count, tconn, stuck>>
ssh == <<sloop, sconn, addr, released, giving, total, byKey>>
admissionVars == <<rate, telnet, ssh>>

Ages == 0..AgeCap
Loops == [s : {"accept", "claim", "over", "check"}, addr : Addrs]

\* The state of both loops, the limiter and the pool; the counters are usizes
\* and never pass below zero.
AdmissionTypeOK ==
  /\ rateMax \in RateMaxes /\ window \in RateWindows
  /\ \A a \in Addrs : \A s \in {seen[a], letIn[a]} : s \subseteq [n : Nat, age : Ages] /\ IsFiniteSet(s)
  /\ tloop \in Loops /\ sloop \in Loops
  /\ count \in Nat /\ total \in Nat
  /\ tconn \in [TConns -> {"none", "door", "bye", "in"}]
  /\ stuck \subseteq TConns
  /\ sconn \in [SConns -> {"none", "hello", "auth", "in", "ended"}]
  /\ addr \in [SConns -> Addrs]
  /\ released \in [SConns -> BOOLEAN]
  /\ giving \subseteq SConns
  /\ byKey \in [Keys -> Nat]

Accepting == [s |-> "accept", addr |-> CHOOSE a \in Addrs : TRUE]

AdmissionInit ==
  /\ rateMax \in RateMaxes /\ window \in RateWindows
  /\ seen = [a \in Addrs |-> {}] /\ letIn = [a \in Addrs |-> {}]
  /\ tloop = Accepting /\ sloop = Accepting
  /\ count = 0 /\ tconn = [c \in TConns |-> "none"] /\ stuck = {}
  /\ sconn = [c \in SConns |-> "none"]
  /\ addr = [c \in SConns |-> Accepting.addr]
  /\ released = [c \in SConns |-> FALSE]
  /\ giving = {}
  /\ total = 0 /\ byKey = [k \in Keys |-> 0]

-----------------------------------------------------------------------------
(* The rate limiter.                                                        *)

Recent(stamps) == {e \in stamps : e.age < window}

\* A connection of this moment, numbered apart from the others held.
Stamps(held) ==
  {e \in [n : 1..rateMax, age : {0}] :
     \A n \in 1..e.n : n = e.n <=> \A h \in held : h.n # n}

\* note_connection's first retain: an address goes when all it holds is old.
Swept == [a \in Addrs |-> IF \E e \in seen[a] : e.age < window THEN seen[a] ELSE {}]

\* Seeded bug: a refused connection is stored in place of the oldest.
NoteStoringRefused(a, let) ==
  LET held == Recent(Swept[a]) IN
  /\ let = (Cardinality(held) < rateMax)
  /\ IF let
     THEN \E e \in Stamps(held) :
          /\ seen' = [Swept EXCEPT ![a] = held \cup {e}]
          /\ letIn' = [letIn EXCEPT ![a] = @ \cup {e}]
     ELSE /\ LET old == CHOOSE e \in held : \A h \in held : h.age <= e.age IN
             seen' = [Swept EXCEPT ![a] = (held \ {old}) \cup {[old EXCEPT !.age = 0]}]
          /\ UNCHANGED letIn

\* Seeded bug: the comparison with the limit is not strict, so one too many is stored.
NoteConnectionLoose(a, let) ==
  LET held == Recent(Swept[a]) IN
  /\ let = (Cardinality(held) <= rateMax)
  /\ IF let
     THEN \E n \in 1..(rateMax + 1) :
          LET e == [n |-> n, age |-> 0] IN
          /\ \A h \in held : h.n # n
          /\ seen' = [Swept EXCEPT ![a] = held \cup {e}]
          /\ letIn' = [letIn EXCEPT ![a] = @ \cup {e}]
     ELSE /\ seen' = [Swept EXCEPT ![a] = held]
          /\ UNCHANGED letIn

\* note_connection and the caller's comparison with the limit, under the map's
\* lock: a connection over the limit is counted and not stored.
NoteConnection(a, let) ==
  LET held == Recent(Swept[a]) IN
  /\ let = (Cardinality(held) < rateMax)
  /\ IF let
     THEN \E e \in Stamps(held) :
          /\ seen' = [Swept EXCEPT ![a] = held \cup {e}]
          /\ letIn' = [letIn EXCEPT ![a] = @ \cup {e}]
     ELSE /\ seen' = [Swept EXCEPT ![a] = held]
          /\ UNCHANGED letIn

\* Either loop asks only while the limit is on.
Limiter(a, let) ==
  /\ \/ rateMax > 0 /\ NoteConnection(a, let)
     \/ rateMax = 0 /\ let = TRUE /\ UNCHANGED <<seen, letIn>>
  /\ UNCHANGED <<rateMax, window>>

\* The operator changes the limit.
SetRate ==
  /\ rateMax' \in RateMaxes \ {rateMax}
  /\ UNCHANGED <<window, seen, letIn, telnet, ssh>>

\* The operator changes the window: the count goes on from the stamps still held, for
\* those a shorter window has pruned do not come back.
SetWindow ==
  /\ window' \in RateWindows \ {window}
  /\ letIn' = [a \in Addrs |-> {e \in seen[a] : e.age < window'}]
  /\ UNCHANGED <<rateMax, seen, telnet, ssh>>

Aged(stamps) == {[e EXCEPT !.age = IF @ < AgeCap THEN @ + 1 ELSE @] : e \in stamps}

RateTick ==
  /\ seen' = [a \in Addrs |-> Aged(seen[a])]
  /\ letIn' = [a \in Addrs |-> Recent(Aged(letIn[a]))]
  /\ UNCHANGED <<rateMax, window, telnet, ssh>>

-----------------------------------------------------------------------------
(* The telnet listener.                                                     *)

\* A connection arrives: over the limit it is dropped and the loop goes on.
TelnetAccept(a) ==
  /\ tloop.s = "accept"
  /\ \E let \in BOOLEAN :
       /\ Limiter(a, let)
       /\ tloop' = IF let THEN [s |-> "claim", addr |-> a] ELSE tloop
  /\ UNCHANGED <<count, tconn, stuck, ssh>>

\* fetch_add tells whether the cap was reached.
TelnetClaim ==
  /\ tloop.s = "claim"
  /\ count' = count + 1
  /\ tloop' = IF count >= MaxSessions THEN [Accepting EXCEPT !.s = "over"]
              ELSE [tloop EXCEPT !.s = "check"]
  /\ UNCHANGED <<rate, tconn, stuck, ssh>>

\* The claim is rolled back and the client told, by a task of its own.
TelnetOver ==
  /\ tloop.s = "over"
  /\ count' = count - 1
  /\ tloop' = Accepting
  /\ UNCHANGED <<rate, tconn, stuck, ssh>>

\* Security and its override are off, as read now, and the address is not on
\* the allowlist.
TelnetBarred ==
  /\ tloop.s = "check" /\ tloop.addr \in Barred
  /\ count' = count - 1
  /\ tloop' = Accepting
  /\ UNCHANGED <<rate, tconn, stuck, ssh>>

\* The session's task starts, at the door.
TelnetSpawn(c) ==
  /\ tloop.s = "check" /\ tconn[c] = "none"
  /\ tconn' = [tconn EXCEPT ![c] = "door"]
  /\ tloop' = Accepting
  /\ UNCHANGED <<rate, count, stuck, ssh>>

\* through_the_door returns true.
TelnetIn(c) ==
  /\ tconn[c] = "door" /\ c \notin stuck
  /\ tconn' = [tconn EXCEPT ![c] = "in"]
  /\ UNCHANGED <<rate, tloop, count, stuck, ssh>>

\* The peer stops reading, so that writes to it block.
TelnetStuck(c) ==
  /\ tconn[c] \in {"door", "bye"} /\ c \notin stuck
  /\ stuck' = stuck \cup {c}
  /\ UNCHANGED <<rate, tloop, count, tconn, ssh>>

\* The deadline passes, whatever door() waits for, and the notice is begun.
TelnetDeadline(c) ==
  /\ tconn[c] = "door"
  /\ tconn' = [tconn EXCEPT ![c] = "bye"]
  /\ UNCHANGED <<rate, tloop, count, stuck, ssh>>

\* The session is over: run returned or panicked, and the slot goes back once,
\* by the cleanup or by SessionSlotGuard.
TelnetGone(c) ==
  /\ count' = count - 1
  /\ tconn' = [tconn EXCEPT ![c] = "none"]
  /\ stuck' = stuck \ {c}
  /\ UNCHANGED <<rate, tloop, ssh>>

\* Seeded bug: the notice waits until it is sent.
TelnetByeUnbounded(c) == tconn[c] = "bye" /\ c \notin stuck /\ TelnetGone(c)

\* The notice is sent, or its own two seconds pass.
TelnetBye(c) == tconn[c] = "bye" /\ TelnetGone(c)

\* The login fails or is cut off, the user leaves, the connection drops.
TelnetEnd(c) == tconn[c] \in {"door", "in"} /\ TelnetGone(c)

-----------------------------------------------------------------------------
(* The SSH listener and its pre-login pool.                                 *)

\* over_rate_limit, first thing in admit.
SshAccept(a) ==
  /\ sloop.s = "accept"
  /\ \E let \in BOOLEAN :
       /\ Limiter(a, let)
       /\ sloop' = IF let THEN [s |-> "claim", addr |-> a] ELSE sloop
  /\ UNCHANGED <<telnet, sconn, addr, released, giving, total, byKey>>

\* PreLogin::claim, under the pool's lock; a connection it refuses is dropped.
SshAdmit(c) ==
  LET a == sloop.addr k == KeyOf[a] IN
  /\ sloop.s = "claim"
  /\ sconn[c] = "none" /\ c \notin giving
  /\ total < MaxPreLogin /\ byKey[k] < MaxPerAddr
  /\ total' = total + 1
  /\ byKey' = [byKey EXCEPT ![k] = @ + 1]
  /\ sconn' = [sconn EXCEPT ![c] = "hello"]
  /\ addr' = [addr EXCEPT ![c] = a]
  /\ sloop' = Accepting
  /\ UNCHANGED <<rate, telnet, released, giving>>

SshFull ==
  /\ sloop.s = "claim"
  /\ total >= MaxPreLogin \/ byKey[KeyOf[sloop.addr]] >= MaxPerAddr
  /\ sloop' = Accepting
  /\ UNCHANGED <<rate, telnet, sconn, addr, released, giving, total, byKey>>

\* Seeded bug: the end of a stream gives a place back whatever was before.
ReleaseAgain(c) ==
  /\ released' = [released EXCEPT ![c] = TRUE]
  /\ giving' = giving \cup {c}

\* PreLogin::release up to the lock: the swap decides who gives back.
Release(c) ==
  /\ released' = [released EXCEPT ![c] = TRUE]
  /\ giving' = IF released[c] THEN giving ELSE giving \cup {c}

\* PreLogin::release under the pool's lock.
GiveBack(c) ==
  LET k == KeyOf[addr[c]] IN
  /\ c \in giving
  /\ giving' = giving \ {c}
  /\ total' = IF total > 0 THEN total - 1 ELSE 0
  /\ byKey' = [byKey EXCEPT ![k] = IF @ > 0 THEN @ - 1 ELSE 0]
  /\ UNCHANGED <<rate, telnet, sloop, sconn, addr, released>>

\* The peer's version string and key exchange; only then is the handler asked.
SshHello(c) ==
  /\ sconn[c] = "hello"
  /\ sconn' = [sconn EXCEPT ![c] = "auth"]
  /\ UNCHANGED <<rate, telnet, sloop, addr, released, giving, total, byKey>>

\* mark_logged_in.
SshLoggedIn(c) ==
  /\ sconn[c] = "auth"
  /\ Release(c)
  /\ sconn' = [sconn EXCEPT ![c] = "in"]
  /\ UNCHANGED <<rate, telnet, sloop, addr, total, byKey>>

\* Drop for PreLoginStream.
SshDrop(c) ==
  /\ Release(c)
  /\ sconn' = [sconn EXCEPT ![c] = "ended"]
  /\ UNCHANGED <<rate, telnet, sloop, addr, total, byKey>>

\* Seeded bug: the deadline is the handler's, which a silent peer never meets.
SshDeadlineInHandler(c) == sconn[c] = "auth" /\ SshDrop(c)

\* poll_read fails at the deadline while logged_in is not set.
SshDeadline(c) == sconn[c] \in {"hello", "auth"} /\ SshDrop(c)

\* The peer leaves or the session ends.
SshEnd(c) == sconn[c] \in {"hello", "auth", "in"} /\ SshDrop(c)

\* The last reference to the connection's PreLogin is gone.
SshForget(c) ==
  /\ sconn[c] = "ended" /\ c \notin giving
  /\ sconn' = [sconn EXCEPT ![c] = "none"]
  /\ addr' = [addr EXCEPT ![c] = Accepting.addr]
  /\ released' = [released EXCEPT ![c] = FALSE]
  /\ UNCHANGED <<rate, telnet, sloop, giving, total, byKey>>

-----------------------------------------------------------------------------

AdmissionNext ==
  \/ RateTick \/ SetRate \/ SetWindow
  \/ TelnetClaim \/ TelnetOver \/ TelnetBarred \/ SshFull
  \/ \E a \in Addrs : TelnetAccept(a) \/ SshAccept(a)
  \/ \E c \in TConns :
       \/ TelnetSpawn(c) \/ TelnetIn(c) \/ TelnetStuck(c)
       \/ TelnetDeadline(c) \/ TelnetBye(c) \/ TelnetEnd(c)
  \/ \E c \in SConns :
       \/ SshAdmit(c) \/ SshHello(c) \/ SshLoggedIn(c) \/ SshDeadline(c) \/ SshEnd(c)
       \/ GiveBack(c) \/ SshForget(c)

AdmissionSpec == AdmissionInit /\ [][AdmissionNext]_admissionVars

\* The timers of tokio fire, and a task that holds no lock gets to run.
AdmissionFairSpec ==
  /\ AdmissionSpec
  /\ \A c \in TConns : WF_admissionVars(TelnetDeadline(c) \/ TelnetBye(c))
  /\ \A c \in SConns : WF_admissionVars(SshDeadline(c) \/ GiveBack(c) \/ SshForget(c))

-----------------------------------------------------------------------------
(* Properties.                                                              *)

\* No address gets more connections past the limiter in one window than the
\* limit in force, counted over both listeners, whatever the loops' steps and
\* the sweeps of other addresses' connections come between; after a change of the
\* window, counted from what is still held (note_connection).
RateKept ==
  [][\A a \in Addrs :
       window' = window /\ Cardinality(letIn'[a]) > Cardinality(letIn[a]) =>
         Cardinality(letIn'[a]) <= rateMax]_admissionVars

\* A refused connection does not extend the window: what counts against an
\* address is exactly the connections it was let in by, so it is let in again
\* once one of those is old (note_connection).
OnlyLetInCounts == \A a \in Addrs : Recent(seen[a]) = letIn[a]

\* Every telnet connection holds one slot from its accept to its end, and the
\* cap holds for those that got through (start_server, SessionSlotGuard).
TelnetSlotsExact ==
  LET live == Cardinality({c \in TConns : tconn[c] # "none"}) IN
  /\ count = live + (IF tloop.s \in {"over", "check"} THEN 1 ELSE 0)
  /\ live <= MaxSessions

\* SSH connections whose place is still theirs, or on its way back.
Holders == {c \in SConns : sconn[c] # "none" /\ (~released[c] \/ c \in giving)}

\* A place is given back exactly once, by the login or by the end of the stream,
\* whichever comes first: the pool counts the places held, in total and by key,
\* and neither limit is passed (PreLogin).
PlacesExact ==
  /\ total = Cardinality(Holders)
  /\ \A k \in Keys : byKey[k] = Cardinality({c \in Holders : KeyOf[addr[c]] = k})
  /\ total <= MaxPreLogin
  /\ \A k \in Keys : byKey[k] <= MaxPerAddr

\* The invariants above, together: a slot and a place are given back exactly once on every path,
\* and no counter passes below zero (SessionSlotGuard, PreLogin).
PlacesSound == AdmissionTypeOK /\ TelnetSlotsExact /\ PlacesExact

\* A telnet peer that never gets through the door gives its slot back, even
\* one that has stopped reading (through_the_door).
DoorEnds == \A c \in TConns : tconn[c] \in {"door", "bye"} ~> tconn[c] \in {"none", "in"}

\* An SSH peer that never logs in gives its place back, even one that never
\* sends its version string (PreLoginStream).
PlaceReturns == \A c \in SConns : c \in Holders ~> c \notin Holders
=============================================================================
