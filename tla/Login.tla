-------------------------------- MODULE Login --------------------------------
(***************************************************************************)
(* Checking credentials: the failure lockout that telnet, SSH and the web   *)
(* page share, and the turn each address takes at the key derivation        *)
(* (src/telnet/mod.rs, src/telnet/session.rs, src/ssh.rs, src/webserver.rs). *)
(*                                                                          *)
(* A connection c has come from AddrOf[c] to the listener KindOf[c].  at[c]: *)
(*   closed  not connected                                                  *)
(*   prompt  connected; a credential may be presented                       *)
(*   wait    in auth_turn, waiting for the address's mutex                  *)
(*   check   holding it, the key derivation running off the runtime         *)
(*   reply   web only: refused inside the turn, the 429 being written       *)
(*   key     ssh only: public key past its gate, not accepted yet           *)
(*   in      logged in (web: the request is served)                         *)
(*                                                                          *)
(* Time is counted in ticks; an age stands still once it is outside the     *)
(* lockout window.                                                          *)
(***************************************************************************)
EXTENDS Naturals, Addresses

CONSTANTS
  Conns,         \* connection slots, reused after a disconnect
  Locks,         \* identities of the mutexes auth_turn allocates
  AddrOf,        \* the address each connection comes from
  KindOf,        \* the listener it came to: "telnet", "ssh" or "web"
  MaxAttempts,   \* MAX_AUTH_ATTEMPTS
  LockoutWindow, \* LOCKOUT_DURATION in ticks
  NoLock,        \* no mutex: an absent map entry, a connection without one
  NoConn         \* a mutex nobody holds

ASSUME LoginAssumption ==
  /\ AddrOf \in [Conns -> Addrs]
  /\ KindOf \in [Conns -> {"telnet", "ssh", "web"}]
  /\ MaxAttempts \in Nat \ {0}
  /\ LockoutWindow \in Nat \ {0}
  /\ NoLock \notin Locks
  /\ NoConn \notin Conns

VARIABLES
  at,        \* where each connection is
  tries,     \* telnet: guesses made on this connection
  fails,     \* LockoutMap: failures counted per address, 0 for no entry
  age,       \* LockoutMap: ticks since the last of them
  turns,     \* TURNS: the mutex the map holds for each address
  mutex,     \* the mutex a connection waits for or holds (its Arc)
  owner      \* who holds each mutex

loginVars == <<at, tries, fails, age, turns, mutex, owner>>

Pcs == {"closed", "prompt", "wait", "check", "reply", "key", "in"}

\* The shapes of the lockout and turn maps; authenticate hangs up a telnet caller
\* before its own count passes MAX_AUTH_ATTEMPTS.
LoginTypeOK ==
  /\ at \in [Conns -> Pcs]
  /\ tries \in [Conns -> 0..MaxAttempts]
  /\ fails \in [Addrs -> Nat]
  /\ age \in [Addrs -> 0..LockoutWindow]
  /\ turns \in [Addrs -> Locks \cup {NoLock}]
  /\ mutex \in [Conns -> Locks \cup {NoLock}]
  /\ owner \in [Locks -> Conns \cup {NoConn}]

LoginInit ==
  /\ at = [c \in Conns |-> "closed"]
  /\ tries = [c \in Conns |-> 0]
  /\ fails = [a \in Addrs |-> 0]
  /\ age = [a \in Addrs |-> 0]
  /\ turns = [a \in Addrs |-> NoLock]
  /\ mutex = [c \in Conns |-> NoLock]
  /\ owner = [l \in Locks |-> NoConn]

-----------------------------------------------------------------------------
(* The lockout map.                                                         *)

WithinLockoutWindow(a) == age[a] < LockoutWindow

LockedOut(a) == fails[a] >= MaxAttempts /\ WithinLockoutWindow(a)

\* Seeded bug: the sweep forgets to look at the age.
RecordAuthFailureUnswept(a) ==
  /\ fails' = [fails EXCEPT ![a] = @ + 1]
  /\ age' = [age EXCEPT ![a] = 0]

\* Entries past the window are swept, then the failure is counted and dated.
RecordAuthFailure(a) ==
  /\ fails' = [b \in Addrs |->
                 LET kept == IF WithinLockoutWindow(b) THEN fails[b] ELSE 0
                 IN IF b = a THEN kept + 1 ELSE kept]
  /\ age' = [age EXCEPT ![a] = 0]

ClearLockout(a) ==
  /\ fails' = [fails EXCEPT ![a] = 0]
  /\ UNCHANGED age

-----------------------------------------------------------------------------
(* The turn.                                                                *)

\* Connections that hold a reference to the mutex of a: those that wait for it
\* and the one that holds it.
Referenced(a) == \E c \in Conns : mutex[c] # NoLock /\ mutex[c] = turns[a]

\* Seeded bug: an entry somebody still holds is dropped from the map too.
SweptAll == [a \in Addrs |-> NoLock]

SweptTurns == [a \in Addrs |-> IF Referenced(a) THEN turns[a] ELSE NoLock]

\* auth_turn up to its await: sweep, find or create the entry, keep a clone.
AskTurn(c) ==
  LET a == AddrOf[c] IN
  \E l \in Locks :
    /\ IF SweptTurns[a] # NoLock THEN l = SweptTurns[a]
       ELSE \A b \in Addrs : SweptTurns[b] # l
    /\ \A d \in Conns : mutex[d] = l => SweptTurns[a] = l
    /\ turns' = [SweptTurns EXCEPT ![a] = l]
    /\ mutex' = [mutex EXCEPT ![c] = l]
    /\ at' = [at EXCEPT ![c] = "wait"]

\* Seeded bug: the guard outlives the answer.
KeepTurn(c) ==
  /\ UNCHANGED owner
  /\ mutex' = [mutex EXCEPT ![c] = NoLock]

\* Dropping the guard, or the future that waits for it.
DropTurn(c) ==
  /\ owner' = [l \in Locks |-> IF owner[l] = c THEN NoConn ELSE owner[l]]
  /\ mutex' = [mutex EXCEPT ![c] = NoLock]

-----------------------------------------------------------------------------
(* What a connection does.                                                  *)

\* A connection arrives.  Telnet and the web ask the lockout before anything
\* else; SSH asks it on every attempt instead.
Connect(c) ==
  /\ at[c] = "closed"
  /\ KindOf[c] = "ssh" \/ ~LockedOut(AddrOf[c])
  /\ at' = [at EXCEPT ![c] = "prompt"]
  /\ tries' = [tries EXCEPT ![c] = 0]
  /\ UNCHANGED <<fails, age, turns, mutex, owner>>

\* Seeded bug: an attempt refused at the gate dates the lockout anew.
RefusedAtGateDated(c) ==
  /\ at[c] = IF KindOf[c] = "ssh" THEN "prompt" ELSE "closed"
  /\ LockedOut(AddrOf[c])
  /\ age' = [age EXCEPT ![AddrOf[c]] = 0]
  /\ UNCHANGED <<at, tries, fails, turns, mutex, owner>>

\* is_locked_out says yes: telnet and the web hang up, SSH rejects the attempt.
\* Nothing is recorded.
RefusedAtGate(c) ==
  /\ at[c] = IF KindOf[c] = "ssh" THEN "prompt" ELSE "closed"
  /\ LockedOut(AddrOf[c])
  /\ UNCHANGED loginVars

\* A username and password (telnet), an auth_password call (SSH) or a request
\* with an Authorization header (web).
Present(c) ==
  /\ at[c] = "prompt"
  /\ KindOf[c] = "ssh" => ~LockedOut(AddrOf[c])
  /\ AskTurn(c)
  /\ UNCHANGED <<tries, fails, age, owner>>

\* Seeded bug: the lockout is asked at the prompt only.
TakeTurnUnasked(c) ==
  /\ at[c] = "wait"
  /\ owner[mutex[c]] = NoConn
  /\ owner' = [owner EXCEPT ![mutex[c]] = c]
  /\ at' = [at EXCEPT ![c] = "check"]
  /\ UNCHANGED <<tries, fails, age, turns, mutex>>

\* The mutex is ours: the lockout is asked again, inside the turn.
TakeTurn(c) ==
  /\ at[c] = "wait"
  /\ owner[mutex[c]] = NoConn
  /\ ~LockedOut(AddrOf[c])
  /\ owner' = [owner EXCEPT ![mutex[c]] = c]
  /\ at' = [at EXCEPT ![c] = "check"]
  /\ UNCHANGED <<tries, fails, age, turns, mutex>>

\* Locked out by the guess before.  Telnet drops the turn, then tells the
\* caller; SSH returns; the web page writes its 429 first.
RefusedInTurn(c) ==
  /\ at[c] = "wait"
  /\ owner[mutex[c]] = NoConn
  /\ LockedOut(AddrOf[c])
  /\ IF KindOf[c] = "web"
     THEN /\ owner' = [owner EXCEPT ![mutex[c]] = c]
          /\ at' = [at EXCEPT ![c] = "reply"]
          /\ UNCHANGED mutex
     ELSE /\ DropTurn(c)
          /\ at' = [at EXCEPT ![c] = IF KindOf[c] = "telnet" THEN "closed" ELSE "prompt"]
  /\ UNCHANGED <<tries, fails, age, turns>>

\* The 429 is written: a few hundred bytes into a send buffer that is empty.
ReplyWritten(c) ==
  /\ at[c] = "reply"
  /\ DropTurn(c)
  /\ at' = [at EXCEPT ![c] = "closed"]
  /\ UNCHANGED <<tries, fails, age, turns>>

\* An SSH login also needs a slot of the session cap, which it may be refused
\* (module SshSessions); any other login goes through.
LogIn(c) ==
  \E x \in IF KindOf[c] = "ssh" THEN {"in", "prompt"} ELSE {"in"} : at' = [at EXCEPT ![c] = x]

\* The derivation ends and the credential is right.
GuessRight(c) ==
  /\ at[c] = "check"
  /\ ClearLockout(AddrOf[c])
  /\ LogIn(c)
  /\ DropTurn(c)
  /\ UNCHANGED <<tries, turns>>

\* It is wrong: the failure is counted before the turn is given up.  Telnet
\* hangs up at the limit, of the address or of the connection.
GuessWrong(c) ==
  /\ at[c] = "check"
  /\ RecordAuthFailure(AddrOf[c])
  /\ tries' = [tries EXCEPT ![c] = IF KindOf[c] = "telnet" THEN @ + 1 ELSE @]
  /\ DropTurn(c)
  /\ at' = [at EXCEPT ![c] =
              IF KindOf[c] = "ssh" \/ (KindOf[c] = "telnet" /\ tries'[c] < MaxAttempts
                                       /\ fails'[AddrOf[c]] < MaxAttempts)
              THEN "prompt" ELSE "closed"]
  /\ UNCHANGED <<turns>>

\* auth_publickey takes no turn: its gate and its acceptance are two steps, and
\* a refused key is not counted.
OfferKey(c) ==
  /\ at[c] = "prompt" /\ KindOf[c] = "ssh"
  /\ ~LockedOut(AddrOf[c])
  /\ at' = [at EXCEPT ![c] = "key"]
  /\ UNCHANGED <<tries, fails, age, turns, mutex, owner>>

KeyAccepted(c) ==
  /\ at[c] = "key"
  /\ ClearLockout(AddrOf[c])
  /\ LogIn(c)
  /\ UNCHANGED <<tries, turns, mutex, owner>>

KeyRefused(c) ==
  /\ at[c] = "key"
  /\ at' = [at EXCEPT ![c] = "prompt"]
  /\ UNCHANGED <<tries, fails, age, turns, mutex, owner>>

\* The connection ends: from the prompt or the menu, or for telnet at the
\* pre-login deadline wherever the login has got to.  An unfinished guess is
\* not counted.
Disconnect(c) ==
  /\ at[c] \in {"prompt", "in"} \/ (KindOf[c] = "telnet" /\ at[c] \in {"wait", "check"})
  /\ DropTurn(c)
  /\ at' = [at EXCEPT ![c] = "closed"]
  /\ UNCHANGED <<tries, fails, age, turns>>

LockoutTick ==
  /\ \E a \in Addrs : age[a] < LockoutWindow
  /\ age' = [a \in Addrs |-> IF age[a] < LockoutWindow THEN age[a] + 1 ELSE LockoutWindow]
  /\ UNCHANGED <<at, tries, fails, turns, mutex, owner>>

Step(c) ==
  \/ Connect(c) \/ RefusedAtGate(c) \/ Present(c) \/ TakeTurn(c) \/ RefusedInTurn(c) \/ ReplyWritten(c)
  \/ GuessRight(c) \/ GuessWrong(c) \/ OfferKey(c) \/ KeyAccepted(c) \/ KeyRefused(c)
  \/ Disconnect(c)

LoginNext == LockoutTick \/ \E c \in Conns : Step(c)

LoginSpec == LoginInit /\ [][LoginNext]_loginVars

\* tokio's mutex is FIFO, so a waiter for whom it keeps coming free gets it; the
\* key derivation ends; the 429 fits the socket's send buffer; the clock runs.
\* Nothing is assumed of the clients.
Fairness ==
  /\ WF_loginVars(LockoutTick)
  /\ \A c \in Conns :
       /\ SF_loginVars(TakeTurn(c) \/ RefusedInTurn(c))
       /\ WF_loginVars(GuessRight(c) \/ GuessWrong(c) \/ ReplyWritten(c))

LoginFairSpec == LoginSpec /\ Fairness

-----------------------------------------------------------------------------
(* Properties.                                                              *)

\* No two connections of one address are at the credential check at once,
\* although auth_turn's sweep drops the mutexes nobody refers to.
TurnExclusive ==
  \A c, d \in Conns :
    at[c] = "check" /\ at[d] = "check" /\ AddrOf[c] = AddrOf[d] => c = d

\* However many connections an address holds at their prompts, and over
\* whichever of the three listeners, no more than MaxAttempts wrong guesses of
\* its are verified before the lockout runs out or a login succeeds
\* (record_auth_failure, called inside the turn).
GuessesBounded == \A a \in Addrs : fails[a] <= MaxAttempts

\* A password is never even checked for an address that is locked out: the
\* listeners ask is_locked_out again once auth_turn has let them in.
NoCheckWhileLockedOut == \A c \in Conns : at[c] = "check" => ~LockedOut(AddrOf[c])

\* A lockout ends however often its address comes back: an attempt refused at the
\* gate or in its turn is no failure and does not date the entry anew
\* (is_locked_out, record_auth_failure).
LockoutEnds == \A a \in Addrs : LockedOut(a) ~> ~LockedOut(a)

\* A connection that waits in auth_turn comes to its turn or is refused.
TurnComes == \A c \in Conns : at[c] = "wait" ~> at[c] # "wait"
=============================================================================
