------------------------------ MODULE CpmPool ------------------------------
(***************************************************************************)
(* The CP/M endpoint CPM@<ip>: one call slot served by every CP/M session    *)
(* with a virtual modem (src/serial.rs, src/telnet/cpm_emu.rs and           *)
(* cpm_modem.rs).  Any member of the pool whose modem is idle takes the next *)
(* call.  Unlike a port's thread, a member's guest may dial out while its    *)
(* modem rings.                                                             *)
(*                                                                          *)
(* Leaving the pool and placing a call are two steps each: the counter is    *)
(* read or written first, the slot afterwards.                              *)
(***************************************************************************)
EXTENDS CallChannel

CONSTANTS
  Members,     \* CP/M sessions
  PoolCallers, \* parties that dial the endpoint
  Outgoing     \* a connection the guest dialled itself

ASSUME PoolAssumption ==
  /\ IsFiniteSet(Members) /\ IsFiniteSet(PoolCallers)
  /\ {ChanCap, MaxCalls} \subseteq Nat
  /\ {NoCall, Outgoing} \cap (PoolCallers \X Nat) = {} /\ NoCall # Outgoing

VARIABLES
  listeners, \* CPM_PEER_LISTENERS
  poolSlot,  \* CPM_CALL_REQUEST
  member,    \* out, in, leaving (not the last one), last (about to empty the slot)
  mode,      \* each modem's mode: command or online
  incoming,  \* the call each modem rings for
  rung,      \* modems that have rung for it at least once
  link,      \* each modem's connection, held across +++
  caller,    \* callers: idle, checked (the pool had members), calling, online
  placed,    \* the call each caller is in the middle of
  heard      \* bytes unread in the progress channel of that call

callerVars == <<caller, placed, heard>>
modemVars == <<mode, incoming, rung, link>>
poolVars == <<listeners, poolSlot, member, mode, incoming, rung, link, caller, placed, heard>>

PoolCalls == PoolCallers \X (1..MaxCalls)

\* The shapes of the pool's state; CPM_PEER_LISTENERS counts the members that have
\* entered and not begun to leave, and a modem online has a connection.
PoolTypeOK ==
  /\ listeners = Cardinality({m \in Members : member[m] = "in"})
  /\ poolSlot \in PoolCalls \cup {NoCall}
  /\ member \in [Members -> {"out", "in", "leaving", "last"}]
  /\ mode \in [Members -> {"command", "online"}]
  /\ incoming \in [Members -> PoolCalls \cup {NoCall}]
  /\ rung \in SUBSET Members
  /\ link \in [Members -> PoolCalls \cup {NoCall, Outgoing}]
  /\ \A m \in Members : mode[m] = "online" => link[m] # NoCall
  /\ caller \in [PoolCallers -> {"idle", "checked", "calling", "online"}]
  /\ placed \in [PoolCallers -> PoolCalls \cup {NoCall}]
  /\ \A x \in PoolCallers : heard[x] \in Seq({Rang, Answered}) /\ Len(heard[x]) <= ChanCap

PoolInit ==
  /\ listeners = 0
  /\ poolSlot = NoCall
  /\ member = [m \in Members |-> "out"]
  /\ mode = [m \in Members |-> "command"]
  /\ incoming = [m \in Members |-> NoCall]
  /\ rung = {}
  /\ link = [m \in Members |-> NoCall]
  /\ caller = [x \in PoolCallers |-> "idle"]
  /\ placed = [x \in PoolCallers |-> NoCall]
  /\ heard = [x \in PoolCallers |-> <<>>]

-----------------------------------------------------------------------------
(* The caller.                                                              *)

\* New calls of x: those nobody holds.
PoolFresh(x) ==
  {c \in {x} \X (1..MaxCalls) :
     /\ poolSlot # c /\ placed[x] # c
     /\ \A m \in Members : c \notin {incoming[m], link[m]}}

CallerIdle(x) ==
  /\ caller' = [caller EXCEPT ![x] = "idle"]
  /\ placed' = [placed EXCEPT ![x] = NoCall]
  /\ heard' = [heard EXCEPT ![x] = <<>>]

\* request_cpm_call: an empty pool is BUSY at once.
Check(x) ==
  /\ caller[x] = "idle" /\ listeners > 0
  /\ caller' = [caller EXCEPT ![x] = "checked"]
  /\ UNCHANGED <<listeners, poolSlot, member, modemVars, placed, heard>>

\* try_place_cpm_call; an occupied slot is BUSY.
Place(x) ==
  /\ caller[x] = "checked"
  /\ IF poolSlot # NoCall
     THEN CallerIdle(x) /\ UNCHANGED poolSlot
     ELSE \E c \in PoolFresh(x) :
          /\ poolSlot' = c
          /\ caller' = [caller EXCEPT ![x] = "calling"]
          /\ placed' = [placed EXCEPT ![x] = c]
          /\ UNCHANGED heard
  /\ UNCHANGED <<listeners, member, modemVars>>

\* Seeded bug: the guard is disarmed, and the call is left behind.
PoolReclaimNever(x) == poolSlot' = poolSlot

\* Seeded bug: the guard clears the slot whoever's call it holds.
PoolReclaimBlind(x) == poolSlot' = NoCall

\* CpmSlotGuard and take_if_mine.
PoolReclaim(x) == poolSlot' = IF poolSlot = placed[x] THEN NoCall ELSE poolSlot

PoolHearRing(x) ==
  /\ caller[x] = "calling" /\ heard[x] # <<>> /\ Head(heard[x]) = Rang
  /\ heard' = [heard EXCEPT ![x] = Tail(@)]
  /\ UNCHANGED <<listeners, poolSlot, member, modemVars, caller, placed>>

PoolHearAnswer(x) ==
  /\ caller[x] = "calling" /\ heard[x] # <<>> /\ Head(heard[x]) = Answered
  /\ caller' = [caller EXCEPT ![x] = "online"]
  /\ heard' = [heard EXCEPT ![x] = <<>>]
  /\ UNCHANGED <<listeners, poolSlot, member, modemVars, placed>>

\* Out of time (BUSY, NO ANSWER), the call dropped by the far end, or cancelled.
PoolGiveUp(x) ==
  /\ caller[x] = "calling"
  /\ PoolReclaim(x)
  /\ CallerIdle(x)
  /\ UNCHANGED <<listeners, member, modemVars>>

\* The caller's bridge ends.
CallerHangsUp(x) ==
  /\ caller[x] = "online"
  /\ CallerIdle(x)
  /\ UNCHANGED <<listeners, poolSlot, member, modemVars>>

-----------------------------------------------------------------------------
(* A member of the pool.                                                    *)

\* cpm_peer_listen_enter, with the fresh modem of a new session.
Join(m) ==
  /\ member[m] = "out"
  /\ listeners' = listeners + 1
  /\ member' = [member EXCEPT ![m] = "in"]
  /\ UNCHANGED <<poolSlot, modemVars, callerVars>>

\* cpm_peer_listen_exit: fetch_sub tells whether this was the last member.
Leave(m) ==
  /\ member[m] = "in"
  /\ listeners' = listeners - 1
  /\ member' = [member EXCEPT ![m] = IF listeners <= 1 THEN "last" ELSE "leaving"]
  /\ UNCHANGED <<poolSlot, modemVars, callerVars>>

\* The last member empties the slot; the session's modem goes with what it holds.
Left(m) ==
  /\ member[m] \in {"leaving", "last"}
  /\ poolSlot' = IF member[m] = "last" THEN NoCall ELSE poolSlot
  /\ member' = [member EXCEPT ![m] = "out"]
  /\ mode' = [mode EXCEPT ![m] = "command"]
  /\ incoming' = [incoming EXCEPT ![m] = NoCall]
  /\ rung' = rung \ {m}
  /\ link' = [link EXCEPT ![m] = NoCall]
  /\ UNCHANGED <<listeners, callerVars>>

\* Seeded bug: a call held across +++ does not count as a connection.
CanAnswerHeld(m) == mode[m] = "command" /\ incoming[m] = NoCall

\* can_answer.
CanAnswer(m) == mode[m] = "command" /\ incoming[m] = NoCall /\ link[m] = NoCall

\* The pump between two batches: take_cpm_call_request and accept_incoming.
TakeCall(m) ==
  /\ member[m] = "in" /\ CanAnswer(m) /\ poolSlot # NoCall
  /\ incoming' = [incoming EXCEPT ![m] = poolSlot]
  /\ rung' = rung \ {m}
  /\ poolSlot' = NoCall
  /\ UNCHANGED <<listeners, member, mode, link, callerVars>>

\* The caller of c still waits for its outcome.
PoolReceiverAlive(c) == caller[Caller(c)] = "calling" /\ placed[Caller(c)] = c

\* The progress channel of m's call takes a byte, or its caller has gone; a full
\* channel makes the modem wait.
Sends(m, b) ==
  LET x == Caller(incoming[m]) IN
  IF PoolReceiverAlive(incoming[m])
  THEN /\ Len(heard[x]) < ChanCap
       /\ heard' = [heard EXCEPT ![x] = Append(@, b)]
  ELSE UNCHANGED heard

\* service_ring: ring the guest, or drop a call whose caller has gone.
MemberRings(m) ==
  /\ member[m] = "in" /\ incoming[m] # NoCall /\ mode[m] = "command"
  /\ Sends(m, Rang)
  /\ IF PoolReceiverAlive(incoming[m])
     THEN rung' = rung \cup {m} /\ UNCHANGED incoming
     ELSE rung' = rung \ {m} /\ incoming' = [incoming EXCEPT ![m] = NoCall]
  /\ UNCHANGED <<listeners, poolSlot, member, mode, link, caller, placed>>

\* answer_incoming, by ATA or after S0 rings: the answer is sent, heard or not, and
\* the modem goes online with the call whatever connection it held.
AnswerIncoming(m) ==
  /\ member[m] = "in" /\ incoming[m] # NoCall /\ mode[m] = "command" /\ m \in rung
  /\ Sends(m, Answered)
  /\ link' = [link EXCEPT ![m] = incoming[m]]
  /\ mode' = [mode EXCEPT ![m] = "online"]
  /\ incoming' = [incoming EXCEPT ![m] = NoCall]
  /\ rung' = rung \ {m}
  /\ UNCHANGED <<listeners, poolSlot, member, caller, placed>>

\* ATD, refused while a connection is held.  A call that rings stays where it is;
\* the pump has rung for it before it reads what the guest typed.
DialOut(m) ==
  /\ member[m] = "in" /\ mode[m] = "command" /\ link[m] = NoCall
  /\ incoming[m] # NoCall => m \in rung
  /\ link' = [link EXCEPT ![m] = Outgoing]
  /\ mode' = [mode EXCEPT ![m] = "online"]
  /\ UNCHANGED <<listeners, poolSlot, member, incoming, rung, callerVars>>

\* +++ with its guard times.
MemberEscape(m) ==
  /\ member[m] = "in" /\ mode[m] = "online"
  /\ mode' = [mode EXCEPT ![m] = "command"]
  /\ UNCHANGED <<listeners, poolSlot, member, incoming, rung, link, callerVars>>

\* ATO.
MemberReturn(m) ==
  /\ member[m] = "in" /\ mode[m] = "command" /\ link[m] # NoCall
  /\ mode' = [mode EXCEPT ![m] = "online"]
  /\ UNCHANGED <<listeners, poolSlot, member, incoming, rung, link, callerVars>>

\* hangup: ATH at the prompt, or the far end gone or stuck while online.
Hangup(m) ==
  /\ member[m] = "in" /\ link[m] # NoCall
  /\ link' = [link EXCEPT ![m] = NoCall]
  /\ mode' = [mode EXCEPT ![m] = "command"]
  /\ UNCHANGED <<listeners, poolSlot, member, incoming, rung, callerVars>>

-----------------------------------------------------------------------------
PoolCallerStep(x) ==
  \/ Check(x) \/ Place(x) \/ PoolHearRing(x) \/ PoolHearAnswer(x) \/ PoolGiveUp(x) \/ CallerHangsUp(x)

MemberStep(m) ==
  \/ Join(m) \/ Leave(m) \/ Left(m)
  \/ TakeCall(m) \/ MemberRings(m) \/ AnswerIncoming(m)
  \/ DialOut(m) \/ MemberEscape(m) \/ MemberReturn(m) \/ Hangup(m)

PoolNext ==
  \/ \E x \in PoolCallers : PoolCallerStep(x)
  \/ \E m \in Members : MemberStep(m)

PoolSpec == PoolInit /\ [][PoolNext]_poolVars

-----------------------------------------------------------------------------
(* Properties.                                                              *)

\* A call waits in the slot only while its caller waits for it (CpmSlotGuard),
\* so no member answers a call nobody is making.
NoStalePoolCall == poolSlot # NoCall => PoolReceiverAlive(poolSlot)

\* A caller that is connected has been answered: its call rings at no modem and
\* waits in no slot.
PoolConnectedIsAnswered ==
  \A x \in PoolCallers :
    caller[x] = "online" => poolSlot # placed[x] /\ \A m \in Members : incoming[m] # placed[x]

\* The state is well typed, the count of listeners included, no call is left behind
\* by its caller and none is connected that was not answered (CpmSlotGuard).
PoolCallsSound == PoolTypeOK /\ NoStalePoolCall /\ PoolConnectedIsAnswered

\* A waiting call leaves the slot because a member took it, because its own caller
\* is done with it, or because a member that left as the last one empties the slot
\* (cpm_peer_listen_exit) -- never because another caller gives up its call.
PoolCallKept ==
  [][poolSlot # NoCall /\ poolSlot' # poolSlot =>
       \/ \E m \in Members : incoming'[m] = poolSlot
       \/ caller'[Caller(poolSlot)] # "calling"
       \/ \E m \in Members : member[m] = "last" /\ member'[m] = "out"]_poolVars

\* The call a member has answered ends by a hang-up and is never replaced, held
\* across +++ or not.  What can be replaced is a connection the guest dialled while
\* its modem rang, and only by the call that still rings for it; the guest is not told
\* (can_answer, the guard of ATD, answer_incoming).
CallNotReplaced ==
  [][\A m \in Members :
       link[m] # NoCall /\ link'[m] \notin {link[m], NoCall} =>
         link[m] = Outgoing /\ link'[m] = incoming[m]]_poolVars
=============================================================================
