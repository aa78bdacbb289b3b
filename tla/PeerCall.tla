------------------------------ MODULE PeerCall ------------------------------
(***************************************************************************)
(* Calls between modem-mode serial ports (src/serial.rs), and the Ring      *)
(* Emulator's test rings (src/telnet/serial_ui.rs).                         *)
(*                                                                          *)
(* Each port has one slot for an incoming peer call and one for a ring.  A   *)
(* caller puts its call in the slot and waits; the port's thread, when it is *)
(* at its prompt, takes the call, rings its device and answers.  A port is   *)
(* caller and target both, so two ports may call each other at once.        *)
(*                                                                          *)
(* A call is <<caller, number>>; the number tells a caller's successive      *)
(* calls apart, as the identity of their progress channels does, and like it *)
(* is used again only when nobody holds the old call any more.              *)
(***************************************************************************)
EXTENDS CallChannel

CONSTANTS
  Ports,       \* modem-mode ports of this gateway
  Guests,      \* callers that are not ports: telnet picker, relay, CP/M guest
  Ringers,     \* telnet sessions in the Ring Emulator
  RingAt,      \* the port each of them rings
  S0,          \* rings before each port auto-answers, 0 for never
  Menu         \* the gateway menu at the other end of the line

Parties == Ports \cup Guests \cup Ringers

ASSUME PeerAssumption ==
  /\ IsFiniteSet(Parties)
  /\ Ports \cap Guests = {} /\ Ringers \cap (Ports \cup Guests) = {}
  /\ RingAt \in [Ringers -> Ports]
  /\ S0 \in [Ports -> Nat]
  /\ {ChanCap, MaxCalls} \subseteq Nat
  /\ {NoCall, Menu} \cap (Parties \X Nat) = {} /\ NoCall # Menu

VARIABLES
  slot,     \* PEER_CALL_REQUEST: the call waiting at each port
  ring,     \* RING_REQUEST: the ring waiting at each port
  pc,       \* idle (a port: at its prompt), calling, ringing, answering, online
  cur,      \* the call each party is in the middle of
  held,     \* active_connection: the call each port has parked with +++
  progress, \* bytes unread in the progress channel of a caller's current call
  s1        \* S1, the ring counter of each port

vars == <<slot, ring, pc, cur, held, progress, s1>>

Calls == Parties \X (1..MaxCalls)

\* The third byte of the progress channel.
PortError == 2

\* S1 saturates; no S0 is larger than this.
RingCap == 3

\* The shapes of the slots and of what each thread is doing.
TypeOK ==
  /\ slot \in [Ports -> Calls \cup {NoCall}]
  /\ ring \in [Ports -> Calls \cup {NoCall}]
  /\ pc \in [Parties -> {"idle", "calling", "ringing", "answering", "online"}]
  /\ cur \in [Parties -> Calls \cup {NoCall, Menu}]
  /\ held \in [Ports -> Calls \cup {NoCall, Menu}]
  /\ \A x \in Parties : pc[x] = "idle" <=> cur[x] = NoCall
  /\ \A x \in Parties \ Ports : pc[x] \in {"idle", "calling", "online"}
  /\ \A x \in Parties : progress[x] \in Seq({Rang, Answered, PortError}) /\ Len(progress[x]) <= ChanCap
  /\ s1 \in [Ports -> 0..RingCap]

Init ==
  /\ slot = [p \in Ports |-> NoCall]
  /\ ring = [p \in Ports |-> NoCall]
  /\ pc = [x \in Parties |-> "idle"]
  /\ cur = [x \in Parties |-> NoCall]
  /\ held = [p \in Ports |-> NoCall]
  /\ progress = [x \in Parties |-> <<>>]
  /\ s1 = [p \in Ports |-> 0]

-----------------------------------------------------------------------------
(* The caller.                                                              *)

\* New calls of x: those nobody holds.
Fresh(x) ==
  {c \in {x} \X (1..MaxCalls) :
     /\ \A t \in Ports : c \notin {slot[t], ring[t], held[t]}
     /\ \A y \in Parties : cur[y] # c}

\* A party drops its call and is back where it can place another.
BackToIdle(x) ==
  /\ pc' = [pc EXCEPT ![x] = "idle"]
  /\ cur' = [cur EXCEPT ![x] = NoCall]

\* clear_active_connection, at x if it is a port.
HangUp(x) == held' = [p \in Ports |-> IF p = x THEN NoCall ELSE held[p]]

\* try_place_peer_call refuses: a call already waits at t.
SlotTaken(t) == slot[t] # NoCall

\* A dial, up to the wait in request_peer_call.  It first hangs up a call the port
\* has parked; a slot already taken is BUSY at once.
Dial(x, t) ==
  /\ x \in Ports \cup Guests /\ x # t
  /\ pc[x] = "idle"
  /\ HangUp(x)
  /\ IF SlotTaken(t)
     THEN UNCHANGED <<slot, pc, cur, progress>>
     ELSE \E c \in Fresh(x) :
          /\ slot' = [slot EXCEPT ![t] = c]
          /\ pc' = [pc EXCEPT ![x] = "calling"]
          /\ cur' = [cur EXCEPT ![x] = c]
          /\ progress' = [progress EXCEPT ![x] = <<>>]
  /\ UNCHANGED <<ring, s1>>

\* request_ring, from modem_ring_emulator.
RequestRing(r) ==
  /\ r \in Ringers /\ pc[r] = "idle"
  /\ ring[RingAt[r]] = NoCall
  /\ \E c \in Fresh(r) :
     /\ ring' = [ring EXCEPT ![RingAt[r]] = c]
     /\ cur' = [cur EXCEPT ![r] = c]
  /\ pc' = [pc EXCEPT ![r] = "calling"]
  /\ progress' = [progress EXCEPT ![r] = <<>>]
  /\ UNCHANGED <<slot, held, s1>>

\* Seeded bug: the guard empties the slot whoever's call is in it.
ReclaimBlind(x) == slot' = [t \in Ports |-> IF t = x THEN slot[t] ELSE NoCall]

\* Seeded bug: the guard is disarmed, and the call is left behind.
ReclaimNever(x) == slot' = slot

\* PeerSlotGuard and take_if_mine: a caller that leaves without an answer takes
\* its call out of the slot if it is still there.
Reclaim(x) == slot' = [t \in Ports |-> IF slot[t] = cur[x] THEN NoCall ELSE slot[t]]

\* cancel_ring_request: modem_ring_emulator empties the ring slot of the port it
\* rang on every way out, with whatever is in it.
CancelRing(r) == ring' = [ring EXCEPT ![RingAt[r]] = NoCall]

\* The first progress byte is b and leaves the channel.
Hears(x, b) ==
  /\ pc[x] = "calling" /\ progress[x] # <<>> /\ Head(progress[x]) = b
  /\ progress' = [progress EXCEPT ![x] = Tail(@)]

HearRing(x) ==
  /\ Hears(x, Rang)
  /\ UNCHANGED <<slot, ring, pc, cur, held, s1>>

\* The call is answered: the guard is disarmed and the caller bridges its end.
HearAnswer(x) ==
  /\ x \in Ports \cup Guests
  /\ Hears(x, Answered)
  /\ pc' = [pc EXCEPT ![x] = "online"]
  /\ UNCHANGED <<slot, ring, cur, held, s1>>

\* The far end of call c can still send progress: it holds the sender.
SenderAlive(c) ==
  \/ \E t \in Ports : slot[t] = c \/ ring[t] = c
  \/ \E p \in Ports : pc[p] \in {"ringing", "answering"} /\ cur[p] = c

\* A caller gives up: await_peer_outcome runs out of time (BUSY before the first
\* RING, NO ANSWER after), or a restart or the session's end cancels the wait.
GiveUp(x) ==
  /\ x \in Ports \cup Guests /\ pc[x] = "calling"
  /\ Reclaim(x)
  /\ BackToIdle(x)
  /\ progress' = [progress EXCEPT ![x] = <<>>]
  /\ UNCHANGED <<ring, held, s1>>

\* The target reports a port error, or has dropped the call.
HearFailure(x) ==
  /\ x \in Ports \cup Guests /\ pc[x] = "calling"
  /\ \/ Hears(x, PortError)
     \/ progress[x] = <<>> /\ ~SenderAlive(cur[x]) /\ UNCHANGED progress
  /\ Reclaim(x)
  /\ BackToIdle(x)
  /\ UNCHANGED <<ring, held, s1>>

\* modem_ring_emulator leaves its loop: answered, port error, channel closed, 15
\* seconds without a ring, or Q.
EndRing(r) ==
  /\ r \in Ringers /\ pc[r] = "calling"
  /\ CancelRing(r)
  /\ BackToIdle(r)
  /\ progress' = [progress EXCEPT ![r] = <<>>]
  /\ UNCHANGED <<slot, held, s1>>

-----------------------------------------------------------------------------
(* The target: one port's modem thread.                                     *)

\* Seeded bug: a parked call does not hold the line.
LineFreeParked(p) == pc[p] = "idle"

\* line_free_for_incoming: at the prompt, and no call parked.
LineFree(p) == pc[p] = "idle" /\ held[p] = NoCall

\* The thread takes what waits in one of the port's slots and starts to ring.
StartRinging(p, c) ==
  /\ pc' = [pc EXCEPT ![p] = "ringing"]
  /\ cur' = [cur EXCEPT ![p] = c]
  /\ s1' = [s1 EXCEPT ![p] = 0]
  /\ UNCHANGED <<held, progress>>

TakeRing(p) ==
  /\ LineFree(p) /\ ring[p] # NoCall
  /\ StartRinging(p, ring[p])
  /\ ring' = [ring EXCEPT ![p] = NoCall]
  /\ UNCHANGED slot

TakePeerCall(p) ==
  /\ LineFree(p) /\ slot[p] # NoCall
  /\ StartRinging(p, slot[p])
  /\ slot' = [slot EXCEPT ![p] = NoCall]
  /\ UNCHANGED ring

\* The caller of c still waits for its outcome: the receiver is there.
ReceiverAlive(c) == pc[Caller(c)] = "calling" /\ cur[Caller(c)] = c

\* try_send on the progress channel of p's call would succeed.
CanSend(p) == ReceiverAlive(cur[p]) /\ Len(progress[Caller(cur[p])]) < ChanCap

Send(p, b) == progress' = [progress EXCEPT ![Caller(cur[p])] = Append(@, b)]

\* Seeded bug: the ring goes on whether or not the caller is still there.
RingOnceRegardless(p) ==
  /\ pc[p] = "ringing"
  /\ s1' = [s1 EXCEPT ![p] = IF @ < RingCap THEN @ + 1 ELSE @]
  /\ IF CanSend(p) THEN Send(p, Rang) ELSE UNCHANGED progress
  /\ pc' = [pc EXCEPT ![p] = IF S0[p] > 0 /\ s1'[p] >= S0[p] THEN "answering" ELSE @]
  /\ UNCHANGED <<slot, ring, cur, held>>

\* ring_loop, one RING: the ring is counted, then the caller is told; it auto-answers
\* at S0 rings and stops when the caller has gone.
RingOnce(p) ==
  /\ pc[p] = "ringing"
  /\ s1' = [s1 EXCEPT ![p] = IF @ < RingCap THEN @ + 1 ELSE @]
  /\ IF CanSend(p)
     THEN /\ Send(p, Rang)
          /\ pc' = [pc EXCEPT ![p] = IF S0[p] > 0 /\ s1'[p] >= S0[p] THEN "answering" ELSE @]
          /\ UNCHANGED cur
     ELSE BackToIdle(p) /\ UNCHANGED progress
  /\ UNCHANGED <<slot, ring, held>>

\* ring_loop: writing RING to the device failed.
RingFails(p) ==
  /\ pc[p] = "ringing"
  /\ IF CanSend(p) THEN Send(p, PortError) ELSE UNCHANGED progress
  /\ BackToIdle(p)
  /\ s1' = [s1 EXCEPT ![p] = IF @ < RingCap THEN @ + 1 ELSE @]
  /\ UNCHANGED <<slot, ring, held>>

\* ring_loop: the device types ATA between two rings.
AnswerByHand(p) ==
  /\ pc[p] = "ringing" /\ s1[p] > 0
  /\ pc' = [pc EXCEPT ![p] = "answering"]
  /\ UNCHANGED <<slot, ring, cur, held, progress, s1>>

\* process_peer_ring after the ring: tell the caller and go online, or back to
\* the prompt when it has given up meanwhile.
AnswerPeer(p) ==
  /\ pc[p] = "answering" /\ Caller(cur[p]) \notin Ringers
  /\ IF CanSend(p)
     THEN /\ Send(p, Answered)
          /\ pc' = [pc EXCEPT ![p] = "online"]
          /\ UNCHANGED cur
     ELSE BackToIdle(p) /\ UNCHANGED progress
  /\ UNCHANGED <<slot, ring, held, s1>>

\* process_ring after the ring: the device gets the gateway menu.
AnswerRing(p) ==
  /\ pc[p] = "answering" /\ Caller(cur[p]) \in Ringers
  /\ IF CanSend(p) THEN Send(p, Answered) ELSE UNCHANGED progress
  /\ pc' = [pc EXCEPT ![p] = "online"]
  /\ cur' = [cur EXCEPT ![p] = Menu]
  /\ UNCHANGED <<slot, ring, held, s1>>

-----------------------------------------------------------------------------
(* A call that is up.                                                       *)

\* Online mode ends: the far end hung up, or this side did (the device's port
\* failed, a guest left, the menu ended).
EndOnline(x) ==
  /\ pc[x] = "online"
  /\ BackToIdle(x)
  /\ UNCHANGED <<slot, ring, held, progress, s1>>

\* +++ parks the call, whatever active_connection held, and gives the device the
\* prompt.
Escape(p) ==
  /\ p \in Ports /\ pc[p] = "online"
  /\ held' = [held EXCEPT ![p] = cur[p]]
  /\ BackToIdle(p)
  /\ UNCHANGED <<slot, ring, progress, s1>>

\* ATO: back online, where a far end that has gone is noticed at once.
ReturnOnline(p) ==
  /\ pc[p] = "idle" /\ held[p] # NoCall
  /\ pc' = [pc EXCEPT ![p] = "online"]
  /\ cur' = [cur EXCEPT ![p] = held[p]]
  /\ HangUp(p)
  /\ UNCHANGED <<slot, ring, progress, s1>>

\* ATH, ATZ, AT&F.
HangUpParked(p) ==
  /\ pc[p] = "idle" /\ held[p] # NoCall
  /\ HangUp(p)
  /\ UNCHANGED <<slot, ring, pc, cur, progress, s1>>

\* The port's thread is restarted: whatever it was doing is dropped, the caller's
\* guard included; what waits in its slots stays.
Restart(p) ==
  /\ p \in Ports /\ (pc[p] # "idle" \/ held[p] # NoCall)
  /\ IF pc[p] = "calling"
     THEN Reclaim(p) /\ progress' = [progress EXCEPT ![p] = <<>>]
     ELSE UNCHANGED <<slot, progress>>
  /\ BackToIdle(p)
  /\ HangUp(p)
  /\ UNCHANGED <<ring, s1>>

-----------------------------------------------------------------------------
CallerStep(x) ==
  \/ \E t \in Ports : Dial(x, t)
  \/ HearRing(x) \/ HearAnswer(x) \/ HearFailure(x) \/ GiveUp(x)
  \/ RequestRing(x) \/ EndRing(x)
  \/ EndOnline(x)

PortStep(p) ==
  \/ TakeRing(p) \/ TakePeerCall(p)
  \/ RingOnce(p) \/ RingFails(p) \/ AnswerByHand(p) \/ AnswerPeer(p) \/ AnswerRing(p)
  \/ Escape(p) \/ ReturnOnline(p) \/ HangUpParked(p)
  \/ Restart(p)

Next ==
  \/ \E x \in Parties : CallerStep(x)
  \/ \E p \in Ports : PortStep(p)

Spec == Init /\ [][Next]_vars

\* A port rings, every RING_INTERVAL, for the call of ring session r.
Rung(r) == \E p \in Ports : pc[p] = "ringing" /\ cur[p] = cur[r]

\* The modem threads run and the callers' timers fire.  The timer of a ring session
\* starts again at every RING, so it fires only when no port rings for it.  Nobody
\* need answer, hang up or type anything.
FairSpec ==
  /\ Spec
  /\ \A x \in Ports \cup Guests : WF_vars(GiveUp(x))
  /\ \A r \in Ringers : WF_vars(EndRing(r) /\ ~Rung(r))
  /\ \A p \in Ports : WF_vars(RingOnce(p) \/ AnswerPeer(p) \/ AnswerRing(p))

-----------------------------------------------------------------------------
(* Properties.                                                              *)

\* A call waits in a slot only while its caller waits for it: a caller that gave
\* up, was cancelled or was restarted leaves nothing behind for the port to ring
\* for, or for the next caller to find busy (PeerSlotGuard).
NoStaleCall ==
  \A p \in Ports : slot[p] # NoCall => ReceiverAlive(slot[p])

\* Party x is connected by call c: it is online, or has parked it.
Connected(x, c) ==
  \/ pc[x] = "online" /\ cur[x] = c
  \/ x \in Ports /\ held[x] = c

\* A caller that is connected has been answered: nobody still rings for its call
\* and it waits in no slot, so its bytes go to the device that answered or to
\* nobody (await_peer_outcome, process_peer_ring).
ConnectedIsAnswered ==
  \A x \in Ports \cup Guests : \A c \in {x} \X (1..MaxCalls) :
    Connected(x, c) =>
      \A p \in Ports :
        /\ slot[p] # c
        /\ p # x /\ cur[p] = c => pc[p] = "online"

\* The state is well typed, no call is left behind by its caller and none is
\* connected that was not answered (PeerSlotGuard, await_peer_outcome).
CallsSound == TypeOK /\ NoStaleCall /\ ConnectedIsAnswered

\* A waiting call leaves its slot only because the port took it or because its
\* own caller is done with it, never because another caller is.
CallKept ==
  [][\A p \in Ports :
       slot[p] # NoCall /\ slot'[p] # slot[p] =>
         cur'[p] = slot[p] \/ pc'[Caller(slot[p])] # "calling"]_vars

\* A call parked with +++ is given up only by its own port's ATO, hang-up, dial or
\* restart: no call or ring that the port takes, rings for and answers in between
\* ever takes its place (line_free_for_incoming: both answer paths assign
\* active_connection outright).
ParkedKept ==
  [][\A p \in Ports :
       held[p] # NoCall /\ held'[p] # held[p] => held'[p] = NoCall]_vars

\* A port without auto-answer rings for a ring session that still waits: it may
\* ring for ever, each RING starting that session's timer again.
RingsOn(p) == S0[p] = 0 /\ Caller(cur[p]) \in Ringers /\ ReceiverAlive(cur[p])

\* Nobody waits for ever: a caller comes to an outcome, also when two ports call
\* each other and neither is at its prompt to answer, and a port stops ringing, also
\* when the caller has gone and nobody answers.  Only a port without auto-answer can
\* ring for ever, for a ring session that waits as long as it hears RING (ring_loop,
\* modem_ring_emulator).
WaitsEnd ==
  /\ \A x \in Ports \cup Guests : (pc[x] = "calling") ~> (pc[x] # "calling")
  /\ \A p \in Ports : (pc[p] = "ringing" /\ ~RingsOn(p)) ~> (pc[p] # "ringing")
=============================================================================
