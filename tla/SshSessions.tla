----------------------------- MODULE SshSessions -----------------------------
(***************************************************************************)
(* The SSH listener after the transport is up (src/ssh.rs): the session cap  *)
(* that logins, relay channels and port registrations share, and the        *)
(* registry of slave ports (src/relay.rs) those registrations fill.          *)
(*                                                                          *)
(* One handler serves a connection and runs one request at a time; handlers, *)
(* relay tasks and the claimers of registered ports run concurrently.  The   *)
(* two halves of try_claim_slot are separate steps: job[c] says what the     *)
(* handler of c is in the middle of,                                        *)
(*   idle     nothing                                                       *)
(*   over     fetch_add found the cap reached, the rollback is still to come *)
(*   got      fetch_add was within the cap, the slot is not put to use yet   *)
(*   stamped  a registration has drawn its generation, not entered the map   *)
(***************************************************************************)
EXTENDS Naturals, FiniteSets

CONSTANTS
  Conns,        \* connection slots, reused after a disconnect
  Chans,        \* channel slots
  ConnOf,       \* the connection each channel belongs to
  Addrs,        \* peer addresses
  AddrOf,       \* the address of each connection
  Labels,       \* port labels: "A", "B", "CPM"
  MaxSessions,  \* max_sessions
  MaxGen,       \* bound on the generations drawn
  None          \* no channel, no registration

ASSUME SshAssumption ==
  /\ IsFiniteSet(Conns) /\ IsFiniteSet(Chans)
  /\ ConnOf \in [Chans -> Conns]
  /\ AddrOf \in [Conns -> Addrs]
  /\ MaxSessions \in Nat
  /\ MaxGen \in Nat
  /\ None \notin Chans
  /\ None \notin [label : Labels, gen : Nat] \cup [ch : Chans, gen : Nat]

VARIABLES
  conn,      \* closed, open (not logged in), in, dying (a handler returned Err)
  how,       \* history: the method the login was accepted by
  keyAuthed, \* SshHandler.key_authed
  counted,   \* connections whose login holds a slot
  count,     \* session_count
  job,       \* what each connection's handler is in the middle of
  shell,     \* the channel of each connection's shell
  regs,      \* registered_ports: label and generation of a channel's registration
  inputs,    \* relay_inputs: channels whose input goes to a relay or registration
  tasks,     \* relay tasks that live, and so their SlotGuards: channel and number
  registry,  \* REMOTE_PORTS: channel and generation for an address and label
  bridged,   \* history: generations whose stream a claimer has taken
  orphans,   \* history: generations a later request on their channel overwrote
  gen        \* REMOTE_PORT_GEN

vars == <<conn, how, keyAuthed, counted, count, job, shell, regs, inputs, tasks, registry,
          bridged, orphans, gen>>

Keys == Addrs \X Labels

Idle == [s |-> "idle", why |-> "none", ch |-> None, label |-> None, gen |-> 0]

\* A channel may run several relays, each with a slot of its own.
Tasks == Chans \X (1..MaxSessions)

\* What a slot is claimed for.
Whys == {"password", "key", "register", "relay"}

Jobs == [s : {"idle", "over", "got", "stamped"}, why : Whys \cup {"none"},
         ch : Chans \cup {None}, label : Labels \cup {None}, gen : Nat]

\* The state of the handlers, the counter and the registry; session_count is a
\* usize that never wraps below zero.
TypeOK ==
  /\ conn \in [Conns -> {"closed", "open", "in", "dying"}]
  /\ how \in [Conns -> {"none", "password", "key"}]
  /\ keyAuthed \in [Conns -> BOOLEAN]
  /\ counted \in SUBSET Conns
  /\ count \in Nat
  /\ job \in [Conns -> Jobs]
  /\ shell \in [Conns -> Chans \cup {None}]
  /\ regs \in [Chans -> [label : Labels, gen : Nat] \cup {None}]
  /\ inputs \in SUBSET Chans
  /\ tasks \in SUBSET Tasks
  /\ registry \in [Keys -> [ch : Chans, gen : Nat] \cup {None}]
  /\ bridged \in SUBSET Nat
  /\ orphans \in SUBSET Nat
  /\ gen \in Nat

Init ==
  /\ conn = [c \in Conns |-> "closed"]
  /\ how = [c \in Conns |-> "none"]
  /\ keyAuthed = [c \in Conns |-> FALSE]
  /\ counted = {} /\ count = 0
  /\ job = [c \in Conns |-> Idle]
  /\ shell = [c \in Conns |-> None]
  /\ regs = [ch \in Chans |-> None]
  /\ inputs = {}
  /\ tasks = {}
  /\ registry = [k \in Keys |-> None]
  /\ bridged = {}
  /\ orphans = {}
  /\ gen = 0

-----------------------------------------------------------------------------
(* The slot.                                                                *)

\* Seeded bug: the cap is compared after the increment, so one too many fits.
FetchAddLoose(c, why, ch, label) ==
  /\ count' = count + 1
  /\ job' = [job EXCEPT ![c] =
       [s |-> IF count > MaxSessions THEN "over" ELSE "got",
        why |-> why, ch |-> ch, label |-> label, gen |-> 0]]

\* try_claim_slot, first half: the increment tells whether the cap is reached.
FetchAdd(c, why, ch, label) ==
  /\ count' = count + 1
  /\ job' = [job EXCEPT ![c] =
       [s |-> IF count >= MaxSessions THEN "over" ELSE "got",
        why |-> why, ch |-> ch, label |-> label, gen |-> 0]]

\* try_claim_slot, second half when it was: the login is rejected, or the
\* channel request fails.
Rollback(c) ==
  /\ job[c].s = "over"
  /\ count' = count - 1
  /\ job' = [job EXCEPT ![c] = Idle]
  /\ UNCHANGED <<conn, how, keyAuthed, counted, shell, regs, inputs, tasks, registry, bridged,
                 orphans, gen>>

\* channel_success or the hello fails: the slot goes back and the connection,
\* whose handler returned an error, is about to end.
AckFails(c) ==
  /\ job[c].s = "got" /\ job[c].why \in {"register", "relay"}
  /\ count' = count - 1
  /\ job' = [job EXCEPT ![c] = Idle]
  /\ conn' = [conn EXCEPT ![c] = "dying"]
  /\ UNCHANGED <<how, keyAuthed, counted, shell, regs, inputs, tasks, registry, bridged,
                 orphans, gen>>

-----------------------------------------------------------------------------
(* The connection.                                                          *)

Ready(c) == job[c].s = "idle"

Connect(c) ==
  /\ conn[c] = "closed"
  /\ conn' = [conn EXCEPT ![c] = "open"]
  /\ how' = [how EXCEPT ![c] = "none"]
  /\ keyAuthed' = [keyAuthed EXCEPT ![c] = FALSE]
  /\ UNCHANGED <<counted, count, job, shell, regs, inputs, tasks, registry, bridged, orphans, gen>>

\* auth_password or auth_publickey with a right credential.  The key path sets
\* its flag before it asks for a slot.
Authenticate(c) ==
  /\ conn[c] = "open" /\ Ready(c)
  /\ \E why \in {"password", "key"} :
       /\ FetchAdd(c, why, None, None)
       /\ keyAuthed' = [keyAuthed EXCEPT ![c] = @ \/ why = "key"]
  /\ UNCHANGED <<conn, how, counted, shell, regs, inputs, tasks, registry, bridged, orphans, gen>>

\* mark_logged_in.
LoggedIn(c) ==
  /\ job[c].s = "got" /\ job[c].why \in {"password", "key"}
  /\ conn' = [conn EXCEPT ![c] = "in"]
  /\ how' = [how EXCEPT ![c] = job[c].why]
  /\ counted' = counted \cup {c}
  /\ job' = [job EXCEPT ![c] = Idle]
  /\ UNCHANGED <<keyAuthed, count, shell, regs, inputs, tasks, registry, bridged, orphans, gen>>

\* shell_request: one shell per connection, none for a relay key.
OpenShell(ch) ==
  LET c == ConnOf[ch] IN
  /\ conn[c] = "in" /\ Ready(c)
  /\ ~keyAuthed[c]
  /\ shell[c] = None
  /\ shell' = [shell EXCEPT ![c] = ch]
  /\ UNCHANGED <<conn, how, keyAuthed, counted, count, job, regs, inputs, tasks, registry,
                 bridged, orphans, gen>>

\* exec_request: serial-relay or serial-register, up to its claim.  A channel may
\* ask again, whatever it is used for already.
AskChannel(ch) ==
  LET c == ConnOf[ch] IN
  /\ conn[c] = "in" /\ Ready(c)
  /\ \/ FetchAdd(c, "relay", ch, None)
     \/ \E l \in Labels : FetchAdd(c, "register", ch, l)
  /\ UNCHANGED <<conn, how, keyAuthed, counted, shell, regs, inputs, tasks, registry, bridged,
                 orphans, gen>>

\* The relay task starts and owns the slot from here on.
StartRelay(c) ==
  /\ job[c].s = "got" /\ job[c].why = "relay"
  /\ \E n \in 1..MaxSessions :
       /\ <<job[c].ch, n>> \notin tasks /\ \A m \in 1..n - 1 : <<job[c].ch, m>> \in tasks
       /\ tasks' = tasks \cup {<<job[c].ch, n>>}
  /\ inputs' = inputs \cup {job[c].ch}
  /\ job' = [job EXCEPT ![c] = Idle]
  /\ UNCHANGED <<conn, how, keyAuthed, counted, count, shell, regs, registry, bridged, orphans,
                 gen>>

\* The task ends, by any of its branches, in its own time.
RelayEnds(ch) ==
  /\ \E n \in 1..MaxSessions :
       /\ <<ch, n>> \in tasks
       /\ tasks' = tasks \ {<<ch, n>>}
  /\ count' = count - 1
  /\ UNCHANGED <<conn, how, keyAuthed, counted, job, shell, regs, inputs, registry, bridged,
                 orphans, gen>>

\* register_remote_port: the generation is drawn before the map is locked...
Stamp(c) ==
  /\ job[c].s = "got" /\ job[c].why = "register"
  /\ gen < MaxGen
  /\ job' = [job EXCEPT ![c] = [@ EXCEPT !.s = "stamped", !.gen = gen]]
  /\ gen' = gen + 1
  /\ UNCHANGED <<conn, how, keyAuthed, counted, count, shell, regs, inputs, tasks, registry,
                 bridged, orphans>>

\* ...and then the entry replaces whatever the key held, and the registration
\* whatever the channel had: that one's slot is not given back, and its entry,
\* if it had another label, stays until somebody claims it.
Enter(c) ==
  LET j == job[c] IN
  /\ j.s = "stamped"
  /\ registry' = [registry EXCEPT ![<<AddrOf[c], j.label>>] = [ch |-> j.ch, gen |-> j.gen]]
  /\ regs' = [regs EXCEPT ![j.ch] = [label |-> j.label, gen |-> j.gen]]
  /\ orphans' = IF regs[j.ch] = None THEN orphans ELSE orphans \cup {regs[j.ch].gen}
  /\ inputs' = inputs \cup {j.ch}
  /\ job' = [job EXCEPT ![c] = Idle]
  /\ UNCHANGED <<conn, how, keyAuthed, counted, count, shell, tasks, bridged, gen>>

\* claim_remote_peer: a caller takes the current entry of a key, whichever
\* registration it is.
Claim(k) ==
  /\ registry[k] # None
  /\ bridged' = bridged \cup {registry[k].gen}
  /\ registry' = [registry EXCEPT ![k] = None]
  /\ UNCHANGED <<conn, how, keyAuthed, counted, count, job, shell, regs, inputs, tasks, orphans,
                 gen>>

-----------------------------------------------------------------------------
(* The end of a channel and of a connection.                                *)

\* Seeded bug: the entry is dropped by its key alone.
WithoutKeys(gone) ==
  [k \in Keys |->
     IF registry[k] # None /\ \E ch \in gone :
          regs[ch] # None /\ k = <<AddrOf[ConnOf[ch]], regs[ch].label>>
     THEN None ELSE registry[k]]

\* Seeded bug: the entry of a registration that ends is left in the map.
WithoutNone(gone) == registry

\* remove_remote_port_gen for each of these channels: only an entry that is
\* still that registration goes.
Without(gone) ==
  [k \in Keys |->
     IF registry[k] # None /\ \E ch \in gone :
          /\ regs[ch] # None /\ k = <<AddrOf[ConnOf[ch]], regs[ch].label>>
          /\ registry[k].gen = regs[ch].gen
     THEN None ELSE registry[k]]

\* teardown_channel, by EOF or CLOSE: the registration, if the channel is one,
\* gives up its entry and its slot; a relay's task hears the end of its input.
\* The shell on a channel that is also a relay outlives the first of the two.
Teardown(ch) ==
  LET c == ConnOf[ch] IN
  /\ conn[c] = "in" /\ Ready(c)
  /\ regs[ch] # None \/ ch \in inputs \/ shell[c] = ch
  /\ registry' = Without({ch})
  /\ count' = IF regs[ch] # None THEN count - 1 ELSE count
  /\ regs' = [regs EXCEPT ![ch] = None]
  /\ inputs' = inputs \ {ch}
  /\ shell' = [shell EXCEPT ![c] = IF @ = ch /\ ch \notin inputs THEN None ELSE @]
  /\ UNCHANGED <<conn, how, keyAuthed, counted, job, tasks, bridged, orphans, gen>>

Mine(c) == {ch \in Chans : ConnOf[ch] = c}

\* Seeded bug: only the login's slot is given back when a connection drops.
DropConnLoginOnly(c) ==
  /\ conn[c] # "closed" /\ Ready(c)
  /\ conn' = [conn EXCEPT ![c] = "closed"]
  /\ counted' = counted \ {c}
  /\ count' = IF c \in counted THEN count - 1 ELSE count
  /\ registry' = Without(Mine(c))
  /\ regs' = [ch \in Chans |-> IF ConnOf[ch] = c THEN None ELSE regs[ch]]
  /\ inputs' = inputs \ Mine(c)
  /\ shell' = [shell EXCEPT ![c] = None]
  /\ UNCHANGED <<how, keyAuthed, job, tasks, bridged, orphans, gen>>

\* Drop for SshHandler: the login's slot, then every registration still held.
\* Relay tasks outlive it.
DropConn(c) ==
  /\ conn[c] # "closed" /\ Ready(c)
  /\ conn' = [conn EXCEPT ![c] = "closed"]
  /\ counted' = counted \ {c}
  /\ count' = count - (IF c \in counted THEN 1 ELSE 0)
                    - Cardinality({ch \in Mine(c) : regs[ch] # None})
  /\ registry' = Without(Mine(c))
  /\ regs' = [ch \in Chans |-> IF ConnOf[ch] = c THEN None ELSE regs[ch]]
  /\ inputs' = inputs \ Mine(c)
  /\ shell' = [shell EXCEPT ![c] = None]
  /\ UNCHANGED <<how, keyAuthed, job, tasks, bridged, orphans, gen>>

Next ==
  \/ \E c \in Conns :
       \/ Connect(c) \/ Authenticate(c) \/ LoggedIn(c) \/ Rollback(c) \/ AckFails(c)
       \/ StartRelay(c) \/ Stamp(c) \/ Enter(c) \/ DropConn(c)
  \/ \E ch \in Chans : OpenShell(ch) \/ AskChannel(ch) \/ RelayEnds(ch) \/ Teardown(ch)
  \/ \E k \in Keys : Claim(k)

Spec == Init /\ [][Next]_vars

-----------------------------------------------------------------------------
(* Properties.                                                              *)

Registered == {ch \in Chans : regs[ch] # None}
InFlight == {c \in Conns : job[c].s # "idle"}
Granted == {c \in Conns : job[c].s \in {"got", "stamped"}}

Held == Cardinality(counted) + Cardinality(Registered) + Cardinality(tasks)

\* No slot is given back twice, and none leaks but that of a registration whose
\* channel registered again: the counter is the slots in use, the claims in
\* progress and those overwritten, whatever order logins, channels, relay tasks
\* and disconnects end in (try_claim_slot, SlotGuard, register_console_port,
\* teardown_channel, Drop).
CountExact == count = Held + Cardinality(InFlight) + Cardinality(orphans)

\* The cap holds for what was granted, however the claims of several handlers
\* interleave in try_claim_slot.
CapKept == Held + Cardinality(Granted) <= MaxSessions

\* Every entry of the registry is the live registration of a channel that is
\* still open, or one its channel overwrote, and not one already handed to a
\* caller (register_remote_port, claim_remote_peer, remove_remote_port_gen).
RegistryLive ==
  \A k \in Keys : registry[k] # None =>
    LET e == registry[k] IN
    /\ regs[e.ch] = [label |-> k[2], gen |-> e.gen] \/ e.gen \in orphans
    /\ AddrOf[ConnOf[e.ch]] = k[1]
    /\ e.gen \notin bridged

\* A registration leaves the registry only into the hands of a caller or with
\* its own channel: never because an older channel of the same port went away
\* (remove_remote_port_gen).
NewestKept ==
  [][\A k \in Keys :
       registry[k] # None /\ registry'[k] = None =>
         registry[k].gen \in bridged' \/ regs'[registry[k].ch] = None]_vars

\* A relay key never opens the menu (shell_request).
ShellByPassword == \A c \in Conns : shell[c] # None => how[c] = "password"
=============================================================================
