# TLA+ verification of the Ethernet Gateway

This directory holds the formal models of the gateway (`src/`, Rust): TLA+
modules translated from the source, the TLC configurations that check them on
small instances, and TLAPS proofs. `PROJECT.json` is the index: which definition
models which lines, which run checks which property, the seeded bugs that show
each property can fail, the hazards the properties are for, and the findings.

Run a model with `tlc -config <run>.cfg <module>` and the proofs with
`tlapm <module>.tla` for each of `LoginProofs`, `SshSessionsProofs`,
`PeerCallProofs`, `CpmPoolProofs`, `AdmissionProofs`, `LifecycleProofs`,
`ZmodemProofs` and `KermitProofs` (from nothing the last two take several minutes
and about a quarter of an hour).

## 1. Inventory

The gateway is one process: tokio tasks for the listeners (telnet, SSH, web) and
their sessions, one plain thread per serial port, the CP/M emulator's threads,
and an optional GUI. What they share is a small set of process-wide maps, slots
and counters; that is where the hard behaviour is.

| Component | State | Operations | Interacts through | Hard because | Correct when |
|---|---|---|---|---|---|
| XMODEM/YMODEM (`xmodem.rs`) | locals of a send or receive loop: block number, offset, retry counters, negotiated mode, received files | negotiate, send/receive block, EOT, batch header, purge, cancel | bytes on a serial line, TCP or SSH channel | lost, damaged, spurious and late bytes; timeouts on both ends | what arrives is a prefix; success means whole; both ends return |
| Lockout and turns (`telnet/mod.rs`, `session.rs`, `ssh.rs`, `webserver.rs`) | failure map by address, `TURNS` map of mutexes | ask the lockout, take a turn, verify, count or clear, log in, drop | one map for three listeners; derivation on another thread | checks before an await, swept entries, cancelled futures | no more guesses than allowed; turns come; lockouts end |
| SSH server (`ssh.rs`, `relay.rs`) | session counter, login flags, shell, registered ports, relay tasks, `REMOTE_PORTS` | password and key login, shell, relay, register, claim, teardown, drop | russh callbacks, tasks that outlive their handler, claimers | slots claimed and released on many paths; requests repeated on one channel; reconnecting slaves | every slot released once; the newest registration survives |
| Peer calls and rings (`serial.rs`, `telnet/serial_ui.rs`) | one call slot and one ring slot per port, the port's line, progress channels | dial, give up, take, ring, answer, escape, return, hang up, restart | slots polled by the port threads | callers that leave, ports that call each other | no call lost to another caller, rung for nobody, or held twice; waits end |
| CP/M endpoint (`serial.rs`, `cpm_emu.rs`, `cpm_modem.rs`) | listener count, one slot, each session's modem | join, leave, place, take, ring, answer, dial, escape, hang up | the pool's slot, polled by every session | counter and slot change in two steps | each call at one member; held calls kept |
| Modem AT interpreter (`serial.rs`) | S registers, echo, `+++` detector | AT commands | the port's thread | guard times against incoming data | escapes are found, data is not eaten |
| Console bridge (`serial.rs`) | request slot per port, port ownership | request, claim, bridge, release | slots polled by the serial manager | cancelled requests | one owner, no stale request |
| Admission (`telnet/mod.rs`, `session.rs`, `ssh.rs`) | telnet session count, connection-rate map, pre-login pool | accept, refuse, through the door, log in, time out, drop | one rate map for two accept loops, a pool shared by tasks | a place released on whichever of two paths comes first; peers that never speak or never read | each slot and place released once; the limit kept; silent peers lose both |
| Relay, slave side (`relay.rs`) | enrolment latch, announcer role, backoff | connect, register, serve, retry | SSH to the master | reconnects and role handover | one announcer; retries go on |
| Kermit (`kermit.rs`) | capabilities, window, packet numbers, replay of the last answers, files | negotiate, send (one at a time, window, stream), receive, resume, refuse | packets | numbers wrap, answers cross, ends of files are repeated | as for XMODEM |
| ZMODEM (`zmodem.rs`) | position, retry counters, files | offer, skip, data runs, reposition, end | headers and subpackets | data without numbers, repositioning while data is under way | as for XMODEM |
| Punter (`punter.rs`) | block index, announced size, phase, probe counters | handshake, block, bad round, end-off | codes without numbers and blocks | two phases with the same codes; premature repeats | as for XMODEM |
| Instance, signals, restart (`main.rs`, `instance.rs`) | instance lock, `handover.request`, the flags `stop`, `shutdown`, `restart` | launch, take over, stand down, reload, restart, stop | the file system, another process, three threads of one | flags stored one at a time by several threads; timeouts between processes | one gateway; a stop is obeyed; a reload is no stop |
| Configuration (`config.rs`) | `egateway.conf` and its copy in memory | load, read only, save | the file system | crash or power loss between two steps; two processes | a whole file; a save undone by nobody who could have read it |
| Logger (`logger.rs`) | log file and its generations | append, rotate | the file system | one rename of several fails | no generation overwritten |
| Menus, browser, AI chat, weather, GUI, web pages, CP/M emulation | a session's own | dialogue, rendering, emulation | I/O | -- | out of scope, section 7 |

`PROJECT.json` lists every component with its status, and under `hazards` the
places where these behaviours bite, each with the properties that would catch
them going wrong.

## 2. Plan

1. *XMODEM/YMODEM*: `XmodemWire`, `XmodemSender`, `XmodemReceiver`, composed in
   `Xmodem`. Done; the streaming YMODEM-g path and the removal of padding are left.
2. *Login*: `Login`, `LoginProofs`. Done, safety proved.
3. *SSH sessions and the port registry*: `SshSessions`, `SshSessionsProofs`.
   Done, safety proved.
4. *Calls*: `CallChannel`, `PeerCall`, `PeerCallProofs`, `CpmPool`, `CpmPoolProofs`,
   run together in `MCCalls`. Done, safety proved.
5. *Admission*: `Addresses`, `Admission`, `AdmissionProofs`, run together with `Login`
   in `MCGate`. Done, safety proved.
6. *Kermit*, *ZMODEM*, *Punter*: `Line`, `Kermit`, `Zmodem`, `Punter`, each shown
   to implement the abstract `FileTransfer`. Done, proved for ZMODEM
   (`ZmodemProofs`, batches that are received in full) and for Kermit sessions that are
   not streamed (`KermitInvariant`, `KermitProofs`); Kermit's server mode and the rarer
   ZMODEM frames are left.
7. *Lifecycle*: `Lifecycle`, `LifecycleProofs`. Done, safety proved.
8. *Slave*: enrolment latch, registration loop, announcer role, composed with
   `SshSessions` as the master. *Console bridge*: the request slots.
9. Proofs left: Kermit's streams with a window of 1, ZMODEM batches with files turned
   down, and `FilesKept` of `Xmodem`.

## 3. Modules

### XmodemWire, XmodemSender, XmodemReceiver, Xmodem

The sender's record `s` and the receiver's record `r` hold the locals of
`xmodem_send` (with `send_ymodem_block_zero` and `send_ymodem_end_of_batch`) and
of `receive_batch_into` (with `receive_block_body`, `read_ymodem_block_zero_body`
and `purge_line`); `pc` is the read the code is suspended in. One action is one
item read, or one timeout, and everything the code does until its next read. The
line is two FIFO queues. A block travels as one item carrying its number, length,
place in the file, kind of trailer and whether it is undamaged; every other byte
is an item of its own. Data is abstract: a block *is* an interval of the file in
units of 128 bytes, and `intact` says whether each block appended was the one
that belongs at that place. Block numbers wrap at `SeqMod` (256 in the code).
What is transferred is the constant `Transfers`, a set of records (protocol, block
size, size of the files, how many); the variable `xfer` is the one this behaviour
is about, chosen in `Init` and never changed.

Line faults (`LoseToR` ... `HangUp`) are external, at most `MaxFaults` of them: an
item lost or damaged, a noise byte, a dropped connection, a wait that runs out
although the answer is under way. Timeouts that need no fault happen only when
the other end has nothing to react to either. Each half is checked against the
other because the gateway is used at either end; several files in a batch come
from an external sender, since `xmodem_send` sends one.

### Login

A connection is at its prompt, waiting for the turn of its address, checking,
logged in, or closed. `turns` is the map of `auth_turn`, `mutex` the reference a
connection keeps, `owner` who has locked each mutex; the sweep in `auth_turn`
removes entries nobody refers to, and a later call may allocate a mutex anew.
`TakeTurn` and `RefusedInTurn` model the second look at the lockout inside the
turn, `GuessRight` and `GuessWrong` the end of the key derivation with what is
counted before the guard drops. Telnet's deadline may drop the login anywhere.
Public keys take no turn: `OfferKey` and `KeyAccepted` are two steps. The slot of the
session cap that an SSH login needs is not counted here: `LogIn` lets it be granted or
refused, and `SshSessions` models the claim with its rollback and what else holds
slots. Time is a tick; ages stop at the window. `Addresses` is what `Login` and
`Admission` share: both are keyed by the peer's address.

### SshSessions

`try_claim_slot` is two steps (`FetchAdd`, then `Rollback` or the use of the
slot), so that other handlers run in between; `register_remote_port` is two
(`Stamp`, `Enter`) because the generation is drawn before the map is locked. A
handler runs one request at a time, which `job` says. Slots go back through
`RelayEnds` (`SlotGuard`), `AckFails`, `Teardown` and `DropConn`. `how` is a
history variable. `Claim` is any caller of `claim_remote_peer`. A channel may make any
number of requests: several relays, each a task with a slot of its own (`tasks`), and
a second `serial-register`, which overwrites the first (`Enter`). What the first one
held is then never given back; `orphans` remembers its generation, so that the
properties can name exactly this leak.

### PeerCall

`slot[p]` and `ring[p]` are `PEER_CALL_REQUEST` and `RING_REQUEST`. A call is a
pair of its caller and a number, so that a guard can tell its own call
(`take_if_mine`). `progress` is the bounded channel on which a port tells the
caller 0 (ring) and 1 (answered). Port threads, CP/M guests that dial a port, and
Ring Emulator sessions are `Parties`; a port thread that dials is not at its
prompt and takes no call. `Restart` is a port thread ending and starting again.
`CallChannel` is what these calls share with those of the CP/M pool: the caller of a
call and the bytes of its progress channel.

### CpmPool

`listeners` and `slot` are `CPM_PEER_LISTENERS` and `CPM_CALL_REQUEST`. Leaving
is two steps (`Leave`, `Left`) and so is placing a call (`Check`, `Place`), as in
the code. A member's modem keeps `mode`, the call it rings for and its
connection, which `+++` holds. The guest may dial out while its modem rings
(`DialOut`), which a port's thread cannot.

### Line, FileTransfer, Kermit, Zmodem, Punter

`Line` is what the three packet protocols share: the two halves `s` and `r`, a
FIFO queue of packets each way, and the faults, at most `MaxFaults` of the kinds
in `FaultKinds` -- a packet lost, a packet damaged, a wait that runs out although
the answer is under way, the user's Escape or a CAN CAN, a dropped connection.
Each protocol module adds its two halves, one action per packet read or wait that
ends, with everything the code does until it reads again.

`FileTransfer` is what a transfer promises: the receiver's file grows as a prefix
of the sender's, a file is handed over only when it is whole, and a sender that
reports success has had every file handed over. `KeepsPromise` in each of the
three modules is the refinement (`INSTANCE FileTransfer WITH ...`): `got` is the
part of the open file that is the sender's, in place; `kept` counts the files
handed over that are whole, so that handing over any other is no step of
`FileTransfer`. XMODEM does not implement it: two faults (a stray EOT and its
repetition) end a file early there, which is why the success properties of
`Xmodem` speak of one fault.

* `Kermit`: `s.pc` is the packet the sender waits to see acknowledged (stop and
  wait), `W` the sliding window of `send_d_packets_windowed` or `T` the stream of
  `send_d_and_z_streaming`. The receiver keeps the packets it has put aside, the
  number it expects, the last answers it replays and the files. Numbers are taken
  modulo `Numbers` (64 in the code); the assumption that the window is less than
  half of them is the code's (31 of 64). Capabilities are negotiated by
  `intersect_capabilities`; a check sum of another type than the reader's is
  unreadable to it. A file is a row of chunks; `partial` is what an earlier
  attempt left.
* `Zmodem`: headers carry a position, subpackets do not; `r.pos` is what the
  receiver counts and `r.good` what really is in place. `segmented` is a receiver
  with a small buffer, `skip` the files it turns down. `NegRetries` stands for the
  intervals that fit in the negotiation timeout. The line may drop any item, a ZDATA
  header alone included (`DataHeaderAlone`): its subpacket then reaches a receiver that
  may be inside an earlier frame of the file and appends it there. And a ZSKIP does not
  say which file it is about (`Strays`). Neither can be noticed by either half; the
  history variable `amiss` records that one of them has happened, and what is said of
  the bytes is said until then. What is not said of the bytes -- types, retry limits,
  the length of every file listed, that both halves return -- holds whatever happens.
* `Punter`: codes and blocks are items with lengths, because `read_block` takes
  exactly the announced number of bytes, whatever they are; a block of another
  length leaves a rest. `Probes` and `NegProbes` are the resends that fit in the
  two timeouts.

### Admission

The telnet and the SSH accept loop, each serving one connection at a time in
steps between which the other loop, the sessions and the clock run. `seen` is the
rate limiter's map: for each address a set of stamps, one per connection, with an
age and a number that tells two of one moment apart (the code's vector of
instants; its order is never looked at). `letIn` is a history of the connections
the limiter let in within the window;
`rateMax` and `window` change when the operator changes them, and are read afresh at
every accept. A shorter window prunes stamps that a longer one would still count, so
after a change the count goes on from what is held (`SetWindow`). A telnet
connection holds its slot from the claim (`TelnetClaim`) and gives it back by the
refusals or by `SessionSlotGuard`; `through_the_door` is `TelnetIn`,
`TelnetDeadline` and `TelnetBye`, the last bounded although the peer may have
stopped reading (`stuck`). An SSH place is given back by `mark_logged_in` or by
the drop of `PreLoginStream`, in two steps each (`Release`: the swap; `GiveBack`:
the turn at the pool's mutex).

### Lifecycle

Copies of the gateway in one directory. `pc` is where `main` is; the signal
watcher and the handover watcher are threads of their own with a step per store
or load of a shared flag, because the code's argument (`reset_for_next_cycle`) is
about their order. `req` is `handover.request` with its age, as far as file times
can tell it; `lock` the instance lock, released by the kernel. A configuration is the
set of the saves it contains. `file` is the one on disk; a staged file is synced and
then renamed, the directory is not synced, so a power loss may bring the version before
back, and a version whose bytes were not synced back in pieces. `conf` is `CONFIG`, the
copy's own in memory, and `out` what it is about to write and on whose behalf:

* `load`: the start of a cycle reads the file and rewrites it;
* `update`: telnet, web and serial ports read the file, change it and rewrite it (`Save`);
* `memory`: the same, when the file cannot be read: `CONFIG` is changed and written
  (`SaveUnread`);
* `window`: the window writes all its editor holds without reading the file
  (`WindowSave`): `CONFIG` as of the last frame, or, when it has unsaved edits, the
  configuration those began from (`edit`).

`kept` remembers that `CONFIG` may be behind the file: it could not be read when the
copy took over, or older edits could not be written. A cycle makes the transfer
directory before it serves (`up`); when that fails, in the first cycle or after a
reload, the copy shows why and ends (`fatal`).

Not modelled: the signal watcher's two stores (restart, shutdown) are one step, since
`main` needs at least half a second between them to see the one without the other; a
save runs inside the cycle that made it, so one that outlives the teardown's two
seconds is left out; so are lock files that cannot be opened, and a configuration file
deleted by hand while the gateway runs, which is rebuilt from the defaults.

## 4. Runs

| Run | Bounds | Checks |
|---|---|---|
| `xmodem` | XMODEM (6 blocks), XMODEM-1K (7 units, STX of 2), YMODEM (3 blocks, 1 file and 3 files; the receiver takes 2); numbers mod 5, 1 retry, 2 faults | `BytesInPlace`, success means whole (one fault), `FilesKept`, `BothReturn` |
| `xmodem_1k_fallback` | 1 fault, no noise | **violated**: finding 1 |
| `gate` | doors: 2 telnet and 2 SSH connections of one address, which the allowlist may bar, limit off or 1, window 1 or 2 ticks, 1 session, 2 places of which 1 per address; check: a telnet, two SSH and a web connection of one address, 2 mutexes, 2 attempts | `PlacesSound`, `RateKept`, `OnlyLetInCounts`, `DoorEnds`, `PlaceReturns`; turn exclusion, bounded guesses, no check while locked out, every wait answered, every lockout ends |
| `ssh` | 2 connections with a channel each, any requests on it, 2 labels, cap 4, 2 generations | exact count but for the leak named, cap, registry, newest registration kept |
| `calls` | 2 ports, a CP/M guest and a ring session; 2 pool members and 2 callers; one call each held at a time, channels of 2 bytes | `CallsSound`, `CallKept`, `ParkedKept`, `WaitsEnd`; `PoolCallsSound`, `PoolCallKept`, `CallNotReplaced` |
| `kermit` | 3 files to a classic Kermit that takes 2, one file of 6 chunks in a window of 2 with numbers mod 5, a resumed batch, a stream of 3 (window 1); 1 retry, 2 faults of any kind | `TransferSound`, `BothReturn`, `KeepsPromise` |
| `kermit_stream` | a stream of 2 chunks in a window of 3, numbers mod 8, 2 packets lost | **violated**: finding 3 |
| `zmodem` | six batches of up to 3 files or 3 subpackets, streamed, segmented, the first file of 2 or of 3 turned down, too long; 2 retries, 3 faults of any kind | `TransferSound`, `BothReturn`, `KeepsPromise` |
| `zmodem_skip` | 3 files, the first turned down, 1 late answer | **violated**: finding 4 |
| `punter` | an empty file, one block, three blocks with an equal or a shorter last one; 2 faults of any kind | `TransferSound`, `BothReturn`, `KeepsPromise` |
| `punter_skip` | the same files, 3 faults: delay and damage | **violated**: finding 2 |
| `lifecycle` | 2 copies, one of them operated, 2 launches, 2 saves, 1 crash, power loss, failing file or transfer directory, with and without an old request on disk | `OneInstance`, `FileWhole`, `EndsWhenAsked`, `NewestConfig`, `StopObeyed` |

`BytesInPlace`, `TransferSound`, `CallsSound`, `PoolCallsSound`, `PlacesSound` and
`OneInstance` are conjunctions of the module's type invariant and the named invariants
before them.

`MCGate` and `MCCalls` each run two modules that share no variable: a behaviour is of
one of them (`part`), the other resting at its start, so that a run is the sum of the
two state spaces and not their product. `MCLifecycle` splits one module in the same
way to keep its run within minutes: in `orders` nothing is saved and every order may
come, in `saves` the orders are restarts, handovers and the failures. The proofs know
no such split.

*Why the bounds are enough.* Six or seven blocks with numbers modulo 5 let the
numbers wrap inside the file, and the duplicate window be met from both sides; the
same holds for Kermit's window of 2 with 6 chunks. The files of the YMODEM batch
have three blocks, fewer than the modulus, so that as in the code only block 0 of
a file is numbered 0 when the receiver expects a header. One retry lets two faults
exhaust the budget; three files against a limit of two reach the batch limit. In
ZMODEM three faults let a repositioning be hit again. In `gate` three listeners
meet at one address and two mutexes let a swept one be replaced; more addresses
are covered by the proofs. A limit of one connection is exceeded by the second, over
either listener, and the limit of places per address is met; that of the whole pool is
the same comparison and is not, in the run. A window of two ticks tells a connection
about to age from one that just came, and a change to one tick prunes. In `ssh` two
logins and two registrations fill the cap, so that a relay or a third registration
exceeds it; the second channel is the slave's reconnect before the first connection's
end is noticed; two generations let one overwrite the other on one channel or on two.
In `calls` a port can have been dialled by a guest and by the other port that it dials
itself; every caller gives up and calls again, for `MaxCalls` bounds the calls held at
a time and not those made. In `lifecycle` two launches let a copy take over from
another, or one be launched again after a crash, and two saves let one be undone by
another; the old request on disk stands for a third copy that died.

*Limits of what Kermit's streams promise.* The passing run streams with a window of 1.
With a larger one, which the defaults of `src/config.rs` negotiate, a stream may
succeed without the file: run `kermit_stream`, finding 3. The theorems leave out the
sessions that both ends may stream.

*Limits of what ZMODEM promises.* The run turns files down and drops every kind of
item; what it says of the bytes is said until `amiss`. Run `zmodem_skip` shows what a
stray ZSKIP does, finding 4; a ZDATA header lost alone is in the observations.

*Limits of what XMODEM promises.* With two faults (a stale ACK and a lost last
block) plain XMODEM can end with both sides content and the file short; that is
inherent in the protocol, so "success means whole" is checked for one fault and
the prefix property for two. For YMODEM the code tolerates a file up to 254 bytes
short of its declared size, and the property says so.

### Fairness

`Xmodem`, `Kermit`, `Zmodem`, `Punter`: a half that has something to read reads
it, and its waits are bounded by tokio timeouts: weak fairness of reads, timeouts
and the detection of a dead line. Faults are not fair. `Login`: tokio's mutex is
FIFO (strong fairness of the turn, the waiters being re-enabled whenever it comes
free), the key derivation ends, the clock runs, the 429 fits an empty send buffer;
nothing is assumed of clients. `PeerCall`: a dialling caller's clock runs, a port
at its prompt polls, a ringing port rings on; devices need not answer. A ring session
is assumed to leave only while no port rings for it, because each RING starts its
15 seconds again (`src/telnet/serial_ui.rs:1689`) and a port rings every 6
(`src/serial.rs:168`): a port with `S0=0` may ring for it for ever, and `WaitsEnd`
excludes exactly that (`RingsOn`). Nothing is assumed of the CP/M pool.
`Admission`: deadlines fire, the bounded goodbye ends, a release that has begun
gets its turn; no peer need speak, read or leave. `Lifecycle`: `main`, the
handover watcher and a signal's second action run on; a window told to close
closes; no operator, signal or launch is assumed.

### Deadlock

It is checked in every run but `lifecycle`, where every copy may have ended and
nobody launches another; `Terminated` in the transfer modules is the state in
which both halves have returned.

## 5. Proofs

### Login

`LoginProofs.tla` proves for every set of connections and addresses, every
assignment of addresses and listeners, every pool of mutexes and every limit:

* `TypeCorrect`: `LoginTypeOK` is an invariant;
* `TurnExclusiveAlways`: no two checks of one address at a time;
* `NoCheckWhileLockedOutAlways` and `GuessesBoundedAlways`.

The assumptions are `LoginAssumption`: positive limits and a `NoLock`/`NoConn` outside
the sets.

The argument. `TurnExclusive` is not inductive: it needs that the connections
waiting for or holding the turn of one address all refer to the *same* mutex. So
the inductive invariant `Inv` adds `RefsInv` (a connection refers to a mutex
exactly while it waits, checks or replies, and that mutex is the map's entry for
its address), `OwnerInv` (whoever has passed the mutex owns it) and `TriesInv` (a
connection that has not ended has a guess left). Two connections of one address
that both check would refer to one mutex and both own it, so they are the same.
The sweep keeps `RefsInv` because it spares every entry somebody refers to. With
exclusion, `NoCheckWhileLockedOut` is inductive: a check starts only when the
address is not locked out, and while it lasts nobody else can count a failure of
that address. `GuessesBounded` follows: a failure is counted from a check, hence
below the limit or after the window, when the sweep has cleared the entry first.

### SSH sessions

`SshSessionsProofs.tla` proves for every finite set of connections and channels,
any ports and any cap (`SshAssumption`):

* `TypeCorrect`, with it that `session_count` never goes below zero;
* `CountExactAlways` and `CapKeptAlways`: the counter is what is held, in flight and
  overwritten, and the cap holds;
* `RegistryLiveAlways` and `NewestKeptAlways`: the registry holds live
  registrations and overwritten ones only, none of them claimed, and the newest one
  survives the end of the one it replaced;
* `ShellByPasswordAlways`: a relay key opens no shell.

The argument. The counter is subtracted from on five paths, so that it is a
natural number follows from its being exact, and `Inv` uses `Typed`, the types
without it. `CountExact` needs that no slot is counted twice: `JobInv` says that
the channel a handler is serving belongs to its own connection, `ConnInv` that a
login is counted exactly from `mark_logged_in` to the drop, and a registration that is
overwritten moves its slot to `orphans`. `CapKept` follows from the order of the two
halves of a claim: what is granted is in flight or held, hence counted, so a claim that
saw the counter below the cap fits, and one that saw it at the cap is not granted.
`GenInv` says no two registrations, entered or only stamped, share a generation,
nor one of them that of an overwritten one, although it is drawn outside the map's
lock; with `RegistryLive` and `EntryInv` the removal by generation then takes exactly
the entries of the channels that end (`WithoutExact`), which is `NewestKept`.

### Peer calls

`PeerCallProofs.tla` proves for any ports, guests and ring sessions and any number
of calls (`PeerAssumption`): `CallsSoundHolds`, `ParkedKeptHolds` and
`CallKeptHolds`.

The argument. A call is made fresh, and nobody holds it; placing puts it in one
slot, a take moves it to one port, and it is settled -- in no slot, ringing
nowhere -- when the answer is sent. `HeldOnce`, a part of the invariant, is kept by this
only if a port
cannot come to hold a call that still waits elsewhere: `OwnerInv` says whose calls
may be where (a ring slot holds only the ring of a session that still waits, a
port never rings for its own call), `WaitInv` that nobody but its caller has a
call that waits. `ConnectedIsAnswered` is about a caller who reads the answer later
than it is sent, so `AnswerInv` says of a caller with an answer under way what
`ConnInv` says of a connected one: its call is settled. `NoStaleCall` needs that the
guard of a caller removes its own call (`take_if_mine`), and `CallKept` that it
removes no other. `ParkedKept` is what `line_free_for_incoming` is for: a port that has
parked a call takes none (`PartiesTyped`: it neither rings nor answers), so neither
answer path, which both assign the connection outright, meets a parked one.

### CP/M pool

`CpmPoolProofs.tla` proves for any finite set of members and any callers
(`PoolAssumption`): `CallsSoundHolds`, with it that `CPM_PEER_LISTENERS` is the
number of members although joining and leaving take steps of their own;
`CallNotReplacedHolds`; `CallKeptHolds`. The argument is that of the peer calls with one
slot and many takers: a take is atomic, so a fresh call comes to one member
(`OneMember`), and `AnswerInv` covers the time between the answer and its reading. An
answered call is not replaced because a modem that rings can have come to a connection
since only by dialling it.

### Admission

`AdmissionProofs.tla` proves for any addresses, keys and connections and any limits
(`AdmissionAssumption`): `PlacesSoundHolds`, `OnlyLetInCountsHolds` and
`RateKeptHolds`. The limiter, the telnet slots and the pre-login pool meet only
where a loop asks the limiter, so `Inv` is one invariant for each. The telnet count
is incremented before the cap is tested and may exceed it for a moment; what is
inductive is that a connection past the test has a slot free (`TelnetInv`). A place
of the pool is given back in two steps on either of two paths; `ReleaseInv` says
that the swap has happened before anybody is in the second step and before the
connection is forgotten, so the counts lose it once. `OnlyLetInCounts` is
inductive with the types: sweeping and ageing treat `seen` and `letIn` alike, and a
changed window counts anew from what is held.

### Lifecycle

`LifecycleProofs.tla` proves for any copies, launches, saves and faults
(`LifecycleAssumption`): `OneInstanceHolds`, `FileWholeHolds`, `EndsWhenAskedHolds`
and `NewestConfigHolds`. `LockInv` adds to `OneGateway` the places where a copy has
the lock and does not serve yet or no more. `DiskInv` says that what is on disk is
synced -- hence a power loss brings back a whole file -- and relates the three places a
configuration is in: what a copy is about to write has all that the file has, unless it
comes from older edits or from a `CONFIG` that may be behind (`OutHolds`), and from its
first load on `CONFIG` is behind the file only when `kept` says so. `NewestConfig`
follows for every publishing step, and exempts by name the two writers for which it
does not (`MayUndo`). `EndsWhenAsked`
needs `OrderInv`: every order to shut down has its reason (restart, stop or Quit)
stored no later than itself, in each of the three threads that give one, except
while `shutdown` is the closed window of a copy that waits to take over, which
`reset_for_next_cycle` clears before the first cycle.

### ZMODEM

`ZmodemProofs.tla` proves for every batch, every limit of retries and any number and
kind of faults (`ZmodemAssumption`, `LineAssumption`): that types and limits of retries
hold (`TypeOKHolds`), that a clean line lets both halves succeed
(`CleanLineSucceedsHolds`), and that a file listed has the length announced
(`ReceivedIsWholeHolds`, first part) -- these for every batch and whatever happens on
the line. What is said of the bytes is proved for batches no file of which is turned
down (`TakesAll`), until a ZDATA header is lost alone (`amiss`): `PrefixReceivedHolds`,
`ReceivedIsWholeHolds`, `SenderSuccessIsWholeHolds`, together with the others
`TransferSoundHolds`; and `KeepsPromiseHolds`, that the batch implements `FileTransfer`
up to that step. Batches with files turned down are checked by TLC.

The argument. Subpackets have no numbers, and answers do not say what they answer,
so that data lands in place is a fact about what can be under way at once. Number
the stages of a batch: 2n when n files are done and none is open, 2n + 1 while the
next one is. `Inv` says that the receiver is at the sender's stage or one ahead
(`PosInv`, `AnswerInv`: an answer that would take the sender on is under way only
when the receiver is ahead), that what is under way to the receiver belongs to
its own stage or the one before, never past the sender's, and in their order
(`ItemsInv`, `OrderInv`), and that data
comes in whole frames: before a subpacket is the header or subpacket that gives its
place, and what follows the last one is what the sender expects to be answered
(`FrameInv`, `SubInv`, `RunInv`). So a subpacket the receiver reads in step is the
next one of the file that is open, and one out of step meets a header that does not
fit. `FilesInv` and `FinInv` turn that into the files: the n-th file listed is the
n-th sent, whole, and the sender passes to ZFIN only with all of them listed. Each
half's code is first reduced to what it may do (`SenderMoves`, `ReceiverMoves`), one
lemma per operator; the invariant is then kept by a move of either half
(`SenderKeeps`, `ReceiverKeeps`) and by a fault, which takes an item away, damages
it or adds a cancel (`FaultKeeps`). A drop of exactly a ZDATA header is the one
fault `FrameInv` does not survive; it sets `amiss`, and what is proved is proved until
then.

That a clean line never makes a half give up has an invariant of its own, `Clean`:
without faults the halves take turns, and the state has one of a few shapes
(`CleanStart` to `CleanFin`), in each of which something is under way (`CleanIsBusy`:
no wait can run out) and no retry has been counted. The one overlap is at the start,
where both halves speak first and one ZRINIT too many is under way.

### Kermit

`KermitProofs.tla` proves for every batch, resumed ones included, every window less
than half of the packet numbers, every limit of retries and any number and kind of
faults (`KermitAssumption`, `LineAssumption`), for the sessions that not both ends may
stream (`~Streams`): `TransferSoundHolds`, whose parts are `TypeOKHolds`,
`PrefixReceivedHolds`, `KeptIsWholeHolds`, `SenderSuccessIsWholeHolds` and
`CleanLineSucceedsHolds`; and `KeepsPromiseHolds`: the batch implements `FileTransfer`.

The argument. A batch has a plan: S, for each file F, A if attributes were agreed on,
its D packets and Z, and at the end B. `Place` gives the place of a packet in it, and a
packet number is that place modulo `Numbers`; a resumed file begins at a later chunk,
which is part of the plan (`Skip`). A number names one place as long as the places it
could stand for lie less than `Numbers` apart (`DivModUnique` and the lemmas after it),
so `KInv` (in `KermitInvariant.tla`) says how far apart they may be. Its centre is the
hole `h`: the first place the receiver has neither taken nor put aside. `Core` says of
it:

* the sender (`SenderShape`, `OutShape`): what it waits for is within a window of what
  it sends next;
* the receiver (`ReceiverShape`, `BufShape`): what it has put aside is within a window
  after `h`; `Exp`, the place it expects, follows from its files alone; the answer it
  replays to a repeated A is kept as long as that A can come;
* the packets under way (`PacketsSound`): within a window of `h` on either side, only D
  packets ahead of it, and no packet is followed by one a window or more before it --
  a FIFO line cannot bring a packet back after the sender has moved on;
* both (`Sent`): every place below what the sender sends next is either still waited for
  or received;
* the answers under way (`RepliesSound`): an ACK is about a place that was received, a
  NAK about the hole `e` at the time it was written. `e` is what the sender still waits
  for when it reads the answer, because no answer before it confirms `e`; that bounds
  how old an answer can be, and a late one cannot have the number of a packet awaited
  now.

`Core` is kept by each operator of either half (the lemmas `...Keeps`, up to
`SenderReadKeeps` and `ReceiverReadKeeps`), by the taking of packets put aside (where
`h` stays and `Exp` catches up), and by a fault, which takes an item away, damages it or
adds a cancel. The refinement follows from what a read does to the files: the open one
grows in place, or, being whole, is handed over.

That a clean line never makes a half give up has an invariant on top, `CInv`: without
faults the packets under way are the next ones the receiver expects, in a row up to what
the sender sends next, nothing is put aside, and whatever the receiver has taken and the
sender still waits for has its ACK under way. So something is under way whenever the
sender waits (`UnderWay`), and no wait runs out.

Streams are excluded because `Sent` fails for them in a window (finding 3), and with it
`SenderSuccessIsWhole`.

### Model-checked only

* Liveness under fairness is out of the prover's reach: `BothReturn`, `TurnComes`,
  `LockoutEnds`, `WaitsEnd`, `DoorEnds`, `PlaceReturns`, `StopObeyed`.
* `Xmodem`: the properties speak of a bounded number of faults (one for success
  means whole), and the prefix property fails for enough of them: the block numbers
  wrap and a stray ACK is as good as a true one. An invariant for every `MaxFaults`
  does not exist; one for two faults would enumerate what TLC enumerates.
* `Punter`: the same, finding 2 shows the third fault.
* `Kermit`, when both ends may stream: checked for a window of 1 only.
* `Zmodem`: batches with files turned down, for what is said of the bytes.
* The types of `Login` and of `SshSessions` and `ShellByPassword` are the other way
  round: left to the proofs alone.

## 6. Findings

1. *XMODEM-1K fallback* (`src/xmodem.rs:1802`): a NAK after the first STX block
   is taken for a rejection of the format, but it may be the receiver's timeout
   after the ACK was lost; the resent SOH blocks are then appended in the wrong
   place and both ends report success.
2. *Punter's duplicates* (`src/punter.rs:716`): the receiver drops a block with
   the index of the last one and takes any other. Two blocks that come late put
   the sender one block ahead; a block damaged after that is never repeated, the
   next is appended, and both ends report success on a file with a hole. With two
   faults the property holds (run `punter`).
3. *Kermit streaming in a window* (`src/kermit.rs:3713`): by default the gateway offers
   windows and streaming together (`src/config.rs:433`, `438`, `442`). The receiver puts
   a Z that is ahead of a gap aside and acknowledges it (`src/kermit.rs:4338`) before it
   sends the NAK for the gap. The streaming sender takes that ACK as one of the whole
   file: "the Z-ACK implicitly confirms every preceding D-packet"
   (`src/kermit.rs:3591`). When the D packet and its repetition are both lost, it reports
   success while the receiver lacks the file. In a window of 1 it does not happen (run
   `kermit`).
4. *ZMODEM's ZSKIP* (`src/zmodem.rs:2185`): the comment at `src/zmodem.rs:2170` says
   that "every ZFILE we send produces a matching ZRPOS/ZSKIP, and a duplicate would
   leak into the next file's exchange". It does after a late answer: the sender has
   sent the ZFILE twice, takes the second ZSKIP for the next file's and passes over
   that one too. In a batch of three whose first file is turned down, the receiver
   then has the second file open, stores the third one's data under its name and
   lists it; both ends report success.

### Observations

What the models showed while they were written, without a run of its own.

* *A ZDATA header lost alone* (`src/zmodem.rs:1705`): a receiver that has timed out in a
  frame is back at its headers and hunts past the subpacket; one still inside the frame
  (after a ZCRCQ subpacket) takes the first subpacket of the run that repeats it for the
  next one, so a chunk is doubled, and both ends can succeed with a file of the announced
  length and other content. The
  properties hold until such a loss (`amiss`).
* *Kermit streaming* (`src/kermit.rs:3780`): the count that keeps an ambiguous
  number from being sent again ignores the Z packet and the numbers after it, so
  a stream of nearly as many chunks as there are numbers, on a line that only
  delays, resends a D packet that the receiver appends behind the Z, against the
  comments at `src/kermit.rs:3775` and `3842`. The run's streams are shorter.
* *Rings without an end*: a port with `S0=0` rings for a ring session of the menu as
  long as nobody answers or presses Q, because each RING (every 6 seconds) starts that
  session's 15 seconds again (`src/telnet/serial_ui.rs:1689`).
* *A leaked session slot* (`src/ssh.rs:1270`): a second `serial-register` on one channel
  overwrites the first in `registered_ports`. The first one's slot of `session_count` is
  never given back, and its entry, if it had another label, stays in `REMOTE_PORTS`
  after the connection has gone, until a caller claims it.
* *A save undone by the window* (`src/gui.rs:4258`): the window writes the whole
  configuration its editor holds, and an editor with unsaved edits is not refreshed
  (`src/gui.rs:909`), so a save of another surface made since the edits began is undone.
  So may be one made while a copy took over without being able to read the file: it
  keeps the configuration it read before, and what is written from memory later
  (`src/config.rs:4127`) writes that. The comment at `src/config.rs:4115` gives the
  reason to read the file for every save. `NewestConfig` admits these and no other.
* *A reload can end the gateway* (`src/main.rs:459`): when the transfer directory cannot
  be made in the cycle a reload starts, the process exits and nobody serves.
* *Kermit Send-Init*: a late answer to the extended Send-Init leaves the sender
  with a classic session and the receiver with a longer check sum; both fail.
* *Kermit resume* trusts a partial file to be a prefix of what is sent.
* *ZMODEM's headers*: a data header whose subpackets are all lost makes the receiver
  read the next header as data; the line of the model does not cut frames in that
  way.
* *Punter's end-off*: with three faults the sender may report success before the
  receiver does.
* *key_authed* (`src/ssh.rs:1548`) stays set when the key login is refused a
  slot; a password login that follows gets no shell.
* *cancel_ring_request* (`src/serial.rs:1288`) clears the ring another session
  has placed since, and `ConsoleSlotGuard` (`src/serial.rs:1488`) does the like.
* *answer_incoming* (`src/telnet/cpm_modem.rs:858`) replaces a connection that
  the guest dialled while the call rang and holds with `+++`; `CallNotReplaced` admits
  exactly that.
* `try_claim_slot` (`src/ssh.rs:618`) can refuse while a slot is free, because of
  another claim's pending rollback.
* `cpm_peer_listen_exit` (`src/serial.rs:414`) decrements the count and clears the
  slot in two steps, so a call placed for a member who joined in between is
  dropped; `PoolCallKept` admits exactly that.
* *request_handover* (`src/instance.rs:250`) removes the request once it has the
  lock, also one that a third copy has written meanwhile; and at its deadline
  (`src/instance.rs:254`) it looks for the request before it removes it, so the
  holder may consume it in between: the newcomer gives up, the holder stands
  down, and nobody serves.
* *load_or_create_config* (`src/config.rs:1834`) reads and rewrites the file
  without `CONFIG`'s lock, which `update_config_values` holds; a save that
  outlives its server cycle could be undone. `update_config_values` starts from
  the defaults when the file is missing.
* *Quit* sets no `stop`, so a SIGHUP that arrives with it restarts the gateway.

## 7. Not modelled

Instruction, disk and video emulation for CP/M (a sequential interpreter over
megabytes of state, out of TLC's reach, and the largest part of the source);
menus, GUI, web pages, browser, AI chat, weather and PETSCII (formatting and I/O
over one session's own state); hashing (opaque); outbound gateways (byte pumps);
the AT interpreter and the `+++` detector (a table and a function of byte times,
both sequential); log rotation (a short sequence of renames that stops at the
first failure). The console bridge and the slave's relay loop are planned
(section 2). Within the modelled parts: Kermit's server mode, G packets, packet
encoding and size caps; ZMODEM's ZCRC, ZCHALLENGE, ZSINIT, ZFREECNT, ZCOMMAND,
ZSTDERR, ZFERR and ZABORT frames; YMODEM-g; Punter's size limits and file types;
the values of settings.
