------------------------------ MODULE Lifecycle ------------------------------
(***************************************************************************)
(* Copies of the gateway launched in one directory: the instance lock and    *)
(* the handover (src/instance.rs), the flags that end or restart a server    *)
(* cycle (src/main.rs), and the configuration file whoever holds the lock    *)
(* loads and saves (src/config.rs).                                         *)
(*                                                                          *)
(* In each copy three threads run: main, the signal watcher and the handover *)
(* watcher.  They share the flags stop, shutdown and restart, one store at a *)
(* time.  pc says where main is,                                            *)
(*   off     not running               boot    to load the configuration    *)
(*   begin   to try the lock           stage   writing it to a staged file  *)
(*   clear   to clear a stale request  publish the staged file is synced    *)
(*   busy    asking the operator       up      to make the transfer directory *)
(*   wait    to retry the lock         run     serving                      *)
(*   look    to ask for an answer      over    the cycle has ended          *)
(*   give    timed out                 reset   to clear the flags           *)
(*   took    the lock is its own       reread  to read stop once more       *)
(*   exit    to end                    fatal   showing why it cannot start  *)
(*                                                                          *)
(* A configuration is the set of the saves it contains, 0 standing for the   *)
(* one the file was created with; {} is none.                               *)
(***************************************************************************)
EXTENDS Naturals, FiniteSets

CONSTANTS
  Procs,        \* copies, relaunched after they end
  Operated,     \* the copies that signals, Quit and Restart reach
  MaxLaunches,  \* bound on the launches
  MaxSaves,     \* bound on the saves
  MaxFaults,    \* bound on crashes, power losses and failures of the file system
  None

ASSUME LifecycleAssumption ==
  /\ MaxLaunches \in Nat /\ MaxSaves \in Nat /\ MaxFaults \in Nat
  /\ Operated \subseteq Procs
  /\ None \notin Procs

VARIABLES
  pc,        \* where main is
  lock,      \* who holds the instance lock
  req,       \* handover.request: whether it is older than the slack of file
             \* times, and the copies that find it older than their start
  stop, shutdown, restart, sighup, \* the flags of each copy
  halfway,   \* SIGTERM's actions: stop is stored and shutdown is not
  sig,       \* the signal watcher: watch, arm, hold; and the stop it read
  hand,      \* the handover watcher: none, poll, seen, stop; and standing_down
  waited,    \* 0 within HANDOVER_TIMEOUT, 1 within HANDOVER_AGREED_WAIT, 2 past both
  file,      \* the configuration on disk, the one a power loss may bring back,
             \* whether it is whole, and whether its bytes are synced
  conf,      \* CONFIG, the configuration each copy has in memory
  out,       \* the configuration on its way to the file, and what writes it
  edit,      \* what the window's editor had when its unsaved edits began
  kept,      \* history: CONFIG may lack a save that the file has, since the file
             \* could not be read, or older edits not written
  quit,      \* history: the operator's Quit reached the copy in this cycle
  launches, faults, saves

config == <<conf, out, edit, kept>>
procs == <<pc, stop, shutdown, restart, sighup, halfway, sig, hand, waited, config, quit>>
bounds == <<launches, faults, saves>>
vars == <<procs, lock, req, file, bounds>>

Serving == {"boot", "stage", "publish", "up", "run", "over", "reset", "reread"}
Pcs == Serving \cup
  {"off", "begin", "clear", "busy", "wait", "look", "give", "took", "exit", "fatal"}
Requests == [aged : BOOLEAN, stale : SUBSET Procs]
Configs == SUBSET (0..MaxSaves)
Outs == [by : {"none", "load", "update", "memory", "window"}, v : Configs]
Files(v, old, synced) == [v |-> v, old |-> old, whole |-> TRUE, synced |-> synced]

\* The state of every copy and of the files they share.
TypeOK ==
  /\ pc \in [Procs -> Pcs]
  /\ lock \in Procs \cup {None}
  /\ req \in Requests \cup {None}
  /\ \A f \in {stop, shutdown, restart, sighup, halfway, quit} : f \in [Procs -> BOOLEAN]
  /\ sig \in [Procs -> [s : {"watch", "arm", "hold"}, stop : BOOLEAN]]
  /\ hand \in [Procs -> [s : {"none", "poll", "seen", "stop"}, down : BOOLEAN]]
  /\ waited \in [Procs -> 0..2]
  /\ file \in [v : Configs, old : Configs, whole : BOOLEAN, synced : BOOLEAN]
  /\ conf \in [Procs -> Configs] /\ edit \in [Procs -> Configs]
  /\ out \in [Procs -> Outs] /\ kept \in [Procs -> BOOLEAN]
  /\ launches \in 0..MaxLaunches /\ faults \in 0..MaxFaults /\ saves \in 0..MaxSaves

No == [p \in Procs |-> FALSE]
Watch == [s |-> "watch", stop |-> FALSE]
NoHand == [s |-> "none", down |-> FALSE]
NoOut == [by |-> "none", v |-> {}]

\* A copy that died in a handover may have left its request.
Init ==
  /\ pc = [p \in Procs |-> "off"]
  /\ lock = None /\ req \in {None, [aged |-> TRUE, stale |-> {}]}
  /\ stop = No /\ shutdown = No /\ restart = No /\ sighup = No /\ halfway = No /\ quit = No
  /\ sig = [p \in Procs |-> Watch]
  /\ hand = [p \in Procs |-> NoHand]
  /\ waited = [p \in Procs |-> 0]
  /\ file = Files({0}, {0}, TRUE)
  /\ conf = [p \in Procs |-> {}] /\ edit = [p \in Procs |-> {}]
  /\ out = [p \in Procs |-> NoOut] /\ kept = No
  /\ launches = 0 /\ faults = 0 /\ saves = 0

Alive(p) == pc[p] # "off"

\* main goes from one place to another and changes none of the flags.
Goes(p, from, to) == pc[p] = from /\ pc' = [pc EXCEPT ![p] = to]

flags == <<stop, shutdown, restart, sighup, halfway, quit>>
watchers == <<sig, hand>>

\* The processes in ps are gone: with them their memory and their lock.
Gone(ps) ==
  /\ pc' = [p \in Procs |-> IF p \in ps THEN "off" ELSE pc[p]]
  /\ lock' = IF lock \in ps THEN None ELSE lock
  /\ stop' = [p \in Procs |-> p \notin ps /\ stop[p]]
  /\ shutdown' = [p \in Procs |-> p \notin ps /\ shutdown[p]]
  /\ restart' = [p \in Procs |-> p \notin ps /\ restart[p]]
  /\ sighup' = [p \in Procs |-> p \notin ps /\ sighup[p]]
  /\ halfway' = [p \in Procs |-> p \notin ps /\ halfway[p]]
  /\ quit' = [p \in Procs |-> p \notin ps /\ quit[p]]
  /\ sig' = [p \in Procs |-> IF p \in ps THEN Watch ELSE sig[p]]
  /\ hand' = [p \in Procs |-> IF p \in ps THEN NoHand ELSE hand[p]]
  /\ waited' = [p \in Procs |-> IF p \in ps THEN 0 ELSE waited[p]]
  /\ conf' = [p \in Procs |-> IF p \in ps THEN {} ELSE conf[p]]
  /\ edit' = [p \in Procs |-> IF p \in ps THEN {} ELSE edit[p]]
  /\ out' = [p \in Procs |-> IF p \in ps THEN NoOut ELSE out[p]]
  /\ kept' = [p \in Procs |-> p \notin ps /\ kept[p]]

-----------------------------------------------------------------------------
(* Launch and handover.                                                     *)

\* main up to acquiring_since: a request that is clearly older is stale for
\* this copy, one that is younger than file times can tell is not.
Launch(p) ==
  /\ launches < MaxLaunches
  /\ Goes(p, "off", "begin")
  /\ req' = IF req # None /\ req.aged THEN [req EXCEPT !.stale = @ \cup {p}] ELSE req
  /\ launches' = launches + 1
  /\ UNCHANGED <<lock, flags, watchers, waited, file, config, faults, saves>>

\* acquire finds the lock free, or another copy: then the configuration is read
\* and not written.
Acquire(p) ==
  \/ /\ lock = None /\ lock' = p
     /\ Goes(p, "begin", "clear")
     /\ UNCHANGED <<req, flags, watchers, waited, file, config, bounds>>
  \/ /\ lock # None
     /\ Goes(p, "begin", "busy")
     /\ conf' = [conf EXCEPT ![p] = file.v]
     /\ UNCHANGED <<lock, req, flags, watchers, waited, file, out, edit, kept, bounds>>

\* clear_stale_handover_request.
ClearStale(p) ==
  /\ Goes(p, "clear", "boot")
  /\ req' = IF req # None /\ p \in req.stale THEN None ELSE req
  /\ UNCHANGED <<lock, flags, watchers, waited, file, config, bounds>>

\* No window, a Quit in it, or a signal that closes it: the copy ends.
LeaveAlone(p) ==
  /\ pc[p] \in {"busy", "fatal"}
  /\ Gone({p})
  /\ UNCHANGED <<req, file, bounds>>

\* The operator takes over: request_handover writes the request.  The window
\* was closed through the shutdown flag.
TakeOver(p) ==
  /\ Goes(p, "busy", "wait")
  /\ req' = [aged |-> FALSE, stale |-> {}]
  /\ shutdown' = [shutdown EXCEPT ![p] = TRUE]
  /\ UNCHANGED <<lock, stop, restart, sighup, halfway, quit, watchers, waited, file, config, bounds>>

\* request_handover, once a POLL: the lock is tried...
TryLock(p) ==
  /\ lock' = IF lock = None THEN p ELSE lock
  /\ Goes(p, "wait", IF lock = None THEN "took" ELSE "look")
  /\ UNCHANGED <<req, flags, watchers, waited, file, config, bounds>>

\* ...and then the request, which a holder that agreed has consumed.  One poll
\* stands for all those before the deadline, and one for all those of the longer
\* wait of a holder that agreed.
LookForAnswer(p) ==
  LET on == waited[p] = 0 \/ (waited[p] = 1 /\ req = None) IN
  /\ Goes(p, "look", IF on THEN "wait" ELSE "give")
  /\ waited' = [waited EXCEPT ![p] = IF on THEN @ + 1 ELSE @]
  /\ UNCHANGED <<lock, req, flags, watchers, file, config, bounds>>

\* Seeded bug: the copy that timed out starts all the same.
GiveUpStarting(p) ==
  /\ Goes(p, "give", "boot")
  /\ req' = None
  /\ UNCHANGED <<lock, flags, watchers, waited, file, config, bounds>>

\* The request is removed and the launch fails.
GiveUp(p) ==
  /\ pc[p] = "give"
  /\ req' = None
  /\ Gone({p})
  /\ UNCHANGED <<file, bounds>>

\* The request is removed once the lock is taken, and the flag the window was
\* closed with is to be cleared.
TookOver(p) ==
  /\ Goes(p, "took", "reset")
  /\ req' = None
  /\ waited' = [waited EXCEPT ![p] = 0]
  /\ UNCHANGED <<lock, flags, watchers, file, config, bounds>>

\* Time passes until the age of a request can be told.
RequestAges ==
  /\ req # None /\ ~req.aged
  /\ req' = [req EXCEPT !.aged = TRUE]
  /\ UNCHANGED <<procs, lock, file, bounds>>

\* spawn_handover_watcher: the request is seen...
HandoverSeen(p) ==
  /\ hand[p].s = "poll" /\ req # None
  /\ hand' = [hand EXCEPT ![p].s = "seen"]
  /\ UNCHANGED <<pc, flags, sig, waited, config, lock, req, file, bounds>>

\* ...and consumed, which is the copy's answer...
HandoverTaken(p) ==
  /\ hand[p].s = "seen"
  /\ req' = None
  /\ hand' = [hand EXCEPT ![p] = [s |-> "stop", down |-> TRUE]]
  /\ UNCHANGED <<pc, flags, sig, waited, config, lock, file, bounds>>

\* ...then stop is stored, before shutdown...
HandoverStop(p) ==
  /\ hand[p].s = "stop"
  /\ stop' = [stop EXCEPT ![p] = TRUE]
  /\ hand' = [hand EXCEPT ![p].s = "poll"]
  /\ UNCHANGED <<pc, shutdown, restart, sighup, halfway, quit, sig, waited, config, lock, req, file, bounds>>

\* ...which is asserted again on every pass.
HandoverDown(p) ==
  /\ hand[p].s = "poll" /\ hand[p].down /\ ~shutdown[p]
  /\ shutdown' = [shutdown EXCEPT ![p] = TRUE]
  /\ UNCHANGED <<pc, stop, restart, sighup, halfway, quit, watchers, waited, config, lock, req, file, bounds>>

-----------------------------------------------------------------------------
(* The configuration.                                                       *)

\* Seeded bug: what was read while another copy ran is loaded after it ended.
LoadKeepingRead(p) ==
  /\ Goes(p, "boot", "stage")
  /\ out' = [out EXCEPT ![p] = [by |-> "load", v |-> IF conf[p] = {} THEN file.v ELSE conf[p]]]
  /\ hand' = [hand EXCEPT ![p].s = IF @ = "none" THEN "poll" ELSE @]
  /\ UNCHANGED <<lock, req, flags, sig, waited, file, conf, edit, kept, bounds>>

\* load_or_create_config reads the file, to rewrite it; the handover watcher is
\* started before the first time.
Load(p) ==
  /\ Goes(p, "boot", "stage")
  /\ out' = [out EXCEPT ![p] = [by |-> "load", v |-> file.v]]
  /\ hand' = [hand EXCEPT ![p].s = IF @ = "none" THEN "poll" ELSE @]
  /\ UNCHANGED <<lock, req, flags, sig, waited, file, conf, edit, kept, bounds>>

\* The file cannot be read.  A launch with nothing in memory is refused rather
\* than given the defaults; otherwise what is in memory is kept, and not written.
LoadFails(p) ==
  /\ faults < MaxFaults
  /\ faults' = faults + 1
  /\ \/ /\ \/ pc[p] = "begin" /\ lock # None
           \/ pc[p] = "boot" /\ conf[p] = {}
        /\ Gone({p})
     \/ /\ conf[p] # {}
        /\ Goes(p, "boot", "up")
        /\ kept' = [kept EXCEPT ![p] = @ \/ hand[p].s = "none"]
        /\ hand' = [hand EXCEPT ![p].s = IF @ = "none" THEN "poll" ELSE @]
        /\ UNCHANGED <<lock, flags, sig, waited, conf, out, edit>>
  /\ UNCHANGED <<req, file, launches, saves>>

\* create_dir_all of the transfer directory, and then the servers...
StartServers(p) ==
  /\ Goes(p, "up", "run")
  /\ UNCHANGED <<lock, req, flags, watchers, waited, file, config, bounds>>

\* ...or the process is to end, in its first cycle or after a reload.
NoTransferDir(p) ==
  /\ faults < MaxFaults
  /\ faults' = faults + 1
  /\ Goes(p, "up", "fatal")
  /\ UNCHANGED <<lock, req, flags, watchers, waited, file, config, launches, saves>>

\* One save at a time begins, under CONFIG's lock.
Saves(p, by, base) ==
  /\ Goes(p, "run", "stage")
  /\ saves < MaxSaves
  /\ saves' = saves + 1
  /\ out' = [out EXCEPT ![p] = [by |-> by, v |-> base \cup {saves + 1}]]
  /\ UNCHANGED <<lock, req, flags, watchers, waited, file, conf, edit, kept, launches>>

\* update_config_values, for telnet, the web and the serial ports: the file is
\* read, changed and rewritten...
Save(p) == Saves(p, "update", file.v) /\ UNCHANGED faults

\* ...or CONFIG is, when the file cannot be read.
SaveUnread(p) ==
  /\ faults < MaxFaults
  /\ faults' = faults + 1
  /\ Saves(p, "memory", conf[p])

\* The window's editor shows CONFIG as of the last frame until it is edited...
Edit(p) ==
  /\ p \in Operated /\ pc[p] = "run" /\ edit[p] = {}
  /\ edit' = [edit EXCEPT ![p] = conf[p]]
  /\ UNCHANGED <<pc, flags, watchers, waited, conf, out, kept, lock, req, file, bounds>>

\* ...the window is closed, the server running on, and its edits are gone...
DropEdits(p) ==
  /\ pc[p] = "run" /\ edit[p] # {}
  /\ edit' = [edit EXCEPT ![p] = {}]
  /\ UNCHANGED <<pc, flags, watchers, waited, conf, out, kept, lock, req, file, bounds>>

\* ...or saved: persist_config writes all the editor holds, the file not read.
WindowSave(p) ==
  /\ p \in Operated
  /\ Saves(p, "window", IF edit[p] = {} THEN conf[p] ELSE edit[p])
  /\ UNCHANGED faults

\* write_config_file: the staged file is written and synced...
Stage(p) ==
  /\ Goes(p, "stage", "publish")
  /\ UNCHANGED <<lock, req, flags, watchers, waited, file, config, bounds>>

\* ...its caller puts what it wrote, or could not write, into CONFIG...
Written(p) ==
  /\ pc' = [pc EXCEPT ![p] = IF out[p].by = "load" THEN "up" ELSE "run"]
  /\ conf' = [conf EXCEPT ![p] = out[p].v]
  /\ edit' = [edit EXCEPT ![p] = IF out[p].by = "window" THEN {} ELSE @]
  /\ out' = [out EXCEPT ![p] = NoOut]
  /\ UNCHANGED <<lock, req, flags, watchers, waited, launches, saves>>

\* Seeded bug: the staged file is renamed and not synced.
PublishUnsynced(p) ==
  /\ pc[p] = "publish" /\ Written(p)
  /\ file' = Files(out[p].v, file.v, FALSE)
  /\ kept' = [kept EXCEPT ![p] = FALSE]
  /\ UNCHANGED faults

\* ...once it is renamed over the configuration...
Publish(p) ==
  /\ pc[p] = "publish" /\ Written(p)
  /\ file' = Files(out[p].v, file.v, TRUE)
  /\ kept' = [kept EXCEPT ![p] = FALSE]
  /\ UNCHANGED faults

\* ...or writing failed, and the staged file is removed.
StageFails(p) ==
  /\ pc[p] \in {"stage", "publish"} /\ faults < MaxFaults
  /\ Written(p)
  /\ kept' = [kept EXCEPT ![p] = @ \/ (out[p].by = "window" /\ edit[p] # {})]
  /\ faults' = faults + 1
  /\ UNCHANGED file

-----------------------------------------------------------------------------
(* The server cycle and what ends it.                                       *)

\* The threads that serve have seen shutdown and are joined; the window is gone.
CycleEnds(p) ==
  /\ shutdown[p]
  /\ Goes(p, "run", "over")
  /\ edit' = [edit EXCEPT ![p] = {}]
  /\ UNCHANGED <<lock, req, flags, watchers, waited, file, conf, out, kept, bounds>>

\* should_run_another_cycle.
Decide(p) ==
  /\ Goes(p, "over", IF restart[p] /\ ~stop[p] THEN "reset" ELSE "exit")
  /\ UNCHANGED <<lock, req, flags, watchers, waited, file, config, bounds>>

\* reset_for_next_cycle clears the flags...
Reset(p) ==
  /\ Goes(p, "reset", "reread")
  /\ restart' = [restart EXCEPT ![p] = FALSE]
  /\ shutdown' = [shutdown EXCEPT ![p] = FALSE]
  /\ quit' = [quit EXCEPT ![p] = FALSE]
  /\ UNCHANGED <<lock, req, stop, sighup, halfway, watchers, waited, file, config, bounds>>

\* Seeded bug: the stop the decision was made by is not read again.
RereadNot(p) ==
  /\ Goes(p, "reread", "boot")
  /\ UNCHANGED <<lock, req, flags, watchers, waited, file, config, bounds>>

\* ...and then reads stop: one that came in between is not lost.
Reread(p) ==
  /\ Goes(p, "reread", IF stop[p] THEN "exit" ELSE "boot")
  /\ shutdown' = [shutdown EXCEPT ![p] = @ \/ stop[p]]
  /\ UNCHANGED <<lock, req, stop, restart, sighup, halfway, quit, watchers, waited, file, config, bounds>>

Exit(p) ==
  /\ pc[p] = "exit"
  /\ Gone({p})
  /\ UNCHANGED <<req, file, bounds>>

\* Restart in the session's menu; Save and Restart of the window and of the web
\* page is a Save and then the same stores.
Restart(p) ==
  /\ p \in Operated /\ pc[p] = "run"
  /\ restart' = [restart EXCEPT ![p] = TRUE]
  /\ shutdown' = [shutdown EXCEPT ![p] = TRUE]
  /\ UNCHANGED <<pc, stop, sighup, halfway, quit, watchers, waited, config, lock, req, file, bounds>>

\* Quit in the window.
Quit(p) ==
  /\ p \in Operated /\ pc[p] = "run"
  /\ restart' = [restart EXCEPT ![p] = FALSE]
  /\ shutdown' = [shutdown EXCEPT ![p] = TRUE]
  /\ quit' = [quit EXCEPT ![p] = TRUE]
  /\ UNCHANGED <<pc, stop, sighup, halfway, watchers, waited, config, lock, req, file, bounds>>

\* SIGINT or SIGTERM: its first action stores stop...
SigTerm(p) ==
  /\ p \in Operated /\ Alive(p) /\ ~stop[p]
  /\ stop' = [stop EXCEPT ![p] = TRUE]
  /\ halfway' = [halfway EXCEPT ![p] = TRUE]
  /\ UNCHANGED <<pc, shutdown, restart, sighup, quit, watchers, waited, config, lock, req, file, bounds>>

\* ...and its second shutdown.
SigTermRest(p) ==
  /\ halfway[p]
  /\ shutdown' = [shutdown EXCEPT ![p] = TRUE]
  /\ halfway' = [halfway EXCEPT ![p] = FALSE]
  /\ UNCHANGED <<pc, stop, restart, sighup, quit, watchers, waited, config, lock, req, file, bounds>>

SigHup(p) ==
  /\ p \in Operated /\ Alive(p) /\ ~sighup[p]
  /\ sighup' = [sighup EXCEPT ![p] = TRUE]
  /\ UNCHANGED <<pc, stop, shutdown, restart, halfway, quit, watchers, waited, config, lock, req, file, bounds>>

\* The signal watcher wakes, for a stop or a reload, and reads stop...
SignalSeen(p) ==
  /\ p \in Operated /\ Alive(p) /\ sig[p].s = "watch" /\ (shutdown[p] \/ sighup[p])
  /\ sig' = [sig EXCEPT ![p] = [s |-> "arm", stop |-> stop[p]]]
  /\ UNCHANGED <<pc, flags, hand, waited, config, lock, req, file, bounds>>

\* Seeded bug: SIGHUP ends the cycle and asks for no other.
ArmReloadAsStop(p) ==
  /\ sig[p].s = "arm"
  /\ shutdown' = [shutdown EXCEPT ![p] = @ \/ sighup[p]]
  /\ sighup' = [sighup EXCEPT ![p] = FALSE]
  /\ sig' = [sig EXCEPT ![p] = [Watch EXCEPT !.s = "hold"]]
  /\ UNCHANGED <<pc, stop, restart, halfway, quit, hand, waited, config, lock, req, file, bounds>>

\* ...and then turns a SIGHUP into a restart (reload_arms_restart).
ArmReload(p) ==
  LET arms == sighup[p] /\ ~sig[p].stop IN
  /\ sig[p].s = "arm"
  /\ restart' = [restart EXCEPT ![p] = @ \/ arms]
  /\ shutdown' = [shutdown EXCEPT ![p] = @ \/ arms]
  /\ sighup' = [sighup EXCEPT ![p] = FALSE]
  /\ sig' = [sig EXCEPT ![p] = [Watch EXCEPT !.s = "hold"]]
  /\ UNCHANGED <<pc, stop, halfway, quit, hand, waited, config, lock, req, file, bounds>>

\* It watches again once a new cycle has cleared shutdown.
SignalAgain(p) ==
  /\ sig[p].s = "hold" /\ ~shutdown[p]
  /\ sig' = [sig EXCEPT ![p] = Watch]
  /\ UNCHANGED <<pc, flags, hand, waited, config, lock, req, file, bounds>>

\* A copy dies; the kernel releases its lock.
Crash(p) ==
  /\ Alive(p) /\ faults < MaxFaults
  /\ Gone({p})
  /\ faults' = faults + 1
  /\ UNCHANGED <<req, file, launches, saves>>

\* The machine loses power: bytes that were not synced are lost, and so may the
\* rename be, for the directory is not synced.
PowerLoss ==
  /\ faults < MaxFaults
  /\ Gone(Procs)
  /\ \E v \in {file.v, file.old} :
       file' = [v |-> v, old |-> v, whole |-> file.whole /\ (file.synced \/ v # file.v), synced |-> TRUE]
  /\ faults' = faults + 1
  /\ UNCHANGED <<req, launches, saves>>

-----------------------------------------------------------------------------

\* main's own steps.
Main(p) ==
  \/ Acquire(p) \/ ClearStale(p) \/ TryLock(p) \/ LookForAnswer(p) \/ GiveUp(p) \/ TookOver(p)
  \/ Load(p) \/ Stage(p) \/ Publish(p) \/ StartServers(p)
  \/ CycleEnds(p) \/ Decide(p) \/ Reset(p) \/ Reread(p) \/ Exit(p)

SignalWatcher(p) == SignalSeen(p) \/ ArmReload(p) \/ SignalAgain(p)

HandoverWatcher(p) ==
  HandoverSeen(p) \/ HandoverTaken(p) \/ HandoverStop(p) \/ HandoverDown(p)

Next ==
  \/ \E p \in Procs :
       \/ Main(p) \/ SignalWatcher(p) \/ HandoverWatcher(p) \/ SigTermRest(p)
       \/ Launch(p) \/ LeaveAlone(p) \/ TakeOver(p) \/ LoadFails(p) \/ NoTransferDir(p)
       \/ Save(p) \/ SaveUnread(p) \/ WindowSave(p) \/ Edit(p) \/ DropEdits(p) \/ StageFails(p)
       \/ Restart(p) \/ Quit(p) \/ SigTerm(p) \/ SigHup(p) \/ Crash(p)
  \/ RequestAges \/ PowerLoss

Spec == Init /\ [][Next]_vars

\* The threads of a copy run, its waits end, and a window that is told to
\* close does.
Fairness ==
  /\ \A p \in Procs :
       /\ WF_vars(Main(p) \/ (LeaveAlone(p) /\ shutdown[p]))
       /\ WF_vars(HandoverWatcher(p))
  /\ \A p \in Operated : WF_vars(SigTermRest(p))

FairSpec == Spec /\ Fairness

-----------------------------------------------------------------------------
(* Properties.                                                              *)

\* At most one copy loads, saves and serves, and it is the one that holds the
\* lock, through handovers, timeouts, crashes and relaunches (acquire,
\* request_handover).
OneGateway == \A p \in Procs : pc[p] \in Serving => lock = p

\* The state is well typed, waits included, and one copy at most is the gateway.
OneInstance == TypeOK /\ OneGateway

\* Writers that may undo a save: the window's editor, when it has edits as old
\* as that; and one that writes CONFIG as it is, when CONFIG is that old.
MayUndo(p) ==
  /\ pc[p] = "publish"
  /\ \/ out[p].by = "window" /\ edit[p] # {}
     \/ out[p].by \in {"window", "memory"} /\ kept[p]

\* As long as the power stays on, no other step takes a save out of the file: not
\* a reload, a takeover, a save of another surface, one that could not read the
\* file or write it before, nor the window's without unsaved edits
\* (load_config_read_only, load_or_create_config, update_config_values, save_config).
NewestConfig ==
  [][faults' = faults /\ ~(\E p \in Procs : MayUndo(p)) => file.v \subseteq file'.v]_vars

\* Whenever the power goes, the configuration is a whole file, the old or the
\* new one (write_config_file).
FileWhole == file.whole

\* A reload does not end the gateway: a copy stops serving only after a stop or a
\* Quit, or when it dies, or cannot load its configuration or make its transfer
\* directory, which are faults (register_signal_handlers, reload_arms_restart, main).
EndsWhenAsked ==
  [][\A p \in Procs :
       pc[p] \in Serving /\ pc'[p] \notin Serving =>
         stop[p] \/ quit[p] \/ faults' # faults]_vars

\* A stop is never lost, whatever reload, restart or handover it meets: the
\* copy ends (reset_for_next_cycle, should_run_another_cycle).
StopObeyed == \A p \in Procs : stop[p] ~> pc[p] = "off"
=============================================================================
