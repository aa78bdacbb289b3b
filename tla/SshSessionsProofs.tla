-------------------------- MODULE SshSessionsProofs --------------------------
(***************************************************************************)
(* Proofs about the session slots and the port registry of module            *)
(* SshSessions, for any number of connections, channels and ports.           *)
(***************************************************************************)
EXTENDS SshSessions, FiniteSetTheorems, TLAPS

\* TypeOK without the counter, whose type follows from CountExact only.
Typed ==
  /\ conn \in [Conns -> {"closed", "open", "in", "dying"}]
  /\ how \in [Conns -> {"none", "password", "key"}]
  /\ keyAuthed \in [Conns -> BOOLEAN]
  /\ counted \in SUBSET Conns
  /\ job \in [Conns -> Jobs]
  /\ shell \in [Conns -> Chans \cup {None}]
  /\ regs \in [Chans -> [label : Labels, gen : Nat] \cup {None}]
  /\ inputs \in SUBSET Chans
  /\ tasks \in SUBSET Tasks
  /\ registry \in [Keys -> [ch : Chans, gen : Nat] \cup {None}]
  /\ bridged \in SUBSET Nat
  /\ orphans \in SUBSET Nat
  /\ gen \in Nat

\* The handler's job fits its connection: a login is under way on one that is not
\* logged in, a channel request on one that is, for a channel of its own.
Busy(c) == job[c].s # "idle"

JobInv ==
  \A c \in Conns : Busy(c) =>
    /\ job[c].why \in Whys
    /\ job[c].why \in {"password", "key"} => conn[c] = "open"
    /\ job[c].why = "key" => keyAuthed[c]
    /\ job[c].why \in {"register", "relay"} =>
         /\ conn[c] = "in"
         /\ job[c].ch \in Chans /\ ConnOf[job[c].ch] = c
    /\ job[c].why = "register" => job[c].label \in Labels
    /\ job[c].s = "stamped" => job[c].why = "register" /\ job[c].gen < gen

\* Who is logged in is counted, and the flag is set for every login by key.
ConnInv ==
  \A c \in Conns :
    /\ c \in counted <=> conn[c] \in {"in", "dying"}
    /\ conn[c] \in {"closed", "open"} => shell[c] = None
    /\ conn[c] \in {"in", "dying"} => how[c] \in {"password", "key"}
    /\ how[c] = "key" => keyAuthed[c]

\* No two registrations, entered or about to be, have the same generation, nor
\* one of them that of a registration overwritten; one about to be entered has not
\* been claimed.
GenInv ==
  /\ \A g \in orphans \cup bridged : g < gen
  /\ \A ch \in Chans : regs[ch] # None => regs[ch].gen < gen /\ regs[ch].gen \notin orphans
  /\ \A c \in Conns : job[c].s = "stamped" => job[c].gen \notin orphans \cup bridged
  /\ \A ch, dh \in Chans :
       regs[ch] # None /\ regs[dh] # None /\ regs[ch].gen = regs[dh].gen => ch = dh
  /\ \A c \in Conns, ch \in Chans :
       job[c].s = "stamped" /\ regs[ch] # None => job[c].gen # regs[ch].gen
  /\ \A c, d \in Conns :
       job[c].s = "stamped" /\ job[d].s = "stamped" /\ job[c].gen = job[d].gen => c = d

\* A generation has one entry.
EntryInv ==
  \A k, m \in Keys :
    registry[k] # None /\ registry[m] # None /\ registry[k].gen = registry[m].gen => k = m

Inv ==
  /\ Typed /\ JobInv /\ ConnInv /\ GenInv
  /\ EntryInv /\ RegistryLive /\ ShellByPassword
  /\ CountExact /\ CapKept

\* The initial states satisfy the invariant.
LEMMA InitInv == Init => Inv
<1> SUFFICES ASSUME Init PROVE Inv
  OBVIOUS
<1>1. Typed
  BY DEF Init, Typed, Idle, Jobs
<1>2. JobInv /\ ConnInv /\ GenInv /\ EntryInv
  BY DEF Init, JobInv, ConnInv, GenInv, EntryInv, Busy, Idle
<1>3. RegistryLive /\ ShellByPassword
  BY DEF Init, RegistryLive, ShellByPassword
<1>4. Registered = {} /\ InFlight = {} /\ Granted = {} /\ counted = {} /\ tasks = {}
      /\ orphans = {}
  BY DEF Init, Registered, InFlight, Granted, Idle
<1>5. CountExact /\ CapKept
  BY <1>4, FS_EmptySet, SshAssumption DEF Init, CountExact, CapKept, Held
<1> QED
  BY <1>1, <1>2, <1>3, <1>5 DEF Inv

-----------------------------------------------------------------------------
(* Types.                                                                   *)

\* Claiming a slot gives the handler a well-typed job.
LEMMA FetchAddTyped ==
  ASSUME Typed, NEW c \in Conns, NEW why \in Whys, NEW ch \in Chans \cup {None},
         NEW label \in Labels \cup {None}, FetchAdd(c, why, ch, label)
  PROVE  job' \in [Conns -> Jobs]
BY DEF Typed, FetchAdd, Jobs

\* Removing registrations leaves a well-typed registry.
LEMMA WithoutTyped ==
  ASSUME Typed, NEW gone
  PROVE  Without(gone) \in [Keys -> [ch : Chans, gen : Nat] \cup {None}]
BY DEF Typed, Without

\* Every step keeps the types.
LEMMA StepTyped ==
  ASSUME Inv, Next
  PROVE  Typed'
<1> USE SshAssumption
<1>0. Typed /\ JobInv
  BY DEF Inv
<1>1. ASSUME NEW c \in Conns, Connect(c) PROVE Typed'
  BY <1>0, <1>1 DEF Typed, Connect
<1>2. ASSUME NEW c \in Conns, Authenticate(c) PROVE Typed'
  <2>1. PICK why \in {"password", "key"} :
          /\ FetchAdd(c, why, None, None)
          /\ keyAuthed' = [keyAuthed EXCEPT ![c] = @ \/ why = "key"]
    BY <1>2 DEF Authenticate
  <2>2. job' \in [Conns -> Jobs]
    BY <1>0, <2>1, FetchAddTyped DEF Whys
  <2>3. keyAuthed' \in [Conns -> BOOLEAN]
    BY <1>0, <2>1 DEF Typed
  <2> QED
    BY <1>0, <1>2, <2>2, <2>3 DEF Typed, Authenticate
<1>3. ASSUME NEW c \in Conns, LoggedIn(c) PROVE Typed'
  BY <1>0, <1>3 DEF Typed, LoggedIn, Idle, Jobs, Whys
<1>4. ASSUME NEW c \in Conns, Rollback(c) PROVE Typed'
  BY <1>0, <1>4 DEF Typed, Rollback, Idle, Jobs
<1>5. ASSUME NEW c \in Conns, AckFails(c) PROVE Typed'
  BY <1>0, <1>5 DEF Typed, AckFails, Idle, Jobs
<1>6. ASSUME NEW c \in Conns, StartRelay(c) PROVE Typed'
  <2>1. job[c].ch \in Chans
    BY <1>0, <1>6 DEF JobInv, StartRelay, Busy
  <2>2. PICK n \in 1..MaxSessions : tasks' = tasks \cup {<<job[c].ch, n>>}
    BY <1>6 DEF StartRelay
  <2>3. tasks' \in SUBSET Tasks
    BY <1>0, <2>1, <2>2 DEF Typed, Tasks
  <2>4. inputs' \in SUBSET Chans
    BY <1>0, <1>6, <2>1 DEF Typed, StartRelay
  <2>5. job' \in [Conns -> Jobs]
    BY <1>0, <1>6 DEF Typed, StartRelay, Idle, Jobs
  <2> QED
    BY <1>0, <1>6, <2>3, <2>4, <2>5 DEF Typed, StartRelay
<1>7. ASSUME NEW c \in Conns, Stamp(c) PROVE Typed'
  <2>0. ASSUME NEW j \in Jobs, NEW g \in Nat
        PROVE  [j EXCEPT !.s = "stamped", !.gen = g] \in Jobs
    BY DEF Jobs
  <2>1. [job[c] EXCEPT !.s = "stamped", !.gen = gen] \in Jobs
    BY <1>0, <2>0 DEF Typed
  <2> QED
    BY <1>0, <1>7, <2>1 DEF Typed, Stamp
<1>8. ASSUME NEW c \in Conns, Enter(c) PROVE Typed'
  <2>1. job[c].ch \in Chans /\ job[c].label \in Labels /\ job[c].gen \in Nat
    BY <1>0, <1>8 DEF JobInv, Enter, Busy, Typed, Jobs
  <2>2. job' \in [Conns -> Jobs]
    BY <1>0, <1>8 DEF Typed, Enter, Idle, Jobs
  <2>3. registry' \in [Keys -> [ch : Chans, gen : Nat] \cup {None}]
    BY <1>0, <1>8, <2>1 DEF Typed, Enter
  <2>4. regs' \in [Chans -> [label : Labels, gen : Nat] \cup {None}]
    BY <1>0, <1>8, <2>1 DEF Typed, Enter
  <2>5. regs[job[c].ch] # None => regs[job[c].ch].gen \in Nat
    BY <1>0, <2>1 DEF Typed
  <2>6. orphans' \in SUBSET Nat /\ inputs' \in SUBSET Chans
    BY <1>0, <1>8, <2>1, <2>5 DEF Typed, Enter
  <2> QED
    BY <1>0, <1>8, <2>2, <2>3, <2>4, <2>6 DEF Typed, Enter
<1>9. ASSUME NEW c \in Conns, DropConn(c) PROVE Typed'
  <2>1. registry' \in [Keys -> [ch : Chans, gen : Nat] \cup {None}]
    BY <1>0, <1>9, WithoutTyped DEF DropConn
  <2> QED
    BY <1>0, <1>9, <2>1 DEF Typed, DropConn, Mine
<1>10. ASSUME NEW ch \in Chans, OpenShell(ch) PROVE Typed'
  BY <1>0, <1>10 DEF Typed, OpenShell
<1>11. ASSUME NEW ch \in Chans, AskChannel(ch) PROVE Typed'
  <2>1. job' \in [Conns -> Jobs]
    BY <1>0, <1>11, FetchAddTyped DEF AskChannel, Whys
  <2> QED
    BY <1>0, <1>11, <2>1 DEF Typed, AskChannel
<1>12. ASSUME NEW ch \in Chans, RelayEnds(ch) PROVE Typed'
  BY <1>0, <1>12 DEF Typed, RelayEnds
<1>13. ASSUME NEW ch \in Chans, Teardown(ch) PROVE Typed'
  <2>1. registry' \in [Keys -> [ch : Chans, gen : Nat] \cup {None}]
    BY <1>0, <1>13, WithoutTyped DEF Teardown
  <2> QED
    BY <1>0, <1>13, <2>1 DEF Typed, Teardown
<1>14. ASSUME NEW k \in Keys, Claim(k) PROVE Typed'
  <2>1. registry[k].gen \in Nat
    BY <1>0, <1>14 DEF Typed, Claim
  <2> QED
    BY <1>0, <1>14, <2>1 DEF Typed, Claim
<1> QED
  BY <1>1, <1>2, <1>3, <1>4, <1>5, <1>6, <1>7, <1>8, <1>9, <1>10, <1>11, <1>12, <1>13, <1>14
     DEF Next

-----------------------------------------------------------------------------
(* Logins and shells.                                                       *)

\* Every step keeps what is known of a connection, its login and its shell.
LEMMA StepConn ==
  ASSUME Inv, Next
  PROVE  ConnInv' /\ ShellByPassword'
<1> USE SshAssumption
<1>0. Typed /\ JobInv /\ ConnInv /\ ShellByPassword
  BY DEF Inv
<1>1. ASSUME NEW c \in Conns, Connect(c) PROVE ConnInv' /\ ShellByPassword'
  BY <1>0, <1>1 DEF Typed, Connect, ConnInv, ShellByPassword
<1>2. ASSUME NEW c \in Conns, Authenticate(c) PROVE ConnInv' /\ ShellByPassword'
  <2>1. PICK why \in {"password", "key"} :
          keyAuthed' = [keyAuthed EXCEPT ![c] = @ \/ why = "key"]
    BY <1>2 DEF Authenticate
  <2>2. \A d \in Conns : keyAuthed[d] => keyAuthed'[d]
    BY <1>0, <2>1 DEF Typed
  <2>3. UNCHANGED <<conn, how, counted, shell>>
    BY <1>2 DEF Authenticate
  <2> QED
    BY <1>0, <2>2, <2>3 DEF ConnInv, ShellByPassword
<1>3. ASSUME NEW c \in Conns, LoggedIn(c) PROVE ConnInv' /\ ShellByPassword'
  <2>1. conn[c] = "open" /\ (job[c].why = "key" => keyAuthed[c])
    BY <1>0, <1>3 DEF JobInv, Busy, LoggedIn
  <2> QED
    BY <1>0, <1>3, <2>1 DEF Typed, LoggedIn, ConnInv, ShellByPassword
<1>4. ASSUME NEW c \in Conns, Rollback(c) PROVE ConnInv' /\ ShellByPassword'
  BY <1>0, <1>4 DEF Rollback, ConnInv, ShellByPassword
<1>5. ASSUME NEW c \in Conns, AckFails(c) PROVE ConnInv' /\ ShellByPassword'
  <2>1. conn[c] = "in"
    BY <1>0, <1>5 DEF JobInv, Busy, AckFails
  <2> QED
    BY <1>0, <1>5, <2>1 DEF Typed, AckFails, ConnInv, ShellByPassword
<1>6. ASSUME NEW c \in Conns, StartRelay(c) \/ Stamp(c) \/ Enter(c)
      PROVE  ConnInv' /\ ShellByPassword'
  BY <1>0, <1>6 DEF StartRelay, Stamp, Enter, ConnInv, ShellByPassword
<1>7. ASSUME NEW c \in Conns, DropConn(c) PROVE ConnInv' /\ ShellByPassword'
  BY <1>0, <1>7 DEF Typed, DropConn, ConnInv, ShellByPassword
<1>8. ASSUME NEW ch \in Chans, OpenShell(ch) PROVE ConnInv' /\ ShellByPassword'
  <2>1. how[ConnOf[ch]] = "password"
    BY <1>0, <1>8 DEF OpenShell, ConnInv
  <2> QED
    BY <1>0, <1>8, <2>1 DEF Typed, OpenShell, ConnInv, ShellByPassword
<1>9. ASSUME NEW ch \in Chans, AskChannel(ch) \/ RelayEnds(ch)
      PROVE  ConnInv' /\ ShellByPassword'
  BY <1>0, <1>9 DEF AskChannel, RelayEnds, ConnInv, ShellByPassword
<1>10. ASSUME NEW ch \in Chans, Teardown(ch) PROVE ConnInv' /\ ShellByPassword'
  BY <1>0, <1>10 DEF Typed, Teardown, ConnInv, ShellByPassword
<1>11. ASSUME NEW k \in Keys, Claim(k) PROVE ConnInv' /\ ShellByPassword'
  BY <1>0, <1>11 DEF Claim, ConnInv, ShellByPassword
<1> QED
  BY <1>1, <1>2, <1>3, <1>4, <1>5, <1>6, <1>7, <1>8, <1>9, <1>10, <1>11 DEF Next

-----------------------------------------------------------------------------
(* Jobs, generations and the registry.                                      *)

\* A registration is a record, so it differs from None; so is an entry of the map.
LEMMA Records ==
  ASSUME NEW l \in Labels, NEW ch \in Chans, NEW g \in Nat
  PROVE  [label |-> l, gen |-> g] # None /\ [ch |-> ch, gen |-> g] # None
BY SshAssumption

\* An entry of the registry is that of a registered channel, or of a registration
\* overwritten.
LEMMA EntryRegistered ==
  ASSUME Typed, GenInv, RegistryLive, NEW k \in Keys, registry[k] # None
  PROVE  /\ registry[k].ch \in Chans /\ registry[k].gen \in Nat /\ registry[k].gen < gen
         /\ registry[k].gen \notin orphans =>
              /\ regs[registry[k].ch] # None
              /\ regs[registry[k].ch].gen = registry[k].gen
              /\ k = <<AddrOf[ConnOf[registry[k].ch]], regs[registry[k].ch].label>>
<1>1. registry[k].ch \in Chans /\ registry[k].gen \in Nat
  BY DEF Typed
<1>2. \/ regs[registry[k].ch] = [label |-> k[2], gen |-> registry[k].gen]
      \/ registry[k].gen \in orphans
  BY DEF RegistryLive
<1>3. AddrOf[ConnOf[registry[k].ch]] = k[1]
  BY DEF RegistryLive
<1>4. k[2] \in Labels /\ k = <<k[1], k[2]>>
  BY DEF Keys
<1>5. CASE registry[k].gen \in orphans
  BY <1>1, <1>5 DEF GenInv
<1>6. CASE registry[k].gen \notin orphans
  <2>1. regs[registry[k].ch] = [label |-> k[2], gen |-> registry[k].gen]
    BY <1>2, <1>6
  <2>2. regs[registry[k].ch] # None
    BY <1>1, <1>4, <2>1, Records
  <2>3. regs[registry[k].ch].gen = registry[k].gen /\ regs[registry[k].ch].label = k[2]
    BY <2>1
  <2> QED
    BY <1>1, <1>3, <1>4, <2>2, <2>3 DEF GenInv
<1> QED
  BY <1>5, <1>6

\* Claiming a slot for an idle handler: the one new job is as asked, not stamped.
LEMMA FetchAddJob ==
  ASSUME Typed, NEW c \in Conns, NEW why, NEW ch, NEW label, FetchAdd(c, why, ch, label)
  PROVE  /\ \A d \in Conns : d # c => job'[d] = job[d]
         /\ job'[c].s \in {"over", "got"}
         /\ job'[c].why = why /\ job'[c].ch = ch /\ job'[c].label = label
BY DEF Typed, FetchAdd

\* Every step keeps the jobs fitting.
LEMMA StepJob ==
  ASSUME Inv, Next
  PROVE  JobInv'
<1> USE SshAssumption
<1>0. Typed /\ JobInv
  BY DEF Inv
<1>1. ASSUME NEW c \in Conns, Connect(c) PROVE JobInv'
  BY <1>0, <1>1 DEF Typed, Connect, JobInv, Busy, Whys
<1>2. ASSUME NEW c \in Conns, Authenticate(c) PROVE JobInv'
  <2>1. PICK why \in {"password", "key"} :
          /\ FetchAdd(c, why, None, None)
          /\ keyAuthed' = [keyAuthed EXCEPT ![c] = @ \/ why = "key"]
    BY <1>2 DEF Authenticate
  <2>2. \A d \in Conns : keyAuthed[d] => keyAuthed'[d]
    BY <1>0, <2>1 DEF Typed
  <2>3. why = "key" => keyAuthed'[c]
    BY <1>0, <2>1 DEF Typed
  <2>4. /\ \A d \in Conns : d # c => job'[d] = job[d]
        /\ job'[c].s \in {"over", "got"} /\ job'[c].why = why
    BY <1>0, <2>1, FetchAddJob
  <2>5. conn[c] = "open" /\ UNCHANGED <<conn, gen>>
    BY <1>2 DEF Authenticate
  <2> QED
    BY <1>0, <2>2, <2>3, <2>4, <2>5 DEF JobInv, Busy, Whys
<1>3. ASSUME NEW c \in Conns, LoggedIn(c) \/ Rollback(c) \/ AckFails(c) PROVE JobInv'
  <2>1. job'[c].s = "idle" /\ \A d \in Conns : d # c => job'[d] = job[d] /\ conn'[d] = conn[d]
    BY <1>0, <1>3 DEF Typed, LoggedIn, Rollback, AckFails, Idle
  <2>2. UNCHANGED <<keyAuthed, gen>>
    BY <1>3 DEF LoggedIn, Rollback, AckFails
  <2> QED
    BY <1>0, <2>1, <2>2 DEF JobInv, Busy
<1>4. ASSUME NEW c \in Conns, StartRelay(c) PROVE JobInv'
  <2>1. job'[c].s = "idle" /\ \A d \in Conns : d # c => job'[d] = job[d]
    BY <1>0, <1>4 DEF Typed, StartRelay, Idle
  <2>2. UNCHANGED <<conn, keyAuthed, gen>>
    BY <1>4 DEF StartRelay
  <2> QED
    BY <1>0, <2>1, <2>2 DEF JobInv, Busy
<1>5. ASSUME NEW c \in Conns, Stamp(c) PROVE JobInv'
  <2>1. /\ \A d \in Conns : d # c => job'[d] = job[d]
        /\ job'[c].gen = gen
        /\ job'[c].why = job[c].why /\ job'[c].ch = job[c].ch /\ job'[c].label = job[c].label
    BY <1>0, <1>5 DEF Typed, Jobs, Stamp
  <2>2. /\ job[c].s = "got" /\ job[c].why = "register" /\ gen' = gen + 1 /\ gen \in Nat
        /\ UNCHANGED <<conn, keyAuthed>>
    BY <1>0, <1>5 DEF Stamp, Typed
  <2>3. \A d \in Conns : job[d].gen \in Nat
    BY <1>0 DEF Typed, Jobs
  <2> QED
    BY <1>0, <2>1, <2>2, <2>3 DEF JobInv, Busy
<1>6. ASSUME NEW c \in Conns, Enter(c) PROVE JobInv'
  <2>1. job'[c].s = "idle" /\ \A d \in Conns : d # c => job'[d] = job[d]
    BY <1>0, <1>6 DEF Typed, Enter, Idle
  <2>2. UNCHANGED <<conn, keyAuthed, gen>>
    BY <1>6 DEF Enter
  <2> QED
    BY <1>0, <2>1, <2>2 DEF JobInv, Busy
<1>7. ASSUME NEW c \in Conns, DropConn(c) PROVE JobInv'
  <2>1. /\ job[c].s = "idle" /\ UNCHANGED <<keyAuthed, job, gen>>
        /\ \A d \in Conns : d # c => conn'[d] = conn[d]
    BY <1>0, <1>7 DEF DropConn, Ready, Typed
  <2> QED
    BY <1>0, <2>1 DEF JobInv, Busy
<1>8. ASSUME NEW ch \in Chans, OpenShell(ch) PROVE JobInv'
  BY <1>0, <1>8 DEF OpenShell, JobInv, Busy
<1>9. ASSUME NEW ch \in Chans, AskChannel(ch) PROVE JobInv'
  <2> DEFINE c == ConnOf[ch]
  <2>0. c \in Conns
    OBVIOUS
  <2>1. PICK why \in {"register", "relay"}, label \in Labels \cup {None} :
          FetchAdd(c, why, ch, label) /\ (why = "register" => label \in Labels)
    BY <1>9 DEF AskChannel
  <2>2. /\ \A d \in Conns : d # c => job'[d] = job[d]
        /\ job'[c].s \in {"over", "got"}
        /\ job'[c].why = why /\ job'[c].ch = ch /\ job'[c].label = label
    BY <1>0, <2>0, <2>1, FetchAddJob
  <2>3. conn[c] = "in" /\ UNCHANGED <<conn, keyAuthed, gen>>
    BY <1>9 DEF AskChannel
  <2> QED
    BY <1>0, <2>0, <2>1, <2>2, <2>3 DEF JobInv, Busy, Whys
<1>10. ASSUME NEW ch \in Chans, RelayEnds(ch) PROVE JobInv'
  BY <1>0, <1>10 DEF RelayEnds, JobInv, Busy
<1>11. ASSUME NEW ch \in Chans, Teardown(ch) PROVE JobInv'
  BY <1>0, <1>11 DEF Teardown, JobInv, Busy
<1>12. ASSUME NEW k \in Keys, Claim(k) PROVE JobInv'
  BY <1>0, <1>12 DEF Claim, JobInv, Busy
<1> QED
  BY <1>1, <1>2, <1>3, <1>4, <1>5, <1>6, <1>7, <1>8, <1>9, <1>10, <1>11, <1>12 DEF Next

\* Every step keeps the generations distinct.
LEMMA StepGen ==
  ASSUME Inv, Next
  PROVE  GenInv'
<1> USE SshAssumption
<1>0. Typed /\ JobInv /\ GenInv /\ RegistryLive
  BY DEF Inv
\* A step that stamps no job and enters no registration changes nothing here.
<1>1. ASSUME gen' = gen, orphans' = orphans, bridged' = bridged,
             \A c \in Conns : job'[c].s = "stamped" => job'[c] = job[c],
             \A ch \in Chans : regs'[ch] \in {regs[ch], None}
      PROVE  GenInv'
  BY <1>0, <1>1 DEF GenInv
<1>2. ASSUME NEW c \in Conns, Stamp(c) PROVE GenInv'
  <2>1. /\ \A d \in Conns : d # c => job'[d] = job[d]
        /\ job'[c].gen = gen
    BY <1>0, <1>2 DEF Typed, Jobs, Stamp
  <2>2. /\ gen' = gen + 1 /\ gen \in Nat /\ regs' = regs
        /\ UNCHANGED <<orphans, bridged>>
    BY <1>0, <1>2 DEF Stamp, Typed
  <2>3. \A d \in Conns : job[d].s = "stamped" => job[d].gen < gen /\ job[d].gen \in Nat
    BY <1>0 DEF Typed, Jobs, JobInv, Busy
  <2>4. \A ch \in Chans : regs[ch] # None => regs[ch].gen < gen /\ regs[ch].gen \in Nat
    BY <1>0 DEF Typed, GenInv
  <2>5. \A g \in orphans \cup bridged : g < gen /\ g \in Nat
    BY <1>0 DEF Typed, GenInv
  <2> QED
    BY <1>0, <2>1, <2>2, <2>3, <2>4, <2>5 DEF GenInv
<1>3. ASSUME NEW c \in Conns, Enter(c) PROVE GenInv'
  <2>1. /\ job'[c].s = "idle" /\ \A d \in Conns : d # c => job'[d] = job[d]
        /\ job[c].s = "stamped" /\ gen' = gen
    BY <1>0, <1>3 DEF Typed, Enter, Idle
  <2>2. job[c].ch \in Chans /\ job[c].gen < gen
    BY <1>0, <2>1 DEF JobInv, Busy
  <2>3. /\ regs'[job[c].ch].gen = job[c].gen
        /\ \A ch \in Chans : ch # job[c].ch => regs'[ch] = regs[ch]
    BY <1>0, <1>3, <2>2 DEF Enter, Typed
  <2>4. /\ bridged' = bridged
        /\ orphans' = IF regs[job[c].ch] = None THEN orphans
                      ELSE orphans \cup {regs[job[c].ch].gen}
    BY <1>3 DEF Enter
  <2>5. \A g \in orphans' \cup bridged' : g < gen'
    BY <1>0, <2>1, <2>2, <2>4 DEF GenInv
  <2>6. \A ch \in Chans :
          regs'[ch] # None => regs'[ch].gen < gen' /\ regs'[ch].gen \notin orphans'
    BY <1>0, <2>1, <2>2, <2>3, <2>4 DEF GenInv
  <2>7. \A d \in Conns : job'[d].s = "stamped" => job'[d].gen \notin orphans' \cup bridged'
    BY <1>0, <2>1, <2>2, <2>4 DEF GenInv
  <2> QED
    BY <1>0, <2>1, <2>2, <2>3, <2>5, <2>6, <2>7 DEF GenInv
<1>4. ASSUME NEW c \in Conns, Connect(c) PROVE GenInv'
  BY <1>1, <1>4 DEF Connect
<1>5. ASSUME NEW c \in Conns, LoggedIn(c) \/ Rollback(c) \/ AckFails(c) \/ StartRelay(c)
      PROVE  GenInv'
  BY <1>0, <1>1, <1>5 DEF Typed, LoggedIn, Rollback, AckFails, StartRelay, Idle
<1>6. ASSUME NEW c \in Conns, Authenticate(c) PROVE GenInv'
  <2>1. \A d \in Conns : job'[d].s = "stamped" => job'[d] = job[d]
    BY <1>0, <1>6, FetchAddJob DEF Authenticate
  <2> QED
    BY <1>1, <1>6, <2>1 DEF Authenticate
<1>7. ASSUME NEW ch \in Chans, AskChannel(ch) PROVE GenInv'
  <2>1. \A d \in Conns : job'[d].s = "stamped" => job'[d] = job[d]
    BY <1>0, <1>7, FetchAddJob DEF AskChannel
  <2> QED
    BY <1>1, <1>7, <2>1 DEF AskChannel
<1>8. ASSUME NEW c \in Conns, DropConn(c) PROVE GenInv'
  BY <1>0, <1>1, <1>8 DEF Typed, DropConn
<1>9. ASSUME NEW ch \in Chans, OpenShell(ch) \/ RelayEnds(ch) PROVE GenInv'
  BY <1>1, <1>9 DEF OpenShell, RelayEnds
<1>10. ASSUME NEW ch \in Chans, Teardown(ch) PROVE GenInv'
  BY <1>0, <1>1, <1>10 DEF Typed, Teardown
<1>11. ASSUME NEW k \in Keys, Claim(k) PROVE GenInv'
  <2>1. registry[k].gen < gen /\ registry[k].gen \in Nat
    BY <1>0, <1>11, EntryRegistered DEF Claim
  <2>2. ASSUME NEW c \in Conns, job[c].s = "stamped" PROVE job[c].gen # registry[k].gen
    <3>1. CASE registry[k].gen \in orphans
      BY <1>0, <2>2, <3>1 DEF GenInv
    <3>2. CASE registry[k].gen \notin orphans
      BY <1>0, <1>11, <2>2, <3>2, EntryRegistered DEF GenInv, Claim
    <3> QED
      BY <3>1, <3>2
  <2>3. /\ UNCHANGED <<gen, orphans, job, regs>>
        /\ bridged' = bridged \cup {registry[k].gen}
    BY <1>11 DEF Claim
  <2> QED
    BY <1>0, <2>1, <2>2, <2>3 DEF GenInv
<1> QED
  BY <1>2, <1>3, <1>4, <1>5, <1>6, <1>7, <1>8, <1>9, <1>10, <1>11 DEF Next

\* Removing the registrations of some channels takes every entry that is one of
\* them and no other.
LEMMA WithoutExact ==
  ASSUME Inv, NEW gone \in SUBSET Chans, NEW k \in Keys, registry[k] # None
  PROVE  Without(gone)[k] = IF registry[k].gen \notin orphans /\ registry[k].ch \in gone
                            THEN None ELSE registry[k]
<1>0. Typed /\ GenInv /\ RegistryLive
  BY DEF Inv
<1>1. /\ registry[k].ch \in Chans
      /\ registry[k].gen \notin orphans =>
           /\ regs[registry[k].ch] # None
           /\ regs[registry[k].ch].gen = registry[k].gen
           /\ k = <<AddrOf[ConnOf[registry[k].ch]], regs[registry[k].ch].label>>
  BY <1>0, EntryRegistered
<1>2. CASE registry[k].gen \notin orphans /\ registry[k].ch \in gone
  BY <1>1, <1>2 DEF Without
<1>3. CASE registry[k].gen \notin orphans /\ registry[k].ch \notin gone
  <2>1. \A ch \in gone : regs[ch] # None => registry[k].gen # regs[ch].gen
    BY <1>0, <1>1, <1>3 DEF GenInv
  <2> QED
    BY <1>3, <2>1 DEF Without
<1>4. CASE registry[k].gen \in orphans
  <2>1. \A ch \in gone : regs[ch] # None => registry[k].gen # regs[ch].gen
    BY <1>0, <1>4 DEF GenInv
  <2> QED
    BY <1>4, <2>1 DEF Without
<1> QED
  BY <1>2, <1>3, <1>4

\* An empty key of the registry stays empty when registrations are removed.
LEMMA WithoutEmpty ==
  ASSUME NEW gone, NEW k \in Keys, registry[k] = None
  PROVE  Without(gone)[k] = None
BY DEF Without

\* What a step that enters a registration does to the maps.
LEMMA EnterEffect ==
  ASSUME Inv, NEW c \in Conns, Enter(c)
  PROVE  LET j == job[c]
             key == <<AddrOf[c], j.label>> IN
         /\ j.ch \in Chans /\ ConnOf[j.ch] = c /\ j.label \in Labels /\ j.gen \in Nat
         /\ j.s = "stamped" /\ j.gen \notin orphans \cup bridged
         /\ key \in Keys
         /\ registry'[key] = [ch |-> j.ch, gen |-> j.gen]
         /\ \A k \in Keys : k # key => registry'[k] = registry[k]
         /\ regs'[j.ch] = [label |-> j.label, gen |-> j.gen]
         /\ \A ch \in Chans : ch # j.ch => regs'[ch] = regs[ch]
         /\ bridged' = bridged /\ orphans \subseteq orphans'
         /\ regs[j.ch] # None => regs[j.ch].gen \in orphans'
<1> USE SshAssumption
<1> DEFINE j == job[c]
           key == <<AddrOf[c], j.label>>
<1>0. Typed /\ JobInv /\ GenInv
  BY DEF Inv
<1>1. /\ j.ch \in Chans /\ ConnOf[j.ch] = c /\ j.label \in Labels /\ j.gen \in Nat
      /\ j.s = "stamped"
  BY <1>0 DEF JobInv, Busy, Enter, Typed, Jobs
<1>2. j.gen \notin orphans \cup bridged
  BY <1>0, <1>1 DEF GenInv
<1>3. key \in Keys
  BY <1>1 DEF Keys
<1>4. /\ registry'[key] = [ch |-> j.ch, gen |-> j.gen]
      /\ \A k \in Keys : k # key => registry'[k] = registry[k]
  BY <1>0, <1>1, <1>3 DEF Enter, Typed
<1>5. /\ regs'[j.ch] = [label |-> j.label, gen |-> j.gen]
      /\ \A ch \in Chans : ch # j.ch => regs'[ch] = regs[ch]
  BY <1>0, <1>1 DEF Enter, Typed
<1>6. /\ bridged' = bridged /\ orphans \subseteq orphans'
      /\ regs[j.ch] # None => regs[j.ch].gen \in orphans'
  BY DEF Enter
<1> QED
  BY <1>1, <1>2, <1>3, <1>4, <1>5, <1>6

\* Every step leaves a generation one entry.
LEMMA StepEntry ==
  ASSUME Inv, Next
  PROVE  EntryInv'
<1> USE SshAssumption
<1>0. Typed /\ GenInv /\ EntryInv /\ RegistryLive
  BY DEF Inv
<1>1. ASSUME \A k \in Keys : registry'[k] \in {registry[k], None} PROVE EntryInv'
  BY <1>0, <1>1 DEF EntryInv
<1>2. ASSUME NEW c \in Conns, Enter(c) PROVE EntryInv'
  <2> DEFINE j == job[c]
             key == <<AddrOf[c], j.label>>
  <2>1. /\ j.ch \in Chans /\ j.gen \in Nat /\ j.s = "stamped" /\ j.gen \notin orphans
        /\ key \in Keys
        /\ registry'[key] = [ch |-> j.ch, gen |-> j.gen]
        /\ \A k \in Keys : k # key => registry'[k] = registry[k]
    BY <1>2, EnterEffect
  <2>2. ASSUME NEW k \in Keys, registry[k] # None PROVE registry[k].gen # j.gen
    <3>1. CASE registry[k].gen \in orphans
      BY <2>1, <3>1
    <3>2. CASE registry[k].gen \notin orphans
      <4>1. /\ registry[k].ch \in Chans /\ regs[registry[k].ch] # None
            /\ regs[registry[k].ch].gen = registry[k].gen
        BY <1>0, <2>2, <3>2, EntryRegistered
      <4> QED
        BY <1>0, <2>1, <4>1 DEF GenInv
    <3> QED
      BY <3>1, <3>2
  <2>3. registry'[key].gen = j.gen
    BY <2>1
  <2> QED
    BY <1>0, <2>1, <2>2, <2>3 DEF EntryInv
<1>3. ASSUME NEW k \in Keys, Claim(k) PROVE EntryInv'
  BY <1>0, <1>1, <1>3 DEF Claim, Typed
<1>4. ASSUME NEW c \in Conns, DropConn(c) PROVE EntryInv'
  BY <1>1, <1>4 DEF DropConn, Without
<1>5. ASSUME NEW ch \in Chans, Teardown(ch) PROVE EntryInv'
  BY <1>1, <1>5 DEF Teardown, Without
<1>6. ASSUME UNCHANGED registry PROVE EntryInv'
  BY <1>1, <1>6
<1>7. ASSUME NEW c \in Conns,
             \/ Connect(c) \/ Authenticate(c) \/ LoggedIn(c) \/ Rollback(c) \/ AckFails(c)
             \/ StartRelay(c) \/ Stamp(c)
      PROVE  EntryInv'
  BY <1>6, <1>7 DEF Connect, Authenticate, LoggedIn, Rollback, AckFails, StartRelay, Stamp
<1>8. ASSUME NEW ch \in Chans, OpenShell(ch) \/ AskChannel(ch) \/ RelayEnds(ch)
      PROVE  EntryInv'
  BY <1>6, <1>8 DEF OpenShell, AskChannel, RelayEnds
<1> QED
  BY <1>2, <1>3, <1>4, <1>5, <1>7, <1>8 DEF Next

\* Every step keeps the registry's entries live.
LEMMA StepRegistry ==
  ASSUME Inv, Next
  PROVE  RegistryLive'
<1> USE SshAssumption
<1>0. Typed /\ JobInv /\ GenInv /\ EntryInv /\ RegistryLive
  BY DEF Inv
<1>1. ASSUME UNCHANGED <<regs, registry, bridged, orphans>> PROVE RegistryLive'
  BY <1>0, <1>1 DEF RegistryLive
<1>2. ASSUME NEW c \in Conns,
             \/ Connect(c) \/ Authenticate(c) \/ LoggedIn(c) \/ Rollback(c) \/ AckFails(c)
             \/ StartRelay(c) \/ Stamp(c)
      PROVE  RegistryLive'
  BY <1>1, <1>2 DEF Connect, Authenticate, LoggedIn, Rollback, AckFails, StartRelay, Stamp
<1>3. ASSUME NEW ch \in Chans, OpenShell(ch) \/ AskChannel(ch) \/ RelayEnds(ch)
      PROVE  RegistryLive'
  BY <1>1, <1>3 DEF OpenShell, AskChannel, RelayEnds
\* What is to be shown of one entry.
<1> DEFINE Live(k) ==
             /\ \/ regs'[registry'[k].ch] = [label |-> k[2], gen |-> registry'[k].gen]
                \/ registry'[k].gen \in orphans'
             /\ AddrOf[ConnOf[registry'[k].ch]] = k[1]
             /\ registry'[k].gen \notin bridged'
<1>4. ASSUME NEW c \in Conns, Enter(c) PROVE RegistryLive'
  <2> DEFINE j == job[c]
             key == <<AddrOf[c], j.label>>
  <2>1. /\ j.ch \in Chans /\ ConnOf[j.ch] = c /\ j.gen \notin bridged
        /\ registry'[key] = [ch |-> j.ch, gen |-> j.gen]
        /\ \A k \in Keys : k # key => registry'[k] = registry[k]
        /\ regs'[j.ch] = [label |-> j.label, gen |-> j.gen]
        /\ \A ch \in Chans : ch # j.ch => regs'[ch] = regs[ch]
        /\ bridged' = bridged /\ orphans \subseteq orphans'
        /\ regs[j.ch] # None => regs[j.ch].gen \in orphans'
    BY <1>4, EnterEffect
  <2>2. SUFFICES ASSUME NEW k \in Keys, registry'[k] # None PROVE Live(k)
    BY DEF RegistryLive
  <2>3. CASE k = key
    <3>1. k[1] = AddrOf[c] /\ k[2] = j.label
      BY <2>3
    <3>2. registry'[k].ch = j.ch /\ registry'[k].gen = j.gen
      BY <2>1, <2>3
    <3> QED
      BY <2>1, <3>1, <3>2
  <2>4. CASE k # key
    <3>1. registry'[k] = registry[k]
      BY <2>1, <2>4
    <3>2. /\ registry[k].ch \in Chans
          /\ registry[k].gen \notin orphans =>
               /\ regs[registry[k].ch] # None
               /\ regs[registry[k].ch].gen = registry[k].gen
      BY <1>0, <2>2, <3>1, EntryRegistered
    <3>3. CASE registry[k].ch # j.ch
      BY <1>0, <2>1, <2>2, <3>1, <3>2, <3>3 DEF RegistryLive
    <3>4. CASE registry[k].ch = j.ch
      <4>1. registry[k].gen \in orphans'
        BY <2>1, <3>2, <3>4
      <4> QED
        BY <1>0, <2>1, <2>2, <3>1, <4>1 DEF RegistryLive
    <3> QED
      BY <3>3, <3>4
  <2> QED
    BY <2>3, <2>4
\* The two ways registrations end, at once: the channels in gone lose theirs.
<1>5. ASSUME NEW gone \in SUBSET Chans, registry' = Without(gone),
             \A ch \in Chans : ch \notin gone => regs'[ch] = regs[ch],
             bridged' = bridged, orphans' = orphans
      PROVE  RegistryLive'
  <2>1. SUFFICES ASSUME NEW k \in Keys, registry'[k] # None PROVE Live(k)
    BY DEF RegistryLive
  <2>2. registry[k] # None
    BY <1>5, <2>1, WithoutEmpty
  <2>3. /\ registry'[k] = registry[k]
        /\ registry[k].gen \in orphans \/ registry[k].ch \notin gone
    BY <1>5, <2>1, <2>2, WithoutExact
  <2>4. registry[k].ch \in Chans
    BY <1>0, <2>2, EntryRegistered
  <2> QED
    BY <1>0, <1>5, <2>2, <2>3, <2>4 DEF RegistryLive
<1>6. ASSUME NEW c \in Conns, DropConn(c) PROVE RegistryLive'
  <2>1. /\ Mine(c) \in SUBSET Chans /\ registry' = Without(Mine(c))
        /\ \A ch \in Chans : ch \notin Mine(c) => regs'[ch] = regs[ch]
        /\ bridged' = bridged /\ orphans' = orphans
    BY <1>6 DEF DropConn, Mine
  <2> QED
    BY <1>5, <2>1
<1>7. ASSUME NEW ch \in Chans, Teardown(ch) PROVE RegistryLive'
  <2>1. /\ {ch} \in SUBSET Chans /\ registry' = Without({ch})
        /\ \A dh \in Chans : dh \notin {ch} => regs'[dh] = regs[dh]
        /\ bridged' = bridged /\ orphans' = orphans
    BY <1>0, <1>7 DEF Teardown, Typed
  <2> QED
    BY <1>5, <2>1
<1>8. ASSUME NEW k \in Keys, Claim(k) PROVE RegistryLive'
  <2>1. SUFFICES ASSUME NEW m \in Keys, registry'[m] # None PROVE Live(m)
    BY DEF RegistryLive
  <2>2. m # k /\ registry'[m] = registry[m]
    BY <1>0, <1>8, <2>1 DEF Claim, Typed
  <2>3. registry[m].gen # registry[k].gen
    BY <1>0, <1>8, <2>1, <2>2 DEF Claim, EntryInv
  <2> QED
    BY <1>0, <1>8, <2>1, <2>2, <2>3 DEF Claim, RegistryLive
<1> QED
  BY <1>2, <1>3, <1>4, <1>6, <1>7, <1>8 DEF Next

-----------------------------------------------------------------------------
(* The counter.                                                             *)

\* What was overwritten is finite.
LEMMA OrphansFinite ==
  ASSUME Typed, GenInv
  PROVE  IsFiniteSet(orphans) /\ Cardinality(orphans) \in Nat
<1>1. gen \in Nat /\ orphans \subseteq 0..gen
  BY DEF Typed, GenInv
<1>2. IsFiniteSet(0..gen)
  BY <1>1, FS_Interval
<1> QED
  BY <1>1, <1>2, FS_Subset, FS_CardinalityType

\* The sets the counter counts are finite, and a granted claim is in flight.
LEMMA Finite ==
  ASSUME Typed
  PROVE  /\ IsFiniteSet(counted) /\ IsFiniteSet(tasks) /\ IsFiniteSet(Registered)
         /\ IsFiniteSet(InFlight) /\ IsFiniteSet(Granted)
         /\ Cardinality(counted) \in Nat /\ Cardinality(tasks) \in Nat
         /\ Cardinality(Registered) \in Nat
         /\ Cardinality(InFlight) \in Nat /\ Cardinality(Granted) \in Nat
         /\ Cardinality(Granted) <= Cardinality(InFlight)
<1>0. IsFiniteSet(Tasks)
  <2>1. IsFiniteSet(1..MaxSessions)
    BY FS_Interval, SshAssumption
  <2> QED
    BY <2>1, FS_Product, SshAssumption DEF Tasks
<1>1. /\ counted \subseteq Conns /\ tasks \subseteq Tasks /\ Registered \subseteq Chans
      /\ InFlight \subseteq Conns /\ Granted \subseteq InFlight
  BY DEF Typed, Registered, InFlight, Granted
<1>2. /\ IsFiniteSet(counted) /\ IsFiniteSet(tasks) /\ IsFiniteSet(Registered)
      /\ IsFiniteSet(InFlight)
  BY <1>0, <1>1, FS_Subset, SshAssumption
<1>3. IsFiniteSet(Granted) /\ Cardinality(Granted) <= Cardinality(InFlight)
  BY <1>1, <1>2, FS_Subset
<1> QED
  BY <1>2, <1>3, FS_CardinalityType

\* A claim: the increment puts one more handler in flight, and grants it a slot
\* only when the counter was below the cap.
LEMMA ClaimCounts ==
  ASSUME Inv, NEW c \in Conns, Ready(c), NEW why, NEW ch, NEW label,
         FetchAdd(c, why, ch, label), UNCHANGED <<counted, regs, tasks, orphans>>
  PROVE  CountExact' /\ CapKept'
<1>0. Typed /\ GenInv /\ CountExact /\ CapKept
  BY DEF Inv
<1>a. Cardinality(orphans) \in Nat
  BY <1>0, OrphansFinite
<1>1. c \notin InFlight /\ c \notin Granted
  BY DEF Ready, InFlight, Granted
<1>2. InFlight' = InFlight \cup {c}
  BY <1>0 DEF Typed, FetchAdd, InFlight
<1>3. Granted' = IF count >= MaxSessions THEN Granted ELSE Granted \cup {c}
  BY <1>0, <1>1 DEF Typed, FetchAdd, Granted
<1>4. Held' = Held
  BY DEF Held, Registered
<1>5. Cardinality(InFlight') = Cardinality(InFlight) + 1
  BY <1>0, <1>1, <1>2, Finite, FS_AddElement
<1>6. Cardinality(Granted \cup {c}) = Cardinality(Granted) + 1
  BY <1>0, <1>1, Finite, FS_AddElement
<1>7. count' = count + 1
  BY DEF FetchAdd
<1>8. Held \in Nat
  BY <1>0, Finite DEF Held
<1>9. CountExact'
  BY <1>0, <1>a, <1>4, <1>5, <1>7, <1>8, Finite DEF CountExact
<1>10. CapKept'
  BY <1>0, <1>a, <1>3, <1>4, <1>6, <1>8, Finite, SshAssumption DEF CapKept, CountExact
<1> QED
  BY <1>9, <1>10

\* A handler that is done with its claim leaves the sets of claims.
LEMMA ClaimDone ==
  ASSUME Typed, NEW c \in Conns, job[c].s # "idle", job' = [job EXCEPT ![c] = Idle]
  PROVE  /\ Cardinality(InFlight') = Cardinality(InFlight) - 1
         /\ Cardinality(Granted') = IF job[c].s \in {"got", "stamped"}
                                    THEN Cardinality(Granted) - 1 ELSE Cardinality(Granted)
<1>1. c \in InFlight /\ InFlight' = InFlight \ {c}
  BY DEF Typed, InFlight, Idle
<1>2. Granted' = Granted \ {c} /\ (c \in Granted <=> job[c].s \in {"got", "stamped"})
  BY DEF Typed, Granted, Idle
<1>3. c \notin Granted => Granted' = Granted
  BY <1>2
<1> QED
  BY <1>1, <1>2, <1>3, Finite, FS_RemoveElement

\* Every step keeps the counter exact and the cap.
LEMMA StepCount ==
  ASSUME Inv, Next
  PROVE  CountExact' /\ CapKept'
<1> USE SshAssumption
<1>0. Typed /\ JobInv /\ ConnInv /\ GenInv /\ CountExact /\ CapKept
  BY DEF Inv
<1>a. /\ Cardinality(counted) \in Nat /\ Cardinality(tasks) \in Nat
      /\ Cardinality(Registered) \in Nat
      /\ Cardinality(InFlight) \in Nat /\ Cardinality(Granted) \in Nat
      /\ Cardinality(orphans) \in Nat
      /\ IsFiniteSet(counted) /\ IsFiniteSet(tasks) /\ IsFiniteSet(Registered)
      /\ IsFiniteSet(orphans)
  BY <1>0, Finite, OrphansFinite
<1>1. ASSUME UNCHANGED <<counted, count, job, regs, tasks, orphans>> PROVE CountExact' /\ CapKept'
  BY <1>0, <1>1 DEF CountExact, CapKept, Held, Registered, InFlight, Granted
<1>2. ASSUME NEW c \in Conns, Connect(c) PROVE CountExact' /\ CapKept'
  BY <1>1, <1>2 DEF Connect
<1>3. ASSUME NEW c \in Conns, Authenticate(c) PROVE CountExact' /\ CapKept'
  BY <1>3, ClaimCounts DEF Authenticate
<1>4. ASSUME NEW c \in Conns, LoggedIn(c) PROVE CountExact' /\ CapKept'
  <2>1. /\ Cardinality(InFlight') = Cardinality(InFlight) - 1
        /\ Cardinality(Granted') = Cardinality(Granted) - 1
    BY <1>0, <1>4, ClaimDone DEF LoggedIn
  <2>2. c \notin counted
    BY <1>0, <1>4 DEF LoggedIn, JobInv, Busy, ConnInv
  <2>3. Cardinality(counted') = Cardinality(counted) + 1
    BY <1>4, <1>a, <2>2, FS_AddElement DEF LoggedIn
  <2>4. UNCHANGED <<Registered, tasks, orphans, count>>
    BY <1>4 DEF LoggedIn, Registered
  <2> QED
    BY <1>0, <1>a, <2>1, <2>3, <2>4 DEF CountExact, CapKept, Held
<1>5. ASSUME NEW c \in Conns, Rollback(c) \/ AckFails(c) PROVE CountExact' /\ CapKept'
  <2>1. /\ Cardinality(InFlight') = Cardinality(InFlight) - 1
        /\ Cardinality(Granted') <= Cardinality(Granted)
    BY <1>0, <1>5, <1>a, ClaimDone DEF Rollback, AckFails
  <2>2. Cardinality(Granted') \in Int
    BY <1>0, <1>5, <1>a, ClaimDone DEF Rollback, AckFails
  <2>3. Held' = Held /\ count' = count - 1 /\ orphans' = orphans
    BY <1>5 DEF Rollback, AckFails, Held, Registered
  <2> QED
    BY <1>0, <1>a, <2>1, <2>2, <2>3 DEF CountExact, CapKept, Held
<1>6. ASSUME NEW c \in Conns, StartRelay(c) PROVE CountExact' /\ CapKept'
  <2>1. /\ Cardinality(InFlight') = Cardinality(InFlight) - 1
        /\ Cardinality(Granted') = Cardinality(Granted) - 1
    BY <1>0, <1>6, ClaimDone DEF StartRelay
  <2>2. PICK n \in 1..MaxSessions :
          /\ <<job[c].ch, n>> \notin tasks /\ tasks' = tasks \cup {<<job[c].ch, n>>}
    BY <1>6 DEF StartRelay
  <2>3. Cardinality(tasks') = Cardinality(tasks) + 1
    BY <1>a, <2>2, FS_AddElement
  <2>4. UNCHANGED <<Registered, counted, orphans, count>>
    BY <1>6 DEF StartRelay, Registered
  <2> QED
    BY <1>0, <1>a, <2>1, <2>3, <2>4 DEF CountExact, CapKept, Held
<1>7. ASSUME NEW c \in Conns, Stamp(c) PROVE CountExact' /\ CapKept'
  <2>1. job'[c].s = "stamped" /\ \A d \in Conns : d # c => job'[d] = job[d]
    BY <1>0, <1>7 DEF Typed, Jobs, Stamp
  <2>2. InFlight' = InFlight /\ Granted' = Granted
    BY <1>7, <2>1 DEF Stamp, InFlight, Granted
  <2> QED
    BY <1>0, <1>7, <2>2 DEF Stamp, CountExact, CapKept, Held, Registered
<1>8. ASSUME NEW c \in Conns, Enter(c) PROVE CountExact' /\ CapKept'
  <2>1. /\ Cardinality(InFlight') = Cardinality(InFlight) - 1
        /\ Cardinality(Granted') = Cardinality(Granted) - 1
    BY <1>0, <1>8, ClaimDone DEF Enter
  <2>2. job[c].ch \in Chans /\ job[c].label \in Labels /\ job[c].gen \in Nat
    BY <1>0, <1>8 DEF Enter, JobInv, Busy, Typed, Jobs
  <2>3. [label |-> job[c].label, gen |-> job[c].gen] # None
    BY <2>2, Records
  <2>4. Registered' = Registered \cup {job[c].ch}
    BY <1>0, <1>8, <2>2, <2>3 DEF Enter, Registered, Typed
  <2>5. tasks' = tasks /\ counted' = counted /\ count' = count
    BY <1>8 DEF Enter
  <2>6. CASE regs[job[c].ch] = None
    <3>1. job[c].ch \notin Registered /\ orphans' = orphans
      BY <1>8, <2>6 DEF Enter, Registered
    <3>2. Cardinality(Registered') = Cardinality(Registered) + 1
      BY <1>a, <2>4, <3>1, FS_AddElement
    <3> QED
      BY <1>0, <1>a, <2>1, <2>5, <3>1, <3>2 DEF CountExact, CapKept, Held
  <2>7. CASE regs[job[c].ch] # None
    <3>1. Registered' = Registered
      BY <2>2, <2>4, <2>7 DEF Registered
    <3>2. /\ orphans' = orphans \cup {regs[job[c].ch].gen}
          /\ regs[job[c].ch].gen \notin orphans
      BY <1>0, <1>8, <2>2, <2>7 DEF Enter, GenInv
    <3>3. Cardinality(orphans') = Cardinality(orphans) + 1
      BY <1>a, <3>2, FS_AddElement
    <3> QED
      BY <1>0, <1>a, <2>1, <2>5, <3>1, <3>3 DEF CountExact, CapKept, Held
  <2> QED
    BY <2>6, <2>7
<1>9. ASSUME NEW c \in Conns, DropConn(c) PROVE CountExact' /\ CapKept'
  <2> DEFINE ended == {ch \in Mine(c) : regs[ch] # None}
  <2>1. Registered' = Registered \ ended /\ ended \subseteq Registered
    BY <1>0, <1>9 DEF DropConn, Registered, Mine, Typed
  <2>2. /\ IsFiniteSet(ended)
        /\ Cardinality(Registered') = Cardinality(Registered) - Cardinality(ended)
        /\ Cardinality(ended) \in Nat /\ Cardinality(Registered') \in Nat
    <3>1. IsFiniteSet(ended)
      BY <1>a, <2>1, FS_Subset
    <3>2. Registered \cap ended = ended
      BY <2>1
    <3>3. /\ IsFiniteSet(Registered \ ended)
          /\ Cardinality(Registered \ ended)
               = Cardinality(Registered) - Cardinality(Registered \cap ended)
      BY <1>a, FS_Difference
    <3> QED
      BY <2>1, <3>1, <3>2, <3>3, FS_CardinalityType
  <2>3. Cardinality(counted') = Cardinality(counted) - (IF c \in counted THEN 1 ELSE 0)
    <3>1. counted' = counted \ {c} /\ (c \notin counted => counted' = counted)
      BY <1>9 DEF DropConn
    <3>2. Cardinality(counted \ {c})
            = IF c \in counted THEN Cardinality(counted) - 1 ELSE Cardinality(counted)
      BY <1>a, FS_RemoveElement
    <3> QED
      BY <1>a, <3>1, <3>2
  <2>4. count' = count - (IF c \in counted THEN 1 ELSE 0) - Cardinality(ended)
    BY <1>9 DEF DropConn
  <2>5. UNCHANGED <<InFlight, Granted, tasks, orphans>>
    BY <1>9 DEF DropConn, InFlight, Granted
  <2> QED
    BY <1>0, <1>a, <2>2, <2>3, <2>4, <2>5 DEF CountExact, CapKept, Held
<1>10. ASSUME NEW ch \in Chans, OpenShell(ch) PROVE CountExact' /\ CapKept'
  BY <1>1, <1>10 DEF OpenShell
<1>11. ASSUME NEW ch \in Chans, AskChannel(ch) PROVE CountExact' /\ CapKept'
  BY <1>11, ClaimCounts DEF AskChannel
<1>12. ASSUME NEW ch \in Chans, RelayEnds(ch) PROVE CountExact' /\ CapKept'
  <2>0. PICK n \in 1..MaxSessions : <<ch, n>> \in tasks /\ tasks' = tasks \ {<<ch, n>>}
    BY <1>12 DEF RelayEnds
  <2>1. Cardinality(tasks') = Cardinality(tasks) - 1
    BY <1>a, <2>0, FS_RemoveElement
  <2>2. UNCHANGED <<Registered, InFlight, Granted, counted, orphans>> /\ count' = count - 1
    BY <1>12 DEF RelayEnds, Registered, InFlight, Granted
  <2> QED
    BY <1>0, <1>a, <2>1, <2>2 DEF CountExact, CapKept, Held
<1>13. ASSUME NEW ch \in Chans, Teardown(ch) PROVE CountExact' /\ CapKept'
  <2>1. Registered' = Registered \ {ch} /\ (ch \in Registered <=> regs[ch] # None)
    BY <1>0, <1>13 DEF Teardown, Registered, Typed
  <2>2. Cardinality(Registered') = IF regs[ch] # None THEN Cardinality(Registered) - 1
                                   ELSE Cardinality(Registered)
    <3>1. ch \notin Registered => Registered' = Registered
      BY <2>1
    <3> QED
      BY <1>a, <2>1, <3>1, FS_RemoveElement
  <2>3. /\ UNCHANGED <<InFlight, Granted, tasks, counted, orphans>>
        /\ count' = IF regs[ch] # None THEN count - 1 ELSE count
    BY <1>13 DEF Teardown, InFlight, Granted
  <2> QED
    BY <1>0, <1>a, <2>2, <2>3 DEF CountExact, CapKept, Held
<1>14. ASSUME NEW k \in Keys, Claim(k) PROVE CountExact' /\ CapKept'
  BY <1>1, <1>14 DEF Claim
<1> QED
  BY <1>2, <1>3, <1>4, <1>5, <1>6, <1>7, <1>8, <1>9, <1>10, <1>11, <1>12, <1>13, <1>14
     DEF Next

-----------------------------------------------------------------------------
(* The theorems.                                                            *)

\* The invariant is inductive.
LEMMA StepInv ==
  ASSUME Inv, [Next]_vars
  PROVE  Inv'
<1>1. CASE Next
  BY <1>1, StepTyped, StepConn, StepJob, StepGen, StepEntry, StepRegistry, StepCount
     DEF Inv
<1>2. CASE UNCHANGED vars
  <2>1. Typed' /\ JobInv' /\ ConnInv' /\ GenInv' /\ EntryInv'
    BY <1>2 DEF Inv, vars, Typed, JobInv, Busy, ConnInv, GenInv, EntryInv
  <2>2. RegistryLive' /\ ShellByPassword'
    BY <1>2 DEF Inv, vars, RegistryLive, ShellByPassword
  <2>3. CountExact' /\ CapKept'
    BY <1>2 DEF Inv, vars, CountExact, CapKept, Held, Registered, InFlight, Granted
  <2> QED
    BY <2>1, <2>2, <2>3 DEF Inv
<1> QED
  BY <1>1, <1>2

\* Every reachable state satisfies the invariant.
THEOREM InvAlways == Spec => []Inv
BY InitInv, StepInv, PTL DEF Spec

\* The types, and with them that session_count never wraps below zero: every
\* path that gives a slot back holds one.
THEOREM TypeCorrect == Spec => []TypeOK
<1>1. Inv => TypeOK
  <2> SUFFICES ASSUME Inv PROVE TypeOK
    OBVIOUS
  <2>1. Typed /\ GenInv /\ CountExact
    BY DEF Inv
  <2>2. count \in Nat
    BY <2>1, Finite, OrphansFinite DEF CountExact, Held
  <2> QED
    BY <2>1, <2>2 DEF Typed, TypeOK
<1> QED
  BY <1>1, InvAlways, PTL

\* session_count is the slots in use, the claims in progress and the slots of
\* registrations their channel overwrote, whatever order logins, channels, relay
\* tasks and disconnects end in.
THEOREM CountExactAlways == Spec => []CountExact
BY InvAlways, PTL DEF Inv

\* However the claims of several handlers interleave, no more than max_sessions
\* slots are granted.
THEOREM CapKeptAlways == Spec => []CapKept
BY InvAlways, PTL DEF Inv

\* Every entry of REMOTE_PORTS is a live registration nobody has claimed, or one its
\* channel overwrote.
THEOREM RegistryLiveAlways == Spec => []RegistryLive
BY InvAlways, PTL DEF Inv

\* A relay key never opens the menu.
THEOREM ShellByPasswordAlways == Spec => []ShellByPassword
BY InvAlways, PTL DEF Inv

\* One step takes an entry out of the registry only for a caller or with its own
\* channel, because no two registrations share a generation.
LEMMA StepKeepsNewest ==
  ASSUME Inv, Next, NEW k \in Keys, registry[k] # None, registry'[k] = None
  PROVE  registry[k].gen \in bridged' \/ regs'[registry[k].ch] = None
<1> USE SshAssumption
<1>0. Typed /\ JobInv /\ RegistryLive
  BY DEF Inv
<1>1. registry[k].ch \in Chans
  BY <1>0 DEF Typed
<1>2. registry' # registry
  OBVIOUS
<1>3. CASE \E c \in Conns : Enter(c)
  <2>1. PICK c \in Conns : Enter(c)
    BY <1>3
  <2>2. /\ job[c].ch \in Chans /\ job[c].gen \in Nat /\ job[c].label \in Labels
    BY <1>0, <2>1 DEF Enter, JobInv, Busy, Typed, Jobs
  <2>3. [ch |-> job[c].ch, gen |-> job[c].gen] # None
    BY <2>2, Records
  <2>4. registry'[k] \in {registry[k], [ch |-> job[c].ch, gen |-> job[c].gen]}
    BY <1>0, <2>1 DEF Enter, Typed
  <2> QED
    BY <2>3, <2>4
<1>4. CASE \E m \in Keys : Claim(m)
  BY <1>0, <1>4 DEF Claim, Typed
<1>5. CASE \E c \in Conns : DropConn(c)
  <2>1. PICK c \in Conns : DropConn(c)
    BY <1>5
  <2>2. Mine(c) \in SUBSET Chans /\ registry' = Without(Mine(c))
    BY <2>1 DEF DropConn, Mine
  <2>3. registry[k].ch \in Mine(c)
    BY <2>2, WithoutExact
  <2> QED
    BY <1>1, <2>1, <2>3 DEF DropConn, Mine
<1>6. CASE \E ch \in Chans : Teardown(ch)
  <2>1. PICK ch \in Chans : Teardown(ch)
    BY <1>6
  <2>2. {ch} \in SUBSET Chans /\ registry' = Without({ch})
    BY <2>1 DEF Teardown
  <2>3. registry[k].ch = ch
    BY <2>2, WithoutExact
  <2> QED
    BY <1>0, <1>1, <2>1, <2>3 DEF Teardown, Typed
<1>7. CASE UNCHANGED registry
  BY <1>2, <1>7
<1> QED
  <2>1. ASSUME NEW c \in Conns,
               \/ Connect(c) \/ Authenticate(c) \/ LoggedIn(c) \/ Rollback(c) \/ AckFails(c)
               \/ StartRelay(c) \/ Stamp(c)
        PROVE  UNCHANGED registry
    BY <2>1 DEF Connect, Authenticate, LoggedIn, Rollback, AckFails, StartRelay, Stamp
  <2>2. ASSUME NEW ch \in Chans, OpenShell(ch) \/ AskChannel(ch) \/ RelayEnds(ch)
        PROVE  UNCHANGED registry
    BY <2>2 DEF OpenShell, AskChannel, RelayEnds
  <2> QED
    BY <1>3, <1>4, <1>5, <1>6, <1>7, <2>1, <2>2 DEF Next

\* A port registered again survives the teardown of the channel it replaced: a
\* registration leaves the registry only into a caller's hands or with its own
\* channel.
THEOREM NewestKeptAlways == Spec => NewestKept
<1>1. ASSUME Inv, [Next]_vars
      PROVE  [\A k \in Keys :
               registry[k] # None /\ registry'[k] = None =>
                 registry[k].gen \in bridged' \/ regs'[registry[k].ch] = None]_vars
  BY <1>1, StepKeepsNewest
<1> QED
  BY <1>1, InvAlways, PTL DEF Spec, NewestKept
=============================================================================
