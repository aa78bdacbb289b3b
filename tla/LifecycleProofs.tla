--------------------------- MODULE LifecycleProofs ---------------------------
(***************************************************************************)
(* Proofs that the copies of module Lifecycle share one lock, one file and   *)
(* their flags as promised, for any number of copies, launches, saves and    *)
(* faults.                                                                  *)
(***************************************************************************)
EXTENDS Lifecycle, TLAPS

\* Where main holds the lock: it serves, is about to or has ended.
Holding == Serving \cup {"clear", "took", "exit", "fatal"}

\* Where the handover watcher has been started.
Watched == {"stage", "publish", "up", "run", "over", "fatal"}

\* Whoever is past taking the lock and not yet gone is its holder, and the
\* handover watcher is only its.
LockInv ==
  \A p \in Procs :
    /\ pc[p] \in Holding => lock = p
    /\ hand[p].s # "none" => pc[p] \in Holding
    /\ pc[p] \in Watched => hand[p].s # "none"

\* What is written has all that the file has, unless it comes from older edits,
\* or from a CONFIG that may be behind.
OutHolds(p) ==
  /\ out[p].by # "none"
  /\ out[p].by \in {"load", "update"} => file.v \subseteq out[p].v
  /\ out[p].by = "memory" /\ ~kept[p] => file.v \subseteq out[p].v
  /\ out[p].by = "window" /\ ~kept[p] /\ edit[p] = {} => file.v \subseteq out[p].v

\* What is on disk is synced before it is renamed; from the first load on,
\* CONFIG is behind the file only when it says so.
DiskInv ==
  /\ file.whole /\ file.synced
  /\ \A p \in Procs : pc[p] \in {"stage", "publish"} => OutHolds(p)
  /\ \A p \in Procs :
       hand[p].s # "none" /\ ~kept[p] /\ ~(pc[p] \in {"stage", "publish"} /\ out[p].by = "load")
         => file.v \subseteq conf[p]

\* Where shutdown may be the window's, closed to take over, and nobody's order.
Taking == {"wait", "look", "give", "took", "reset"}

\* Every order to shut down has its reason stored no later than itself.
OrderInv ==
  \A p \in Procs :
    /\ halfway[p] => stop[p]
    /\ hand[p].down /\ hand[p].s # "stop" => stop[p]
    /\ shutdown[p] /\ pc[p] \notin Taking => restart[p] \/ stop[p] \/ quit[p]
    /\ pc[p] = "over" => shutdown[p]

Inv == TypeOK /\ LockInv /\ DiskInv /\ OrderInv

\* The configuration cannot be read: the copy goes on with what it has.
GoesOn(p) ==
  /\ Goes(p, "boot", "up")
  /\ kept' = [kept EXCEPT ![p] = @ \/ hand[p].s = "none"]
  /\ hand' = [hand EXCEPT ![p].s = IF @ = "none" THEN "poll" ELSE @]
  /\ UNCHANGED <<lock, flags, sig, waited, conf, out, edit>>

\* A load that fails ends the copy, or it goes on.
LEMMA LoadFailsCases ==
  ASSUME NEW p \in Procs, LoadFails(p)
  PROVE  Gone({p}) \/ GoesOn(p)
BY Zenon DEF LoadFails, GoesOn

\* A save begins, on the file, on CONFIG or on the editor's edits.
SaveBegins(p, by, base) ==
  /\ Saves(p, by, base)
  /\ faults' = faults \/ (faults < MaxFaults /\ faults' = faults + 1)
  /\ \/ by = "update" /\ base = file.v
     \/ by = "memory" /\ base = conf[p]
     \/ by = "window" /\ base = IF edit[p] = {} THEN conf[p] ELSE edit[p]

Bys == {"update", "memory", "window"}
Bases(p) == {file.v, conf[p], edit[p]}

\* The three ways to save.
LEMMA SaveCases ==
  ASSUME NEW p \in Procs, Save(p) \/ SaveUnread(p) \/ WindowSave(p)
  PROVE  \E by \in Bys, base \in Bases(p) : SaveBegins(p, by, base)
<1>1. CASE Save(p)
  BY <1>1 DEF Save, SaveBegins, Bys, Bases
<1>2. CASE SaveUnread(p)
  BY <1>2 DEF SaveUnread, SaveBegins, Bys, Bases
<1>3. CASE WindowSave(p)
  BY <1>3 DEF WindowSave, SaveBegins, Bys, Bases
<1> QED
  BY <1>1, <1>2, <1>3

\* A write ends, in the file or not.
Ends(p) ==
  /\ pc[p] \in {"stage", "publish"} /\ Written(p)
  /\ kept' \in [Procs -> BOOLEAN]
  /\ \A q \in Procs \ {p} : kept'[q] = kept[q]
  /\ \/ /\ pc[p] = "publish" /\ file' = Files(out[p].v, file.v, TRUE)
     \/ /\ file' = file
        /\ kept[p] \/ (out[p].by = "window" /\ edit[p] # {}) => kept'[p]
  /\ faults' = faults \/ (faults < MaxFaults /\ faults' = faults + 1)

\* Publish and StageFails are the two ways it ends.
LEMMA EndsCases ==
  ASSUME NEW p \in Procs, kept \in [Procs -> BOOLEAN], Publish(p) \/ StageFails(p)
  PROVE  Ends(p)
<1>1. CASE Publish(p)
  BY <1>1 DEF Publish, Ends
<1>2. CASE StageFails(p)
  BY <1>2 DEF StageFails, Ends
<1> QED
  BY <1>1, <1>2

-----------------------------------------------------------------------------
(* Types.                                                                   *)

\* TypeOK in three parts, flag by flag: what belongs to the copies...
CopiesTyped ==
  /\ pc \in [Procs -> Pcs]
  /\ lock \in Procs \cup {None}
  /\ stop \in [Procs -> BOOLEAN] /\ shutdown \in [Procs -> BOOLEAN]
  /\ restart \in [Procs -> BOOLEAN] /\ sighup \in [Procs -> BOOLEAN]
  /\ halfway \in [Procs -> BOOLEAN] /\ quit \in [Procs -> BOOLEAN]
  /\ sig \in [Procs -> [s : {"watch", "arm", "hold"}, stop : BOOLEAN]]
  /\ hand \in [Procs -> [s : {"none", "poll", "seen", "stop"}, down : BOOLEAN]]
  /\ waited \in [Procs -> 0..2]

\* ...their configurations...
ConfigTyped ==
  /\ conf \in [Procs -> Configs] /\ edit \in [Procs -> Configs]
  /\ out \in [Procs -> Outs] /\ kept \in [Procs -> BOOLEAN]

\* ...and what outlives them.
FilesTyped ==
  /\ req \in Requests \cup {None}
  /\ file \in [v : Configs, old : Configs, whole : BOOLEAN, synced : BOOLEAN]
  /\ launches \in 0..MaxLaunches /\ faults \in 0..MaxFaults /\ saves \in 0..MaxSaves

Typed == CopiesTyped /\ ConfigTyped /\ FilesTyped

\* The three parts are TypeOK.
LEMMA TypedIsTypeOK == TypeOK <=> Typed
BY DEF TypeOK, Typed, CopiesTyped, ConfigTyped, FilesTyped

\* The end of some copies leaves the rest well typed.
LEMMA GoneTyped ==
  ASSUME Typed, NEW ps \in SUBSET Procs, Gone(ps)
  PROVE  CopiesTyped' /\ ConfigTyped'
<1>1. CopiesTyped'
  BY LifecycleAssumption DEF Typed, CopiesTyped, Gone, Pcs, Watch, NoHand
<1>2. {} \in Configs /\ NoOut \in Outs
  BY DEF Configs, NoOut, Outs
<1>3. ConfigTyped'
  BY <1>2 DEF Typed, ConfigTyped, Gone
<1> QED
  BY <1>1, <1>3

\* A good new version of the file is well typed.
LEMMA FilesType ==
  ASSUME NEW v \in Configs, NEW old \in Configs
  PROVE  Files(v, old, TRUE) \in
           [v : Configs, old : Configs, whole : BOOLEAN, synced : BOOLEAN]
BY DEF Files

\* Every step keeps the types; what is published was read or changed first.
LEMMA StepTyped ==
  ASSUME Typed, DiskInv, Next
  PROVE  Typed'
<1> USE LifecycleAssumption DEF Goes, bounds, flags, watchers, procs, config, Watch, Requests, Pcs, Serving
<1>1. ASSUME NEW p \in Procs, Acquire(p) PROVE Typed'
  <2>1. pc' \in [Procs -> Pcs] /\ lock' \in Procs \cup {None}
    BY <1>1 DEF Acquire, Typed, CopiesTyped
  <2>2. conf' \in [Procs -> Configs]
    BY <1>1 DEF Acquire, Typed, CopiesTyped, ConfigTyped, FilesTyped
  <2> QED
    BY <1>1, <2>1, <2>2 DEF Acquire, Typed, CopiesTyped, ConfigTyped, FilesTyped
<1>2. ASSUME NEW p \in Procs, ClearStale(p) PROVE Typed'
  BY <1>2 DEF ClearStale, Typed, CopiesTyped, ConfigTyped, FilesTyped
<1>3. ASSUME NEW p \in Procs, TryLock(p) PROVE Typed'
  BY <1>3 DEF TryLock, Typed, CopiesTyped, ConfigTyped, FilesTyped
<1>4. ASSUME NEW p \in Procs, LookForAnswer(p) PROVE Typed'
  BY <1>4 DEF LookForAnswer, Typed, CopiesTyped, ConfigTyped, FilesTyped
<1>5. ASSUME NEW p \in Procs, TookOver(p) PROVE Typed'
  BY <1>5 DEF TookOver, Typed, CopiesTyped, ConfigTyped, FilesTyped
<1>6. ASSUME NEW p \in Procs, Load(p) PROVE Typed'
  <2>1. out' \in [Procs -> Outs]
    BY <1>6 DEF Load, Outs, Typed, ConfigTyped, FilesTyped
  <2>2. hand' \in [Procs -> [s : {"none", "poll", "seen", "stop"}, down : BOOLEAN]]
    BY <1>6 DEF Load, Typed, CopiesTyped
  <2> QED
    BY <1>6, <2>1, <2>2 DEF Load, Typed, CopiesTyped, ConfigTyped, FilesTyped
<1>7. ASSUME NEW p \in Procs, Stage(p) PROVE Typed'
  BY <1>7 DEF Stage, Typed, CopiesTyped, ConfigTyped, FilesTyped
<1>8. ASSUME NEW p \in Procs, Publish(p) \/ StageFails(p) PROVE Typed'
  <2>1. Ends(p)
    BY <1>8, EndsCases DEF Typed, ConfigTyped
  <2>2. out[p].v \in Configs
    BY DEF Typed, ConfigTyped, Outs
  <2>3. ConfigTyped'
    <3>1. NoOut \in Outs /\ {} \in Configs
      BY DEF NoOut, Outs, Configs
    <3> QED
      BY <2>1, <2>2, <3>1 DEF Ends, Written, Typed, ConfigTyped
  <2>4. file' \in [v : Configs, old : Configs, whole : BOOLEAN, synced : BOOLEAN]
    <3>1. file.v \in Configs /\ file' \in {file, Files(out[p].v, file.v, TRUE)}
      BY <2>1 DEF Ends, Typed, FilesTyped
    <3> QED
      BY <2>2, <3>1, FilesType DEF Typed, FilesTyped
  <2>5. FilesTyped'
    BY <2>1, <2>4 DEF Ends, Written, Typed, FilesTyped
  <2>6. CopiesTyped'
    BY <2>1 DEF Ends, Written, Typed, CopiesTyped
  <2> QED
    BY <2>3, <2>5, <2>6 DEF Typed
<1>9. ASSUME NEW p \in Procs, CycleEnds(p) PROVE Typed'
  <2>1. {} \in Configs
    BY DEF Configs
  <2> QED
    BY <1>9, <2>1 DEF CycleEnds, Typed, CopiesTyped, ConfigTyped, FilesTyped
<1>10. ASSUME NEW p \in Procs, Decide(p) PROVE Typed'
  BY <1>10 DEF Decide, Typed, CopiesTyped, ConfigTyped, FilesTyped
<1>11. ASSUME NEW p \in Procs, Reset(p) PROVE Typed'
  BY <1>11 DEF Reset, Typed, CopiesTyped, ConfigTyped, FilesTyped
<1>12. ASSUME NEW p \in Procs, Reread(p) PROVE Typed'
  BY <1>12 DEF Reread, Typed, CopiesTyped, ConfigTyped, FilesTyped
<1>13. ASSUME NEW p \in Procs, SignalSeen(p) PROVE Typed'
  BY <1>13 DEF SignalSeen, Typed, CopiesTyped, ConfigTyped, FilesTyped
<1>14. ASSUME NEW p \in Procs, ArmReload(p) PROVE Typed'
  BY <1>14 DEF ArmReload, Typed, CopiesTyped, ConfigTyped, FilesTyped
<1>15. ASSUME NEW p \in Procs, SignalAgain(p) PROVE Typed'
  BY <1>15 DEF SignalAgain, Typed, CopiesTyped, ConfigTyped, FilesTyped
<1>16. ASSUME NEW p \in Procs, HandoverSeen(p) PROVE Typed'
  <2>1. hand' \in [Procs -> [s : {"none", "poll", "seen", "stop"}, down : BOOLEAN]]
    BY <1>16 DEF HandoverSeen, Typed, CopiesTyped
  <2> QED
    BY <1>16, <2>1 DEF HandoverSeen, Typed, CopiesTyped, ConfigTyped, FilesTyped
<1>17. ASSUME NEW p \in Procs, HandoverTaken(p) PROVE Typed'
  BY <1>17 DEF HandoverTaken, Typed, CopiesTyped, ConfigTyped, FilesTyped
<1>18. ASSUME NEW p \in Procs, HandoverStop(p) PROVE Typed'
  <2>1. hand' \in [Procs -> [s : {"none", "poll", "seen", "stop"}, down : BOOLEAN]]
    BY <1>18 DEF HandoverStop, Typed, CopiesTyped
  <2> QED
    BY <1>18, <2>1 DEF HandoverStop, Typed, CopiesTyped, ConfigTyped, FilesTyped
<1>19. ASSUME NEW p \in Procs, HandoverDown(p) PROVE Typed'
  BY <1>19 DEF HandoverDown, Typed, CopiesTyped, ConfigTyped, FilesTyped
<1>20. ASSUME NEW p \in Procs, SigTermRest(p) PROVE Typed'
  BY <1>20 DEF SigTermRest, Typed, CopiesTyped, ConfigTyped, FilesTyped
<1>21. ASSUME NEW p \in Procs, Launch(p) PROVE Typed'
  BY <1>21 DEF Launch, Typed, CopiesTyped, ConfigTyped, FilesTyped
<1>22. ASSUME NEW p \in Procs, TakeOver(p) PROVE Typed'
  BY <1>22 DEF TakeOver, Typed, CopiesTyped, ConfigTyped, FilesTyped
<1>23. ASSUME NEW p \in Procs, Save(p) \/ SaveUnread(p) \/ WindowSave(p) PROVE Typed'
  <2>1. PICK by \in Bys, base \in Bases(p) : SaveBegins(p, by, base)
    BY <1>23, SaveCases
  <2>2. base \cup {saves + 1} \in Configs
    <3>1. base \in Configs
      BY DEF Bases, Typed, ConfigTyped, FilesTyped
    <3>2. saves + 1 \in 0..MaxSaves
      BY <2>1 DEF SaveBegins, Saves, Typed, FilesTyped
    <3> QED
      BY <3>1, <3>2 DEF Configs
  <2>3. out' \in [Procs -> Outs]
    BY <2>1, <2>2 DEF SaveBegins, Saves, Bys, Outs, Typed, ConfigTyped
  <2>4. ConfigTyped'
    BY <2>1, <2>3 DEF SaveBegins, Saves, Typed, ConfigTyped
  <2>5. CopiesTyped'
    BY <2>1 DEF SaveBegins, Saves, Typed, CopiesTyped
  <2>6. FilesTyped'
    BY <2>1 DEF SaveBegins, Saves, Typed, FilesTyped
  <2> QED
    BY <2>4, <2>5, <2>6 DEF Typed
<1>24. ASSUME NEW p \in Procs, StartServers(p) PROVE Typed'
  BY <1>24 DEF StartServers, Typed, CopiesTyped, ConfigTyped, FilesTyped
<1>25. ASSUME NEW p \in Procs, Restart(p) PROVE Typed'
  BY <1>25 DEF Restart, Typed, CopiesTyped, ConfigTyped, FilesTyped
<1>26. ASSUME NEW p \in Procs, Quit(p) PROVE Typed'
  BY <1>26 DEF Quit, Typed, CopiesTyped, ConfigTyped, FilesTyped
<1>27. ASSUME NEW p \in Procs, SigTerm(p) PROVE Typed'
  BY <1>27 DEF SigTerm, Typed, CopiesTyped, ConfigTyped, FilesTyped
<1>28. ASSUME NEW p \in Procs, SigHup(p) PROVE Typed'
  BY <1>28 DEF SigHup, Typed, CopiesTyped, ConfigTyped, FilesTyped
<1>29. ASSUME NEW p \in Procs, LeaveAlone(p) PROVE Typed'
  BY <1>29, GoneTyped DEF LeaveAlone, Typed, FilesTyped
<1>30. ASSUME NEW p \in Procs, GiveUp(p) PROVE Typed'
  BY <1>30, GoneTyped DEF GiveUp, Typed, FilesTyped
<1>31. ASSUME NEW p \in Procs, Exit(p) PROVE Typed'
  BY <1>31, GoneTyped DEF Exit, Typed, FilesTyped
<1>32. ASSUME NEW p \in Procs, Crash(p) PROVE Typed'
  BY <1>32, GoneTyped DEF Crash, Typed, FilesTyped
<1>33. ASSUME NEW p \in Procs, LoadFails(p) PROVE Typed'
  <2>1. CASE Gone({p})
    BY <1>33, <2>1, GoneTyped DEF LoadFails, Typed, FilesTyped
  <2>2. CASE GoesOn(p)
    <3>1. hand' \in [Procs -> [s : {"none", "poll", "seen", "stop"}, down : BOOLEAN]]
      BY <2>2 DEF GoesOn, Typed, CopiesTyped
    <3>2. FilesTyped'
      BY <1>33 DEF LoadFails, Typed, FilesTyped
    <3>3. ConfigTyped'
      BY <2>2 DEF GoesOn, Typed, ConfigTyped
    <3>4. CopiesTyped'
      BY <2>2, <3>1 DEF GoesOn, Typed, CopiesTyped
    <3> QED
      BY <3>2, <3>3, <3>4 DEF Typed
  <2> QED
    BY <1>33, <2>1, <2>2, LoadFailsCases
<1>34. CASE RequestAges
  BY <1>34 DEF RequestAges, Typed, CopiesTyped, ConfigTyped, FilesTyped
<1>35. CASE PowerLoss
  <2>1. CopiesTyped' /\ ConfigTyped'
    BY <1>35, GoneTyped DEF PowerLoss
  <2>2. PICK v \in {file.v, file.old} :
          file' = [v |-> v, old |-> v, whole |-> file.whole /\ (file.synced \/ v # file.v),
                   synced |-> TRUE]
    BY <1>35 DEF PowerLoss
  <2>3. v \in Configs
    BY <2>2 DEF Typed, FilesTyped
  <2>4. FilesTyped'
    BY <1>35, <2>2, <2>3 DEF PowerLoss, Typed, FilesTyped
  <2> QED
    BY <2>1, <2>4 DEF Typed
<1>36. ASSUME NEW p \in Procs, NoTransferDir(p) PROVE Typed'
  BY <1>36 DEF NoTransferDir, Typed, CopiesTyped, ConfigTyped, FilesTyped
<1>37. ASSUME NEW p \in Procs, Edit(p) PROVE Typed'
  BY <1>37 DEF Edit, Typed, CopiesTyped, ConfigTyped, FilesTyped
<1>38. ASSUME NEW p \in Procs, DropEdits(p) PROVE Typed'
  <2>1. {} \in Configs
    BY DEF Configs
  <2> QED
    BY <1>38, <2>1 DEF DropEdits, Typed, CopiesTyped, ConfigTyped, FilesTyped
<1> QED
  BY <1>1, <1>2, <1>3, <1>4, <1>5, <1>6, <1>7, <1>8, <1>9, <1>10, <1>11, <1>12, <1>13,
     <1>14, <1>15, <1>16, <1>17, <1>18, <1>19, <1>20, <1>21, <1>22, <1>23, <1>24,
     <1>25, <1>26, <1>27, <1>28, <1>29, <1>30, <1>31, <1>32, <1>33, <1>34, <1>35,
     <1>36, <1>37, <1>38
     DEF Next, Main, SignalWatcher, HandoverWatcher

-----------------------------------------------------------------------------
(* The lock, the file and the orders.                                       *)

\* Every step leaves the lock with the copy that needs it.
LEMMA StepLock ==
  ASSUME Typed, LockInv, Next
  PROVE  LockInv'
<1> USE LifecycleAssumption DEF Goes, bounds, flags, watchers, procs, config, Pcs, Serving
<1>1. ASSUME NEW p \in Procs, Acquire(p) PROVE LockInv'
  BY <1>1 DEF Acquire, Typed, CopiesTyped, LockInv, Holding, Watched
<1>2. ASSUME NEW p \in Procs, ClearStale(p) PROVE LockInv'
  BY <1>2 DEF ClearStale, Typed, CopiesTyped, LockInv, Holding, Watched
<1>3. ASSUME NEW p \in Procs, TryLock(p) PROVE LockInv'
  BY <1>3 DEF TryLock, Typed, CopiesTyped, LockInv, Holding, Watched
<1>4. ASSUME NEW p \in Procs, LookForAnswer(p) PROVE LockInv'
  BY <1>4 DEF LookForAnswer, Typed, CopiesTyped, LockInv, Holding, Watched
<1>5. ASSUME NEW p \in Procs, TookOver(p) PROVE LockInv'
  BY <1>5 DEF TookOver, Typed, CopiesTyped, LockInv, Holding, Watched
<1>6. ASSUME NEW p \in Procs, Load(p) PROVE LockInv'
  BY <1>6 DEF Load, Typed, CopiesTyped, LockInv, Holding, Watched
<1>7. ASSUME NEW p \in Procs, Stage(p) PROVE LockInv'
  BY <1>7 DEF Stage, Typed, CopiesTyped, LockInv, Holding, Watched
<1>8. ASSUME NEW p \in Procs, Publish(p) \/ StageFails(p) PROVE LockInv'
  <2>1. Ends(p)
    BY <1>8, EndsCases DEF Typed, ConfigTyped
  <2> QED
    BY <2>1 DEF Ends, Written, Typed, CopiesTyped, LockInv, Holding, Watched
<1>9. ASSUME NEW p \in Procs, CycleEnds(p) PROVE LockInv'
  BY <1>9 DEF CycleEnds, Typed, CopiesTyped, LockInv, Holding, Watched
<1>10. ASSUME NEW p \in Procs, Decide(p) PROVE LockInv'
  BY <1>10 DEF Decide, Typed, CopiesTyped, LockInv, Holding, Watched
<1>11. ASSUME NEW p \in Procs, Reset(p) PROVE LockInv'
  BY <1>11 DEF Reset, Typed, CopiesTyped, LockInv, Holding, Watched
<1>12. ASSUME NEW p \in Procs, Reread(p) PROVE LockInv'
  BY <1>12 DEF Reread, Typed, CopiesTyped, LockInv, Holding, Watched
<1>13. ASSUME NEW p \in Procs, SignalSeen(p) PROVE LockInv'
  BY <1>13 DEF SignalSeen, Typed, CopiesTyped, LockInv, Holding, Watched
<1>14. ASSUME NEW p \in Procs, ArmReload(p) PROVE LockInv'
  BY <1>14 DEF ArmReload, Typed, CopiesTyped, LockInv, Holding, Watched
<1>15. ASSUME NEW p \in Procs, SignalAgain(p) PROVE LockInv'
  BY <1>15 DEF SignalAgain, Typed, CopiesTyped, LockInv, Holding, Watched
<1>16. ASSUME NEW p \in Procs, HandoverSeen(p) PROVE LockInv'
  BY <1>16 DEF HandoverSeen, Typed, CopiesTyped, LockInv, Holding, Watched
<1>17. ASSUME NEW p \in Procs, HandoverTaken(p) PROVE LockInv'
  BY <1>17 DEF HandoverTaken, Typed, CopiesTyped, LockInv, Holding, Watched
<1>18. ASSUME NEW p \in Procs, HandoverStop(p) PROVE LockInv'
  BY <1>18 DEF HandoverStop, Typed, CopiesTyped, LockInv, Holding, Watched
<1>19. ASSUME NEW p \in Procs, HandoverDown(p) PROVE LockInv'
  BY <1>19 DEF HandoverDown, Typed, CopiesTyped, LockInv, Holding, Watched
<1>20. ASSUME NEW p \in Procs, SigTermRest(p) PROVE LockInv'
  BY <1>20 DEF SigTermRest, Typed, CopiesTyped, LockInv, Holding, Watched
<1>21. ASSUME NEW p \in Procs, Launch(p) PROVE LockInv'
  BY <1>21 DEF Launch, Typed, CopiesTyped, LockInv, Holding, Watched
<1>22. ASSUME NEW p \in Procs, TakeOver(p) PROVE LockInv'
  BY <1>22 DEF TakeOver, Typed, CopiesTyped, LockInv, Holding, Watched
<1>23. ASSUME NEW p \in Procs, Save(p) \/ SaveUnread(p) \/ WindowSave(p) PROVE LockInv'
  <2>1. PICK by \in Bys, base \in Bases(p) : SaveBegins(p, by, base)
    BY <1>23, SaveCases
  <2> QED
    BY <2>1 DEF SaveBegins, Saves, Typed, CopiesTyped, LockInv, Holding, Watched
<1>24. ASSUME NEW p \in Procs, StartServers(p) PROVE LockInv'
  BY <1>24 DEF StartServers, Typed, CopiesTyped, LockInv, Holding, Watched
<1>25. ASSUME NEW p \in Procs, Restart(p) PROVE LockInv'
  BY <1>25 DEF Restart, Typed, CopiesTyped, LockInv, Holding, Watched
<1>26. ASSUME NEW p \in Procs, Quit(p) PROVE LockInv'
  BY <1>26 DEF Quit, Typed, CopiesTyped, LockInv, Holding, Watched
<1>27. ASSUME NEW p \in Procs, SigTerm(p) PROVE LockInv'
  BY <1>27 DEF SigTerm, Typed, CopiesTyped, LockInv, Holding, Watched
<1>28. ASSUME NEW p \in Procs, SigHup(p) PROVE LockInv'
  BY <1>28 DEF SigHup, Typed, CopiesTyped, LockInv, Holding, Watched
<1>29. ASSUME NEW p \in Procs, LeaveAlone(p) PROVE LockInv'
  BY <1>29 DEF LeaveAlone, Gone, NoHand, Typed, CopiesTyped, LockInv, Holding, Watched
<1>30. ASSUME NEW p \in Procs, GiveUp(p) PROVE LockInv'
  BY <1>30 DEF GiveUp, Gone, NoHand, Typed, CopiesTyped, LockInv, Holding, Watched
<1>31. ASSUME NEW p \in Procs, Exit(p) PROVE LockInv'
  BY <1>31 DEF Exit, Gone, NoHand, Typed, CopiesTyped, LockInv, Holding, Watched
<1>32. ASSUME NEW p \in Procs, Crash(p) PROVE LockInv'
  BY <1>32 DEF Crash, Gone, NoHand, Typed, CopiesTyped, LockInv, Holding, Watched
<1>33. ASSUME NEW p \in Procs, LoadFails(p) PROVE LockInv'
  <2>1. CASE Gone({p})
    BY <2>1 DEF Gone, NoHand, Typed, CopiesTyped, LockInv, Holding, Watched
  <2>2. CASE GoesOn(p)
    BY <2>2 DEF GoesOn, Typed, CopiesTyped, LockInv, Holding, Watched
  <2> QED
    BY <1>33, <2>1, <2>2, LoadFailsCases
<1>34. CASE RequestAges
  BY <1>34 DEF RequestAges, LockInv
<1>35. CASE PowerLoss
  BY <1>35 DEF PowerLoss, Gone, NoHand, LockInv, Holding, Watched, Pcs
<1>36. ASSUME NEW p \in Procs, NoTransferDir(p) PROVE LockInv'
  BY <1>36 DEF NoTransferDir, Typed, CopiesTyped, LockInv, Holding, Watched
<1>37. ASSUME NEW p \in Procs, Edit(p) PROVE LockInv'
  BY <1>37 DEF Edit, Typed, CopiesTyped, LockInv, Holding, Watched
<1>38. ASSUME NEW p \in Procs, DropEdits(p) PROVE LockInv'
  BY <1>38 DEF DropEdits, Typed, CopiesTyped, LockInv, Holding, Watched
<1> QED
  BY <1>1, <1>2, <1>3, <1>4, <1>5, <1>6, <1>7, <1>8, <1>9, <1>10, <1>11, <1>12, <1>13,
     <1>14, <1>15, <1>16, <1>17, <1>18, <1>19, <1>20, <1>21, <1>22, <1>23, <1>24,
     <1>25, <1>26, <1>27, <1>28, <1>29, <1>30, <1>31, <1>32, <1>33, <1>34, <1>35,
     <1>36, <1>37, <1>38
     DEF Next, Main, SignalWatcher, HandoverWatcher

\* Every step keeps the file whole and nobody's copy behind it: while one copy is
\* at its save, no other publishes.
LEMMA StepDisk ==
  ASSUME Typed, LockInv, DiskInv, Next
  PROVE  DiskInv'
<1> USE LifecycleAssumption DEF Goes, bounds, flags, watchers, procs, config, Pcs, Serving
<1>1. ASSUME NEW p \in Procs, Acquire(p) PROVE DiskInv'
  <2>1. /\ UNCHANGED <<file, out, edit, kept, hand>>
        /\ \A q \in Procs \ {p} : pc'[q] = pc[q] /\ conf'[q] = conf[q]
        /\ pc[p] = "begin" /\ pc'[p] \in {"clear", "busy"}
    BY <1>1 DEF Acquire, Typed, CopiesTyped, ConfigTyped
  <2>2. hand[p].s = "none"
    BY <2>1 DEF LockInv, Holding
  <2> QED
    BY <2>1, <2>2 DEF DiskInv, OutHolds
<1>2. ASSUME NEW p \in Procs, ClearStale(p) PROVE DiskInv'
  BY <1>2 DEF ClearStale, Typed, CopiesTyped, ConfigTyped, FilesTyped, DiskInv, OutHolds
<1>3. ASSUME NEW p \in Procs, TryLock(p) PROVE DiskInv'
  BY <1>3 DEF TryLock, Typed, CopiesTyped, ConfigTyped, FilesTyped, DiskInv, OutHolds
<1>4. ASSUME NEW p \in Procs, LookForAnswer(p) PROVE DiskInv'
  BY <1>4 DEF LookForAnswer, Typed, CopiesTyped, ConfigTyped, FilesTyped, DiskInv, OutHolds
<1>5. ASSUME NEW p \in Procs, TookOver(p) PROVE DiskInv'
  BY <1>5 DEF TookOver, Typed, CopiesTyped, ConfigTyped, FilesTyped, DiskInv, OutHolds
<1>6. ASSUME NEW p \in Procs, Load(p) PROVE DiskInv'
  BY <1>6 DEF Load, Typed, CopiesTyped, ConfigTyped, FilesTyped, DiskInv, OutHolds
<1>7. ASSUME NEW p \in Procs, Stage(p) PROVE DiskInv'
  BY <1>7 DEF Stage, Typed, CopiesTyped, ConfigTyped, FilesTyped, DiskInv, OutHolds
<1>8. ASSUME NEW p \in Procs, Publish(p) \/ StageFails(p) PROVE DiskInv'
  <2>1. Ends(p)
    BY <1>8, EndsCases DEF Typed, ConfigTyped
  <2>2. hand' = hand /\ out[p].v \subseteq out[p].v /\ pc'[p] \in {"up", "run"} /\ conf'[p] = out[p].v
    BY <2>1 DEF Ends, Written, Typed, CopiesTyped, ConfigTyped
  <2>3. \A q \in Procs \ {p} :
          /\ pc'[q] = pc[q] /\ out'[q] = out[q] /\ edit'[q] = edit[q] /\ kept'[q] = kept[q]
          /\ conf'[q] = conf[q] /\ pc[q] \notin Holding /\ hand[q].s = "none"
    BY <2>1 DEF Ends, Written, Typed, CopiesTyped, ConfigTyped, LockInv, Holding
  <2>4. CASE pc[p] = "publish" /\ file' = Files(out[p].v, file.v, TRUE)
    BY <2>2, <2>3, <2>4 DEF DiskInv, OutHolds, Files, Holding
  <2>5. CASE file' = file /\ (kept[p] \/ (out[p].by = "window" /\ edit[p] # {}) => kept'[p])
    <3>1. ~kept'[p] => file.v \subseteq out[p].v
      BY <2>1, <2>5 DEF Ends, DiskInv, OutHolds, Outs, Typed, ConfigTyped
    <3> QED
      BY <2>2, <2>3, <2>5, <3>1 DEF DiskInv, OutHolds, Holding
  <2> QED
    BY <2>1, <2>4, <2>5 DEF Ends
<1>9. ASSUME NEW p \in Procs, CycleEnds(p) PROVE DiskInv'
  BY <1>9 DEF CycleEnds, Typed, CopiesTyped, ConfigTyped, FilesTyped, DiskInv, OutHolds
<1>10. ASSUME NEW p \in Procs, Decide(p) PROVE DiskInv'
  BY <1>10 DEF Decide, Typed, CopiesTyped, ConfigTyped, FilesTyped, DiskInv, OutHolds
<1>11. ASSUME NEW p \in Procs, Reset(p) PROVE DiskInv'
  BY <1>11 DEF Reset, Typed, CopiesTyped, ConfigTyped, FilesTyped, DiskInv, OutHolds
<1>12. ASSUME NEW p \in Procs, Reread(p) PROVE DiskInv'
  BY <1>12 DEF Reread, Typed, CopiesTyped, ConfigTyped, FilesTyped, DiskInv, OutHolds
<1>13. ASSUME NEW p \in Procs, SignalSeen(p) PROVE DiskInv'
  BY <1>13 DEF SignalSeen, Typed, CopiesTyped, ConfigTyped, FilesTyped, DiskInv, OutHolds
<1>14. ASSUME NEW p \in Procs, ArmReload(p) PROVE DiskInv'
  BY <1>14 DEF ArmReload, Typed, CopiesTyped, ConfigTyped, FilesTyped, DiskInv, OutHolds
<1>15. ASSUME NEW p \in Procs, SignalAgain(p) PROVE DiskInv'
  BY <1>15 DEF SignalAgain, Typed, CopiesTyped, ConfigTyped, FilesTyped, DiskInv, OutHolds
<1>16. ASSUME NEW p \in Procs, HandoverSeen(p) PROVE DiskInv'
  BY <1>16 DEF HandoverSeen, Typed, CopiesTyped, ConfigTyped, FilesTyped, DiskInv, OutHolds
<1>17. ASSUME NEW p \in Procs, HandoverTaken(p) PROVE DiskInv'
  BY <1>17 DEF HandoverTaken, Typed, CopiesTyped, ConfigTyped, FilesTyped, DiskInv, OutHolds
<1>18. ASSUME NEW p \in Procs, HandoverStop(p) PROVE DiskInv'
  BY <1>18 DEF HandoverStop, Typed, CopiesTyped, ConfigTyped, FilesTyped, DiskInv, OutHolds
<1>19. ASSUME NEW p \in Procs, HandoverDown(p) PROVE DiskInv'
  BY <1>19 DEF HandoverDown, Typed, CopiesTyped, ConfigTyped, FilesTyped, DiskInv, OutHolds
<1>20. ASSUME NEW p \in Procs, SigTermRest(p) PROVE DiskInv'
  BY <1>20 DEF SigTermRest, Typed, CopiesTyped, ConfigTyped, FilesTyped, DiskInv, OutHolds
<1>21. ASSUME NEW p \in Procs, Launch(p) PROVE DiskInv'
  BY <1>21 DEF Launch, Typed, CopiesTyped, ConfigTyped, FilesTyped, DiskInv, OutHolds
<1>22. ASSUME NEW p \in Procs, TakeOver(p) PROVE DiskInv'
  BY <1>22 DEF TakeOver, Typed, CopiesTyped, ConfigTyped, FilesTyped, DiskInv, OutHolds
<1>23. ASSUME NEW p \in Procs, Save(p) \/ SaveUnread(p) \/ WindowSave(p) PROVE DiskInv'
  <2>1. PICK by \in Bys, base \in Bases(p) : SaveBegins(p, by, base)
    BY <1>23, SaveCases
  <2>2. /\ pc[p] = "run" /\ pc'[p] = "stage" /\ out'[p] = [by |-> by, v |-> base \cup {saves + 1}]
        /\ UNCHANGED <<file, conf, edit, kept, hand>>
    BY <2>1 DEF SaveBegins, Saves, Typed, CopiesTyped, ConfigTyped
  <2>3. ~kept[p] => file.v \subseteq conf[p]
    BY <2>2 DEF DiskInv, LockInv, Watched
  <2>4. OutHolds(p)'
    BY <2>1, <2>2, <2>3 DEF SaveBegins, OutHolds, Bys
  <2>5. \A q \in Procs \ {p} : pc'[q] = pc[q] /\ out'[q] = out[q]
    BY <2>1 DEF SaveBegins, Saves, Typed, CopiesTyped, ConfigTyped
  <2>6. \A q \in Procs : pc'[q] \in {"stage", "publish"} => OutHolds(q)'
    BY <2>2, <2>4, <2>5 DEF DiskInv, OutHolds
  <2> QED
    BY <2>2, <2>3, <2>5, <2>6 DEF DiskInv
<1>24. ASSUME NEW p \in Procs, StartServers(p) PROVE DiskInv'
  BY <1>24 DEF StartServers, Typed, CopiesTyped, ConfigTyped, FilesTyped, DiskInv, OutHolds
<1>25. ASSUME NEW p \in Procs, Restart(p) PROVE DiskInv'
  BY <1>25 DEF Restart, Typed, CopiesTyped, ConfigTyped, FilesTyped, DiskInv, OutHolds
<1>26. ASSUME NEW p \in Procs, Quit(p) PROVE DiskInv'
  BY <1>26 DEF Quit, Typed, CopiesTyped, ConfigTyped, FilesTyped, DiskInv, OutHolds
<1>27. ASSUME NEW p \in Procs, SigTerm(p) PROVE DiskInv'
  BY <1>27 DEF SigTerm, Typed, CopiesTyped, ConfigTyped, FilesTyped, DiskInv, OutHolds
<1>28. ASSUME NEW p \in Procs, SigHup(p) PROVE DiskInv'
  BY <1>28 DEF SigHup, Typed, CopiesTyped, ConfigTyped, FilesTyped, DiskInv, OutHolds
<1>29. ASSUME NEW p \in Procs, LeaveAlone(p) PROVE DiskInv'
  BY <1>29 DEF LeaveAlone, Gone, NoHand, Typed, CopiesTyped, ConfigTyped, DiskInv, OutHolds
<1>30. ASSUME NEW p \in Procs, GiveUp(p) PROVE DiskInv'
  BY <1>30 DEF GiveUp, Gone, NoHand, Typed, CopiesTyped, ConfigTyped, DiskInv, OutHolds
<1>31. ASSUME NEW p \in Procs, Exit(p) PROVE DiskInv'
  BY <1>31 DEF Exit, Gone, NoHand, Typed, CopiesTyped, ConfigTyped, DiskInv, OutHolds
<1>32. ASSUME NEW p \in Procs, Crash(p) PROVE DiskInv'
  BY <1>32 DEF Crash, Gone, NoHand, Typed, CopiesTyped, ConfigTyped, DiskInv, OutHolds
<1>33. ASSUME NEW p \in Procs, LoadFails(p) PROVE DiskInv'
  <2>1. file' = file
    BY <1>33 DEF LoadFails
  <2>2. CASE Gone({p})
    BY <2>1, <2>2 DEF Gone, NoHand, Typed, CopiesTyped, ConfigTyped, DiskInv, OutHolds
  <2>3. CASE GoesOn(p)
    BY <2>1, <2>3 DEF GoesOn, Typed, CopiesTyped, ConfigTyped, DiskInv, OutHolds
  <2> QED
    BY <1>33, <2>2, <2>3, LoadFailsCases
<1>34. CASE RequestAges
  BY <1>34 DEF RequestAges, DiskInv, OutHolds
<1>35. CASE PowerLoss
  <2>1. PICK v \in {file.v, file.old} :
          file' = [v |-> v, old |-> v, whole |-> file.whole /\ (file.synced \/ v # file.v),
                   synced |-> TRUE]
    BY <1>35 DEF PowerLoss
  <2>3. file'.synced /\ file'.whole = (file.whole /\ (file.synced \/ v # file.v))
    BY <2>1
  <2>2. \A p \in Procs : pc'[p] = "off" /\ hand'[p].s = "none"
    BY <1>35 DEF PowerLoss, Gone, NoHand
  <2> QED
    BY <2>2, <2>3 DEF DiskInv
<1>36. ASSUME NEW p \in Procs, NoTransferDir(p) PROVE DiskInv'
  BY <1>36 DEF NoTransferDir, Typed, CopiesTyped, ConfigTyped, FilesTyped, DiskInv, OutHolds
<1>37. ASSUME NEW p \in Procs, Edit(p) PROVE DiskInv'
  BY <1>37 DEF Edit, Typed, CopiesTyped, ConfigTyped, FilesTyped, DiskInv, OutHolds
<1>38. ASSUME NEW p \in Procs, DropEdits(p) PROVE DiskInv'
  BY <1>38 DEF DropEdits, Typed, CopiesTyped, ConfigTyped, FilesTyped, DiskInv, OutHolds
<1> QED
  BY <1>1, <1>2, <1>3, <1>4, <1>5, <1>6, <1>7, <1>8, <1>9, <1>10, <1>11, <1>12, <1>13,
     <1>14, <1>15, <1>16, <1>17, <1>18, <1>19, <1>20, <1>21, <1>22, <1>23, <1>24,
     <1>25, <1>26, <1>27, <1>28, <1>29, <1>30, <1>31, <1>32, <1>33, <1>34, <1>35,
     <1>36, <1>37, <1>38
     DEF Next, Main, SignalWatcher, HandoverWatcher

\* Every step stores the reason of an order to shut down before the order, and
\* forgets it only with the order.
LEMMA StepOrder ==
  ASSUME Typed, OrderInv, Next
  PROVE  OrderInv'
<1> USE LifecycleAssumption DEF Goes, bounds, flags, watchers, procs, config, Pcs, Serving
<1>1. ASSUME NEW p \in Procs, Acquire(p) PROVE OrderInv'
  <2>1. PICK to \in {"clear", "busy"} : Goes(p, "begin", to)
    BY <1>1 DEF Acquire
  <2>2. UNCHANGED <<flags, watchers>>
    BY <1>1 DEF Acquire
  <2> QED
    BY <2>1, <2>2 DEF Typed, CopiesTyped, OrderInv, Taking
<1>2. ASSUME NEW p \in Procs, ClearStale(p) PROVE OrderInv'
  BY <1>2 DEF ClearStale, Typed, CopiesTyped, OrderInv, Taking
<1>3. ASSUME NEW p \in Procs, TryLock(p) PROVE OrderInv'
  BY <1>3 DEF TryLock, Typed, CopiesTyped, OrderInv, Taking
<1>4. ASSUME NEW p \in Procs, LookForAnswer(p) PROVE OrderInv'
  BY <1>4 DEF LookForAnswer, Typed, CopiesTyped, OrderInv, Taking
<1>5. ASSUME NEW p \in Procs, TookOver(p) PROVE OrderInv'
  BY <1>5 DEF TookOver, Typed, CopiesTyped, OrderInv, Taking
<1>6. ASSUME NEW p \in Procs, Load(p) PROVE OrderInv'
  BY <1>6 DEF Load, Typed, CopiesTyped, OrderInv, Taking
<1>7. ASSUME NEW p \in Procs, Stage(p) PROVE OrderInv'
  BY <1>7 DEF Stage, Typed, CopiesTyped, OrderInv, Taking
<1>8. ASSUME NEW p \in Procs, Publish(p) \/ StageFails(p) PROVE OrderInv'
  <2>1. Ends(p)
    BY <1>8, EndsCases DEF Typed, ConfigTyped
  <2> QED
    BY <2>1 DEF Ends, Written, Typed, CopiesTyped, OrderInv, Taking
<1>9. ASSUME NEW p \in Procs, CycleEnds(p) PROVE OrderInv'
  BY <1>9 DEF CycleEnds, Typed, CopiesTyped, OrderInv, Taking
<1>10. ASSUME NEW p \in Procs, Decide(p) PROVE OrderInv'
  BY <1>10 DEF Decide, Typed, CopiesTyped, OrderInv, Taking
<1>11. ASSUME NEW p \in Procs, Reset(p) PROVE OrderInv'
  BY <1>11 DEF Reset, Typed, CopiesTyped, OrderInv, Taking
<1>12. ASSUME NEW p \in Procs, Reread(p) PROVE OrderInv'
  BY <1>12 DEF Reread, Typed, CopiesTyped, OrderInv, Taking
<1>13. ASSUME NEW p \in Procs, SignalSeen(p) PROVE OrderInv'
  BY <1>13 DEF SignalSeen, Typed, CopiesTyped, OrderInv, Taking
<1>14. ASSUME NEW p \in Procs, ArmReload(p) PROVE OrderInv'
  BY <1>14 DEF ArmReload, Typed, CopiesTyped, OrderInv, Taking
<1>15. ASSUME NEW p \in Procs, SignalAgain(p) PROVE OrderInv'
  BY <1>15 DEF SignalAgain, Typed, CopiesTyped, OrderInv, Taking
<1>16. ASSUME NEW p \in Procs, HandoverSeen(p) PROVE OrderInv'
  BY <1>16 DEF HandoverSeen, Typed, CopiesTyped, OrderInv, Taking
<1>17. ASSUME NEW p \in Procs, HandoverTaken(p) PROVE OrderInv'
  BY <1>17 DEF HandoverTaken, Typed, CopiesTyped, OrderInv, Taking
<1>18. ASSUME NEW p \in Procs, HandoverStop(p) PROVE OrderInv'
  BY <1>18 DEF HandoverStop, Typed, CopiesTyped, OrderInv, Taking
<1>19. ASSUME NEW p \in Procs, HandoverDown(p) PROVE OrderInv'
  BY <1>19 DEF HandoverDown, Typed, CopiesTyped, OrderInv, Taking
<1>20. ASSUME NEW p \in Procs, SigTermRest(p) PROVE OrderInv'
  BY <1>20 DEF SigTermRest, Typed, CopiesTyped, OrderInv, Taking
<1>21. ASSUME NEW p \in Procs, Launch(p) PROVE OrderInv'
  BY <1>21 DEF Launch, Typed, CopiesTyped, OrderInv, Taking
<1>22. ASSUME NEW p \in Procs, TakeOver(p) PROVE OrderInv'
  BY <1>22 DEF TakeOver, Typed, CopiesTyped, OrderInv, Taking
<1>23. ASSUME NEW p \in Procs, Save(p) \/ SaveUnread(p) \/ WindowSave(p) PROVE OrderInv'
  <2>1. PICK by \in Bys, base \in Bases(p) : SaveBegins(p, by, base)
    BY <1>23, SaveCases
  <2> QED
    BY <2>1 DEF SaveBegins, Saves, Typed, CopiesTyped, OrderInv, Taking
<1>24. ASSUME NEW p \in Procs, StartServers(p) PROVE OrderInv'
  BY <1>24 DEF StartServers, Typed, CopiesTyped, OrderInv, Taking
<1>25. ASSUME NEW p \in Procs, Restart(p) PROVE OrderInv'
  BY <1>25 DEF Restart, Typed, CopiesTyped, OrderInv, Taking
<1>26. ASSUME NEW p \in Procs, Quit(p) PROVE OrderInv'
  BY <1>26 DEF Quit, Typed, CopiesTyped, OrderInv, Taking
<1>27. ASSUME NEW p \in Procs, SigTerm(p) PROVE OrderInv'
  BY <1>27 DEF SigTerm, Typed, CopiesTyped, OrderInv, Taking
<1>28. ASSUME NEW p \in Procs, SigHup(p) PROVE OrderInv'
  BY <1>28 DEF SigHup, Typed, CopiesTyped, OrderInv, Taking
<1>29. ASSUME NEW p \in Procs, LeaveAlone(p) PROVE OrderInv'
  BY <1>29 DEF LeaveAlone, Gone, NoHand, Typed, CopiesTyped, OrderInv, Taking
<1>30. ASSUME NEW p \in Procs, GiveUp(p) PROVE OrderInv'
  BY <1>30 DEF GiveUp, Gone, NoHand, Typed, CopiesTyped, OrderInv, Taking
<1>31. ASSUME NEW p \in Procs, Exit(p) PROVE OrderInv'
  BY <1>31 DEF Exit, Gone, NoHand, Typed, CopiesTyped, OrderInv, Taking
<1>32. ASSUME NEW p \in Procs, Crash(p) PROVE OrderInv'
  BY <1>32 DEF Crash, Gone, NoHand, Typed, CopiesTyped, OrderInv, Taking
<1>33. ASSUME NEW p \in Procs, LoadFails(p) PROVE OrderInv'
  <2>1. CASE Gone({p})
    BY <2>1 DEF Gone, NoHand, Typed, CopiesTyped, OrderInv, Taking
  <2>2. CASE GoesOn(p)
    BY <2>2 DEF GoesOn, Typed, CopiesTyped, OrderInv, Taking
  <2> QED
    BY <1>33, <2>1, <2>2, LoadFailsCases
<1>34. CASE RequestAges
  BY <1>34 DEF RequestAges, OrderInv
<1>35. CASE PowerLoss
  BY <1>35 DEF PowerLoss, Gone, NoHand, OrderInv
<1>36. ASSUME NEW p \in Procs, NoTransferDir(p) PROVE OrderInv'
  BY <1>36 DEF NoTransferDir, Typed, CopiesTyped, OrderInv, Taking
<1>37. ASSUME NEW p \in Procs, Edit(p) PROVE OrderInv'
  BY <1>37 DEF Edit, Typed, CopiesTyped, OrderInv, Taking
<1>38. ASSUME NEW p \in Procs, DropEdits(p) PROVE OrderInv'
  BY <1>38 DEF DropEdits, Typed, CopiesTyped, OrderInv, Taking
<1> QED
  BY <1>1, <1>2, <1>3, <1>4, <1>5, <1>6, <1>7, <1>8, <1>9, <1>10, <1>11, <1>12, <1>13,
     <1>14, <1>15, <1>16, <1>17, <1>18, <1>19, <1>20, <1>21, <1>22, <1>23, <1>24,
     <1>25, <1>26, <1>27, <1>28, <1>29, <1>30, <1>31, <1>32, <1>33, <1>34, <1>35,
     <1>36, <1>37, <1>38
     DEF Next, Main, SignalWatcher, HandoverWatcher

-----------------------------------------------------------------------------
(* The theorems.                                                            *)

\* The initial states satisfy the invariant.
LEMMA InitInv == Init => Inv
<1> SUFFICES ASSUME Init PROVE Inv
  OBVIOUS
<1>1. Typed
  <2>1. CopiesTyped
    BY LifecycleAssumption DEF Init, CopiesTyped, No, Watch, NoHand, Pcs
  <2>2. FilesTyped
    <3>1. {0} \in Configs
      BY LifecycleAssumption DEF Configs
    <3>2. [aged |-> TRUE, stale |-> {}] \in Requests
      BY Zenon DEF Requests
    <3>3. req \in Requests \cup {None}
      BY <3>2 DEF Init
    <3>4. file \in [v : Configs, old : Configs, whole : BOOLEAN, synced : BOOLEAN]
      BY <3>1, FilesType DEF Init
    <3>5. launches \in 0..MaxLaunches /\ faults \in 0..MaxFaults /\ saves \in 0..MaxSaves
      BY LifecycleAssumption DEF Init
    <3> QED
      BY <3>3, <3>4, <3>5 DEF FilesTyped
  <2>3. ConfigTyped
    <3>1. {} \in Configs /\ NoOut \in Outs
      BY DEF Configs, NoOut, Outs
    <3> QED
      BY <3>1 DEF Init, ConfigTyped, No
  <2> QED
    BY <2>1, <2>2, <2>3 DEF Typed
<1>2. LockInv /\ DiskInv /\ OrderInv
  BY DEF Init, LockInv, Holding, Watched, Serving, DiskInv, Files, OrderInv, Taking, No, NoHand
<1> QED
  BY <1>1, <1>2, TypedIsTypeOK DEF Inv

\* Every step keeps the invariant.
LEMMA NextInv == Inv /\ [Next]_vars => Inv'
<1> SUFFICES ASSUME Inv, [Next]_vars PROVE Inv'
  OBVIOUS
<1>0. Typed /\ LockInv /\ DiskInv /\ OrderInv
  BY TypedIsTypeOK DEF Inv
<1>1. CASE Next
  <2>1. Typed' /\ LockInv' /\ DiskInv' /\ OrderInv'
    BY <1>0, <1>1, StepTyped, StepLock, StepDisk, StepOrder
  <2>2. TypeOK'
    BY <2>1 DEF TypeOK, Typed, CopiesTyped, ConfigTyped, FilesTyped
  <2> QED
    BY <2>1, <2>2 DEF Inv
<1>2. CASE UNCHANGED vars
  <2>1. TypeOK'
    BY <1>2 DEF vars, procs, config, bounds, Inv, TypeOK
  <2>2. LockInv' /\ OrderInv'
    BY <1>2 DEF vars, procs, bounds, Inv, LockInv, OrderInv
  <2>3. DiskInv'
    BY <1>2 DEF vars, procs, config, bounds, Inv, DiskInv, OutHolds
  <2> QED
    BY <2>1, <2>2, <2>3 DEF Inv
<1> QED
  BY <1>1, <1>2

\* Inv is an invariant of the specification.
THEOREM Invariance == Spec => []Inv
BY InitInv, NextInv, PTL DEF Spec

\* At most one copy is the gateway, the one that holds the lock, and the state
\* is well typed, for any number of copies and faults (acquire,
\* request_handover).
THEOREM OneInstanceHolds == Spec => []OneInstance
<1>1. Inv => OneInstance
  BY DEF Inv, LockInv, Holding, Watched, OneInstance, OneGateway
<1> QED
  BY <1>1, Invariance, PTL

\* Whenever the power goes, the configuration on disk is a whole file
\* (write_config_file).
THEOREM FileWholeHolds == Spec => []FileWhole
<1>1. Inv => FileWhole
  BY DEF Inv, DiskInv, FileWhole
<1> QED
  BY <1>1, Invariance, PTL

\* What EndsWhenAsked says of a step.
Asked ==
  \A p \in Procs :
    pc[p] \in Serving /\ pc'[p] \notin Serving =>
      stop[p] \/ quit[p] \/ faults' # faults

\* Only an order to end, or a fault, takes a copy from its service.
LEMMA StepAsked ==
  ASSUME Inv, Next
  PROVE  Asked
<1>0. Typed /\ OrderInv
  BY TypedIsTypeOK DEF Inv
<1> USE <1>0 DEF Typed, CopiesTyped, Pcs, Serving, Goes, Asked
<1>1. ASSUME NEW p \in Procs, Acquire(p) PROVE Asked
  BY <1>1 DEF Acquire
<1>2. ASSUME NEW p \in Procs, ClearStale(p) PROVE Asked
  BY <1>2 DEF ClearStale
<1>3. ASSUME NEW p \in Procs, TryLock(p) PROVE Asked
  BY <1>3 DEF TryLock
<1>4. ASSUME NEW p \in Procs, LookForAnswer(p) PROVE Asked
  BY <1>4 DEF LookForAnswer
<1>5. ASSUME NEW p \in Procs, GiveUp(p) PROVE Asked
  BY <1>5 DEF GiveUp, Gone
<1>6. ASSUME NEW p \in Procs, TookOver(p) PROVE Asked
  BY <1>6 DEF TookOver
<1>7. ASSUME NEW p \in Procs, Load(p) PROVE Asked
  BY <1>7 DEF Load
<1>8. ASSUME NEW p \in Procs, Stage(p) PROVE Asked
  BY <1>8 DEF Stage
<1>9. ASSUME NEW p \in Procs, StartServers(p) PROVE Asked
  BY <1>9 DEF StartServers
<1>10. ASSUME NEW p \in Procs, CycleEnds(p) PROVE Asked
  BY <1>10 DEF CycleEnds
<1>11. ASSUME NEW p \in Procs, Decide(p) PROVE Asked
  BY <1>11 DEF Decide, OrderInv, Taking
<1>12. ASSUME NEW p \in Procs, Reset(p) PROVE Asked
  BY <1>12 DEF Reset
<1>13. ASSUME NEW p \in Procs, Reread(p) PROVE Asked
  BY <1>13 DEF Reread
<1>14. ASSUME NEW p \in Procs, Exit(p) PROVE Asked
  BY <1>14 DEF Exit, Gone
<1>15. ASSUME NEW p \in Procs, SignalSeen(p) PROVE Asked
  BY <1>15 DEF SignalSeen
<1>16. ASSUME NEW p \in Procs, ArmReload(p) PROVE Asked
  BY <1>16 DEF ArmReload
<1>17. ASSUME NEW p \in Procs, SignalAgain(p) PROVE Asked
  BY <1>17 DEF SignalAgain
<1>18. ASSUME NEW p \in Procs, HandoverSeen(p) PROVE Asked
  BY <1>18 DEF HandoverSeen
<1>19. ASSUME NEW p \in Procs, HandoverTaken(p) PROVE Asked
  BY <1>19 DEF HandoverTaken
<1>20. ASSUME NEW p \in Procs, HandoverStop(p) PROVE Asked
  BY <1>20 DEF HandoverStop
<1>21. ASSUME NEW p \in Procs, HandoverDown(p) PROVE Asked
  BY <1>21 DEF HandoverDown
<1>22. ASSUME NEW p \in Procs, SigTermRest(p) PROVE Asked
  BY <1>22 DEF SigTermRest
<1>23. ASSUME NEW p \in Procs, Launch(p) PROVE Asked
  BY <1>23 DEF Launch
<1>24. ASSUME NEW p \in Procs, LeaveAlone(p) PROVE Asked
  BY <1>24 DEF LeaveAlone, Gone
<1>25. ASSUME NEW p \in Procs, TakeOver(p) PROVE Asked
  BY <1>25 DEF TakeOver
<1>26. ASSUME NEW p \in Procs, NoTransferDir(p) PROVE Asked
  BY <1>26 DEF NoTransferDir
<1>27. ASSUME NEW p \in Procs, Edit(p) PROVE Asked
  BY <1>27 DEF Edit
<1>28. ASSUME NEW p \in Procs, DropEdits(p) PROVE Asked
  BY <1>28 DEF DropEdits
<1>29. ASSUME NEW p \in Procs, Restart(p) PROVE Asked
  BY <1>29 DEF Restart
<1>30. ASSUME NEW p \in Procs, Quit(p) PROVE Asked
  BY <1>30 DEF Quit
<1>31. ASSUME NEW p \in Procs, SigTerm(p) PROVE Asked
  BY <1>31 DEF SigTerm
<1>32. ASSUME NEW p \in Procs, SigHup(p) PROVE Asked
  BY <1>32 DEF SigHup
<1>33. ASSUME NEW p \in Procs, Publish(p) \/ StageFails(p) PROVE Asked
  BY <1>33 DEF Publish, StageFails, Written
<1>34. ASSUME NEW p \in Procs, Save(p) \/ SaveUnread(p) \/ WindowSave(p) PROVE Asked
  BY <1>34 DEF Save, SaveUnread, WindowSave, Saves
<1>35. ASSUME NEW p \in Procs, LoadFails(p) \/ Crash(p) PROVE Asked
  BY <1>35 DEF LoadFails, Crash, FilesTyped
<1>36. CASE PowerLoss
  BY <1>36 DEF PowerLoss, FilesTyped
<1>37. CASE RequestAges
  BY <1>37 DEF RequestAges, procs
<1> QED
  BY <1>1, <1>2, <1>3, <1>4, <1>5, <1>6, <1>7, <1>8, <1>9, <1>10, <1>11, <1>12, <1>13, <1>14,
     <1>15, <1>16, <1>17, <1>18, <1>19, <1>20, <1>21, <1>22, <1>23, <1>24, <1>25, <1>26,
     <1>27, <1>28, <1>29, <1>30, <1>31, <1>32, <1>33, <1>34, <1>35, <1>36, <1>37
     DEF Next, Main, SignalWatcher, HandoverWatcher

\* A copy stops serving only after a stop, a Quit or a fault, whatever reloads,
\* restarts and handovers its flags met (register_signal_handlers,
\* should_run_another_cycle).
THEOREM EndsWhenAskedHolds == Spec => EndsWhenAsked
<1>1. Inv /\ [Next]_vars =>
        [\A p \in Procs : pc[p] \in Serving /\ pc'[p] \notin Serving =>
            stop[p] \/ quit[p] \/ faults' # faults]_vars
  BY StepAsked DEF Asked
<1> QED
  BY <1>1, Invariance, PTL DEF Spec, EndsWhenAsked

\* Only a write that may undo a save, or a power loss, takes a save out of the file.
LEMMA StepNewest ==
  ASSUME Inv, Next, faults' = faults, ~(\E p \in Procs : MayUndo(p))
  PROVE  file.v \subseteq file'.v
<1>0. Typed /\ LockInv /\ DiskInv
  BY TypedIsTypeOK DEF Inv
<1>1. CASE file' = file
  BY <1>1
<1>2. ASSUME NEW p \in Procs, Publish(p) PROVE file.v \subseteq file'.v
  <2>1. pc[p] = "publish" /\ file'.v = out[p].v
    BY <1>2 DEF Publish, Files
  <2>2. file.v \subseteq out[p].v
    BY <1>0, <2>1 DEF DiskInv, OutHolds, MayUndo, Typed, ConfigTyped, Outs
  <2> QED
    BY <2>1, <2>2
<1>3. CASE PowerLoss
  BY <1>0, <1>3, LifecycleAssumption DEF PowerLoss, Typed, FilesTyped
<1>4. PowerLoss \/ file' = file \/ \E p \in Procs : Publish(p)
  <2> USE DEF procs
  <2>1. ASSUME NEW p \in Procs, Main(p) PROVE file' = file \/ Publish(p)
    BY <2>1 DEF Main, Acquire, ClearStale, TryLock, LookForAnswer, GiveUp, TookOver, Load,
       Stage, StartServers, CycleEnds, Decide, Reset, Reread, Exit
  <2>2. ASSUME NEW p \in Procs, SignalWatcher(p) \/ HandoverWatcher(p) \/ SigTermRest(p)
        PROVE  file' = file
    BY <2>2 DEF SignalWatcher, HandoverWatcher, SignalSeen, ArmReload, SignalAgain,
       HandoverSeen, HandoverTaken, HandoverStop, HandoverDown, SigTermRest
  <2>3. ASSUME NEW p \in Procs,
               \/ Launch(p) \/ LeaveAlone(p) \/ TakeOver(p) \/ LoadFails(p) \/ NoTransferDir(p)
               \/ Save(p) \/ SaveUnread(p) \/ WindowSave(p) \/ Edit(p) \/ DropEdits(p)
        PROVE  file' = file
    BY <2>3 DEF Launch, LeaveAlone, TakeOver, LoadFails, NoTransferDir, Save, SaveUnread,
       WindowSave, Saves, Edit, DropEdits
  <2>4. ASSUME NEW p \in Procs,
               \/ StageFails(p) \/ Restart(p) \/ Quit(p) \/ SigTerm(p) \/ SigHup(p) \/ Crash(p)
        PROVE  file' = file
    BY <2>4 DEF StageFails, Restart, Quit, SigTerm, SigHup, Crash
  <2>5. RequestAges => file' = file
    BY DEF RequestAges
  <2> QED
    BY <2>1, <2>2, <2>3, <2>4, <2>5 DEF Next
<1> QED
  BY <1>1, <1>2, <1>3, <1>4

\* No save is undone by a reload, a takeover, or a save that reads the file or
\* writes a CONFIG not behind it, for any number of copies, saves and faults
\* (load_config_read_only, load_or_create_config, update_config_values, save_config).
THEOREM NewestConfigHolds == Spec => NewestConfig
<1>1. Inv /\ [Next]_vars =>
        [faults' = faults /\ ~(\E p \in Procs : MayUndo(p)) => file.v \subseteq file'.v]_vars
  BY StepNewest
<1> QED
  BY <1>1, Invariance, PTL DEF Spec, NewestConfig
=====
