--------------------------- MODULE EkaSyncProofs ----------------------------
(***************************************************************************)
(* Proofs about EkaSync for every set of trees, runs, packages and forms.  *)
(*                                                                         *)
(* Every step of a run, an author or git is a step of EkaStore or leaves   *)
(* the store alone, so the results of EkaStoreProofs hold under the sync   *)
(* engine.  The skip of an unchanged pull is then sound because a digest   *)
(* is recorded when the last of its units is in the store, and no step     *)
(* takes a payload out of it.                                              *)
(***************************************************************************)
EXTENDS EkaSync, EkaStoreProofs

\* The three directories of a tree.
Entry == [snap : {NoDir} \cup Dir, tmp : {NoDir} \cup Dir, old : {NoDir} \cup Dir]

\* The types of the variables the sync engine adds to the store.
EngineTypeOK ==
  /\ lastPull \in [Tree -> {NoDigest} \cup Package]
  /\ disk \in [Tree -> [snap : {NoDir} \cup Dir, tmp : {NoDir} \cup Dir,
                         old  : {NoDir} \cup Dir]]
  /\ run \in [Run -> RunState]
  /\ meant \subseteq Package

----------------------------------------------------------------------------
(* Steps of the engine are steps of the store *)

\* A unit in hand is put under the provenance of a registered repository.
LEMMA PutOfType ==
  ASSUME NEW s \in Run, NEW h \in Payload
  PROVE  PutOf(s, h) \in Put
BY SyncAssumption DEF PutOf, Put

\* Only the transactions of EkaStore write the store's variables.
LEMMA ProgressIsStoreStep ==
  ASSUME TypeOK, NEW s \in Run, run \in [Run -> RunState], Progress(s)
  PROVE  [Next]_vars
<1>1. CASE AdoptCommit(s)
  <2> DEFINE t == WorksIn[s]
  <2>1. TreeProject[t] \in Project /\ TreeRepo[t] \in Repo \ {Runtime}
    BY SyncAssumption
  <2>2. run[s].forms \in SUBSET Form
    BY DEF RunState
  <2>3. CASE run[s].forms # {}
    <3>1. Adopt(TreeProject[t], TreeRepo[t], run[s].forms)
      BY <1>1, <2>1, <2>3 DEF AdoptCommit, Adopt
    <3> QED  BY <2>1, <2>2, <3>1 DEF Next
  <2>4. CASE run[s].forms = {}
    <3>1. refs' = [f \in Form |-> refs[f]] /\ payloads' = payloads
      BY <1>1, <2>4 DEF AdoptCommit, Commit, Reattribute, Committed
    <3>2. refs' = refs
      BY <3>1 DEF TypeOK, Database, Committed
    <3> QED  BY <1>1, <3>1, <3>2 DEF AdoptCommit, vars
  <2> QED  BY <2>3, <2>4
<1>2. CASE SeedPut(s)
  <2>1. PICK h \in run[s].hand : PutUnit(PutOf(s, h))
    BY <1>2 DEF SeedPut
  <2>2. h \in Payload
    BY <2>1 DEF RunState, Package
  <2> QED  BY <2>1, <2>2, PutOfType DEF Next
<1>3. CASE ~AdoptCommit(s) /\ ~SeedPut(s)
  <2>1. UNCHANGED vars
    BY <1>3 DEF Progress, AdoptRead, AdoptVanished, PullSnapshot, PullCheck, PullDocs,
                SeedLook, SeedRefused, PullRecord, PushRead, ClearStaging, StageFile,
                ClearOld, MoveAside, MoveIn, MoveInFails, DropOld, storeVars
  <2> QED  BY <2>1
<1> QED  BY <1>1, <1>2, <1>3

LEMMA EngineStepIsStoreStep ==
  TypeOK /\ run \in [Run -> RunState] /\ [SyncNext]_syncVars => [Next]_vars
<1> SUFFICES ASSUME TypeOK, run \in [Run -> RunState], [SyncNext]_syncVars
             PROVE  [Next]_vars
  OBVIOUS
<1>1. ASSUME NEW s \in Run, NEW md \in Modes, Begin(s, md)  PROVE [Next]_vars
  BY <1>1 DEF Begin, storeVars
<1>2. ASSUME NEW s \in Run, Progress(s)  PROVE [Next]_vars
  BY <1>2, ProgressIsStoreStep
<1>3. ASSUME NEW s \in Run, Crash(s)  PROVE [Next]_vars
  BY <1>3 DEF Crash, storeVars
<1>4. ASSUME NEW p \in Put, Author(p)  PROVE [Next]_vars
  BY <1>4 DEF Author, Next
<1>5. ASSUME NEW p \in Put, Repoint(p)  PROVE [Next]_vars
  BY <1>5 DEF Repoint, Next
<1>6. ASSUME NEW t \in Tree, NEW pkg \in Remote, Checkout(t, pkg)  PROVE [Next]_vars
  BY <1>6 DEF Checkout, storeVars
<1>7. CASE UNCHANGED syncVars
  BY <1>7 DEF syncVars
<1> QED  BY <1>1, <1>2, <1>3, <1>4, <1>5, <1>6, <1>7 DEF SyncNext

----------------------------------------------------------------------------
(* Types *)

LEMMA PhaseType ==
  ASSUME NEW md \in Mode
  PROVE  AfterPull(md) \in Pc /\ AfterAdopt(md) \in Pc /\ FirstStep(md) \in Pc
BY DEF AfterPull, AfterAdopt, FirstStep, Pc, PullStep, PushStep

LEMMA IdleType ==
  Idle \in RunState
BY DEF Idle, NoMode, RunState, Mode, Package, Dir, Pc

LEMMA EnterType ==
  ASSUME run \in [Run -> RunState], NEW s \in Run, NEW phase \in Pc, Enter(s, phase)
  PROVE  run' \in [Run -> RunState]
<1>1. run[s].mode \in Mode
  BY DEF RunState
<1>2. [Idle EXCEPT !.pc = phase, !.mode = run[s].mode] \in RunState
  BY <1>1, IdleType DEF RunState
<1> QED  BY <1>2, IdleType DEF Enter

LEMMA GotoType ==
  ASSUME run \in [Run -> RunState], NEW s \in Run, NEW pc \in Pc, Goto(s, pc)
  PROVE  run' \in [Run -> RunState]
BY DEF Goto, RunState

\* One operation on the directories of a tree keeps directories of its type.
LEMMA SetDiskType ==
  ASSUME EngineTypeOK, NEW s \in Run, NEW field \in {"snap", "tmp", "old"},
         NEW value \in {NoDir} \cup Dir, SetDisk(s, field, value)
  PROVE  disk' \in [Tree -> [snap : {NoDir} \cup Dir, tmp : {NoDir} \cup Dir,
                             old  : {NoDir} \cup Dir]]
<1>1. WorksIn[s] \in Tree
  BY SyncAssumption
<1> QED  BY <1>1 DEF EngineTypeOK, SetDisk

\* The units of a repository are payloads.
LEMMA UnitsType ==
  ASSUME TypeOK, RefsResolve(Committed), NEW t
  PROVE  UnitsOf(t) \in Package
BY DEF UnitsOf, Package, RefsResolve, Referenced, Archived, Committed, TypeOK

LEMMA PullTyped ==
  ASSUME EngineTypeOK, NEW s \in Run,
         \/ AdoptRead(s) \/ AdoptCommit(s) \/ AdoptVanished(s)
         \/ PullSnapshot(s) \/ PullCheck(s) \/ PullDocs(s)
         \/ SeedLook(s) \/ SeedPut(s) \/ SeedRefused(s) \/ PullRecord(s)
  PROVE  EngineTypeOK'
<1>0. /\ run \in [Run -> RunState] /\ run[s] \in RunState /\ run[s].mode \in Mode
      /\ run[s].pkg \in Package /\ WorksIn[s] \in Tree
  BY SyncAssumption DEF EngineTypeOK, RunState
<1>p. /\ "idle" \in Pc /\ "check" \in Pc /\ "seed" \in Pc /\ "put" \in Pc
      /\ "reattribute" \in Pc
      /\ AfterPull(run[s].mode) \in Pc /\ AfterAdopt(run[s].mode) \in Pc
  BY <1>0, PhaseType DEF Pc, PullStep
<1>1. CASE AdoptRead(s)
  <2>1. NativeForms(TreeProject[WorksIn[s]]) \subseteq Form
    BY DEF NativeForms, Referenced
  <2>2. run' \in [Run -> RunState]
    BY <1>0, <1>p, <1>1, <2>1, EnterType DEF AdoptRead, RunState
  <2> QED  BY <1>1, <2>2 DEF AdoptRead, EngineTypeOK
<1>2. CASE AdoptCommit(s)
  BY <1>0, <1>p, <1>2, EnterType DEF AdoptCommit, EngineTypeOK
<1>3. CASE AdoptVanished(s)
  BY <1>0, <1>p, <1>3, EnterType DEF AdoptVanished, EngineTypeOK
<1>4. CASE PullSnapshot(s)
  <2>1. Snapshot(WorksIn[s]) # NoDir => Snapshot(WorksIn[s]) \ {Header} \in Package
    BY <1>0 DEF EngineTypeOK, Snapshot, Dir, Package
  <2>2. run' \in [Run -> RunState]
    BY <1>0, <1>p, <1>4, <2>1, EnterType DEF PullSnapshot, FromSnapshot, RunState
  <2> QED  BY <1>4, <2>2 DEF PullSnapshot, EngineTypeOK
<1>5. CASE PullCheck(s)
  <2>2. run' \in [Run -> RunState]
    BY <1>0, <1>p, <1>5, EnterType DEF PullCheck, RunState
  <2> QED  BY <1>5, <2>2 DEF PullCheck, EngineTypeOK
<1>6. CASE PullDocs(s)
  <2>1. Docs[WorksIn[s]] # NoPackage => Docs[WorksIn[s]] \in Package
    BY <1>0, SyncAssumption
  <2>2. run' \in [Run -> RunState]
    BY <1>0, <1>p, <1>6, <2>1, EnterType DEF PullDocs, RunState
  <2> QED  BY <1>6, <2>2 DEF PullDocs, EngineTypeOK
<1>7. CASE SeedLook(s)
  <2>1. PICK h \in run[s].todo :
          run' = [run EXCEPT ![s].pc = "put", ![s].todo = run[s].todo \ {h},
                    ![s].hand = {h},
                    ![s].clash = IF Overwrites(s, h) THEN @ \cup {h} ELSE @]
    BY <1>7 DEF SeedLook
  <2> DEFINE clash == IF Overwrites(s, h) THEN run[s].clash \cup {h} ELSE run[s].clash
  <2>2. clash \in Package /\ {h} \in Package /\ run[s].todo \ {h} \in Package
    BY <1>0, <2>1 DEF RunState, Package
  <2>3. run' = [run EXCEPT ![s].pc = "put", ![s].todo = run[s].todo \ {h},
                          ![s].hand = {h}, ![s].clash = clash]
    BY <2>1
  <2>4. run' \in [Run -> RunState]
    <3> HIDE DEF clash
    <3> QED  BY <1>0, <1>p, <2>2, <2>3 DEF RunState
  <2> QED  BY <1>7, <2>4 DEF SeedLook, EngineTypeOK
<1>8. CASE SeedPut(s)
  <2>1. PICK h \in run[s].hand :
          run' = [run EXCEPT ![s].pc = "seed", ![s].hand = {},
                    ![s].kept = IF KeptNewer(Committed, PutOf(s, h), FALSE)
                                  THEN @ \cup {h} ELSE @]
    BY <1>8 DEF SeedPut
  <2> DEFINE kept == IF KeptNewer(Committed, PutOf(s, h), FALSE)
                       THEN run[s].kept \cup {h} ELSE run[s].kept
  <2>2. kept \in Package /\ {} \in Package
    BY <1>0, <2>1 DEF RunState, Package
  <2>3. run' = [run EXCEPT ![s].pc = "seed", ![s].hand = {}, ![s].kept = kept]
    BY <2>1
  <2>4. run' \in [Run -> RunState]
    <3> HIDE DEF kept
    <3> QED  BY <1>0, <1>p, <2>2, <2>3 DEF RunState
  <2> QED  BY <1>8, <2>4 DEF SeedPut, EngineTypeOK
<1>9. CASE SeedRefused(s)
  BY <1>0, <1>p, <1>9, EnterType DEF SeedRefused, EngineTypeOK
<1>10. CASE PullRecord(s)
  BY <1>0, <1>p, <1>10, EnterType DEF PullRecord, EngineTypeOK
<1> QED  BY <1>1, <1>2, <1>3, <1>4, <1>5, <1>6, <1>7, <1>8, <1>9, <1>10

LEMMA PushTyped ==
  ASSUME IInv, EngineTypeOK, NEW s \in Run,
         \/ PushRead(s) \/ ClearStaging(s) \/ StageFile(s) \/ ClearOld(s)
         \/ MoveAside(s) \/ MoveIn(s) \/ MoveInFails(s) \/ DropOld(s)
  PROVE  EngineTypeOK'
<1>0. /\ run \in [Run -> RunState] /\ run[s] \in RunState
      /\ WorksIn[s] \in Tree /\ run[s].files \in Dir
      /\ disk[WorksIn[s]] \in [snap : {NoDir} \cup Dir, tmp : {NoDir} \cup Dir,
                              old  : {NoDir} \cup Dir]
  BY SyncAssumption DEF EngineTypeOK, RunState
<1>p. \A pc \in {"idle", "clear", "stage", "aside", "in", "drop"} : pc \in Pc
  BY DEF Pc, PushStep
<1>e. disk \in [Tree -> Entry]
  BY DEF EngineTypeOK, Entry
<1>1. CASE PushRead(s)
  <2> DEFINE units == UnitsOf(WorksIn[s])
  <2>1. units \in Package /\ SnapshotOf(units) \in Dir
    BY UnitsType DEF IInv, Sound, SnapshotOf, Package, Dir
  <2>2. run' \in [Run -> RunState] /\ meant' \subseteq Package
    <3>1. CASE units = {}
      BY <1>0, <1>p, <1>1, <3>1, EnterType DEF PushRead, EngineTypeOK
    <3>2. CASE units # {}
      <4> HIDE DEF units
      <4>1. /\ run' = [run EXCEPT ![s].pc = "clear", ![s].pkg = units,
                                  ![s].files = SnapshotOf(units)]
            /\ meant' = meant \cup {units}
        BY <1>1, <3>2 DEF PushRead, units
      <4> QED  BY <1>0, <1>p, <2>1, <4>1 DEF EngineTypeOK, RunState
    <3> QED  BY <3>1, <3>2
  <2> QED  BY <1>1, <2>2 DEF PushRead, EngineTypeOK
<1>2. CASE ClearStaging(s)
  BY <1>0, <1>p, <1>2, GotoType, SetDiskType DEF ClearStaging, EngineTypeOK
<1>3. CASE StageFile(s)
  <2> DEFINE tmp == disk[WorksIn[s]].tmp
             dir == IF tmp = NoDir THEN {} ELSE tmp
  <2>1. PICK f \in run[s].files :
          /\ SetDisk(s, "tmp", dir \cup {f})
          /\ run' = [run EXCEPT ![s].files = @ \ {f}]
    BY <1>3 DEF StageFile
  <2>2. dir \cup {f} \in {NoDir} \cup Dir /\ run[s].files \ {f} \in Dir
    BY <1>0 DEF Dir
  <2>3. run' \in [Run -> RunState]
    BY <1>0, <2>1, <2>2 DEF RunState
  <2>4. disk' \in [Tree -> [snap : {NoDir} \cup Dir, tmp : {NoDir} \cup Dir,
                            old  : {NoDir} \cup Dir]]
    BY <2>1, <2>2, SetDiskType
  <2> QED  BY <1>3, <2>3, <2>4 DEF StageFile, EngineTypeOK
<1>4. CASE ClearOld(s)
  BY <1>0, <1>p, <1>4, GotoType, SetDiskType DEF ClearOld, EngineTypeOK
<1>5. CASE MoveAside(s)
  <2> DEFINE d == disk[WorksIn[s]]
             e == [d EXCEPT !.old = d.snap, !.snap = NoDir]
  <2>1. run' \in [Run -> RunState]
    BY <1>0, <1>p, <1>5, GotoType, EnterType DEF MoveAside
  <2>2. disk' = disk \/ disk' = [disk EXCEPT ![WorksIn[s]] = e]
    BY <1>5 DEF MoveAside
  <2>3. e \in Entry
    BY <1>0 DEF Entry
  <2> HIDE DEF e
  <2>4. disk' \in [Tree -> Entry]
    BY <1>e, <2>2, <2>3
  <2> QED  BY <1>5, <2>1, <2>4 DEF MoveAside, EngineTypeOK, Entry
<1>6. CASE MoveIn(s)
  <2> DEFINE d == disk[WorksIn[s]]
             e == [d EXCEPT !.snap = d.tmp, !.tmp = NoDir]
  <2>1. run' \in [Run -> RunState]
    BY <1>0, <1>p, <1>6, GotoType DEF MoveIn
  <2>2. disk' = [disk EXCEPT ![WorksIn[s]] = e]
    BY <1>6 DEF MoveIn
  <2>3. e \in Entry
    BY <1>0 DEF Entry
  <2> HIDE DEF e
  <2>4. disk' \in [Tree -> Entry]
    BY <1>e, <2>2, <2>3
  <2> QED  BY <1>6, <2>1, <2>4 DEF MoveIn, EngineTypeOK, Entry
<1>7. CASE MoveInFails(s)
  <2> DEFINE d == disk[WorksIn[s]]
             e == [d EXCEPT !.snap = d.old, !.old = NoDir]
  <2>1. run' \in [Run -> RunState]
    BY <1>0, <1>p, <1>7, EnterType DEF MoveInFails
  <2>2. disk' = disk \/ disk' = [disk EXCEPT ![WorksIn[s]] = e]
    BY <1>7 DEF MoveInFails
  <2>3. e \in Entry
    BY <1>0 DEF Entry
  <2> HIDE DEF e
  <2>4. disk' \in [Tree -> Entry]
    BY <1>e, <2>2, <2>3
  <2> QED  BY <1>7, <2>1, <2>4 DEF MoveInFails, EngineTypeOK, Entry
<1>8. CASE DropOld(s)
  BY <1>0, <1>p, <1>8, EnterType, SetDiskType DEF DropOld, EngineTypeOK
<1> QED  BY <1>1, <1>2, <1>3, <1>4, <1>5, <1>6, <1>7, <1>8

LEMMA EngineTyped ==
  IInv /\ EngineTypeOK /\ [SyncNext]_syncVars => EngineTypeOK'
<1> SUFFICES ASSUME IInv, EngineTypeOK, [SyncNext]_syncVars  PROVE EngineTypeOK'
  OBVIOUS
<1>0. run \in [Run -> RunState]
  BY DEF EngineTypeOK
<1>1. ASSUME NEW s \in Run, NEW md \in Modes, Begin(s, md)  PROVE EngineTypeOK'
  <2>1. md \in Mode /\ FirstStep(md) \in Pc
    BY SyncAssumption, PhaseType
  <2>2. [Idle EXCEPT !.pc = FirstStep(md), !.mode = md] \in RunState
    BY <2>1, IdleType DEF RunState
  <2> QED  BY <1>0, <1>1, <2>2 DEF Begin, EngineTypeOK
<1>2. ASSUME NEW s \in Run, Progress(s)  PROVE EngineTypeOK'
  BY <1>2, PullTyped, PushTyped DEF Progress
<1>3. ASSUME NEW s \in Run, Crash(s)  PROVE EngineTypeOK'
  BY <1>0, <1>3, EnterType DEF Crash, EngineTypeOK, Pc
<1>4. ASSUME NEW p \in Put, Author(p)  PROVE EngineTypeOK'
  BY <1>4 DEF Author, EngineTypeOK
<1>5. ASSUME NEW p \in Put, Repoint(p)  PROVE EngineTypeOK'
  BY <1>5 DEF Repoint, EngineTypeOK
<1>6. ASSUME NEW t \in Tree, NEW pkg \in Remote, Checkout(t, pkg)  PROVE EngineTypeOK'
  <2>1. SnapshotOf(pkg) \in Dir
    BY SyncAssumption DEF SnapshotOf, Package, Dir
  <2> QED  BY <1>6, <2>1 DEF Checkout, EngineTypeOK
<1>7. CASE UNCHANGED syncVars
  BY <1>7 DEF syncVars, EngineTypeOK
<1> QED  BY <1>1, <1>2, <1>3, <1>4, <1>5, <1>6, <1>7 DEF SyncNext

----------------------------------------------------------------------------
(* The skip of an unchanged pull *)

\* What a recorded digest, and a pull under way, have put into the store.
Seeded ==
  /\ \A t \in Tree : lastPull[t] # NoDigest => lastPull[t] \subseteq Archived(Committed)
  /\ \A s \in Run :
       /\ At(s, "seed") => run[s].pkg \subseteq run[s].todo \cup Archived(Committed)
       /\ At(s, "put")  => /\ run[s].pkg \subseteq
                                run[s].todo \cup run[s].hand \cup Archived(Committed)
                           /\ \E h : run[s].hand = {h}

SyncInv == IInv /\ BatchExtends /\ EngineTypeOK /\ Seeded

\* No phase of a run starts in the middle of a pull.
LEMMA PhaseStarts ==
  ASSUME NEW md \in Mode
  PROVE  /\ AfterPull(md) \notin {"seed", "put"}
         /\ AfterAdopt(md) \notin {"seed", "put"}
         /\ FirstStep(md) \notin {"seed", "put"}
BY DEF AfterPull, AfterAdopt, FirstStep

\* A step that leaves the runs in the middle of a pull and the log alone
\* keeps what they have seeded: nothing leaves the archive.
LEMMA SeededFrame ==
  ASSUME Seeded, Archived(Committed) \subseteq Archived(Committed)',
         lastPull' = lastPull,
         \A s \in Run : run'[s] = run[s] \/ run'[s].pc \notin {"seed", "put"}
  PROVE  Seeded'
<1>1. ASSUME NEW t \in Tree, lastPull'[t] # NoDigest
      PROVE  lastPull'[t] \subseteq Archived(Committed)'
  BY <1>1 DEF Seeded
<1>2. ASSUME NEW s \in Run
      PROVE  /\ At(s, "seed")' => run'[s].pkg \subseteq run'[s].todo \cup Archived(Committed)'
             /\ At(s, "put")'  => /\ run'[s].pkg \subseteq
                                       run'[s].todo \cup run'[s].hand \cup Archived(Committed)'
                                  /\ \E h : run'[s].hand = {h}
  <2>1. CASE run'[s] = run[s]
    BY <2>1 DEF Seeded, At
  <2>2. CASE run'[s].pc \notin {"seed", "put"}
    BY <2>2 DEF At
  <2> QED  BY <2>1, <2>2
<1> QED  BY <1>1, <1>2 DEF Seeded

\* A run that goes to another phase, or to another step outside the pull.
LEMMA EnterFrame ==
  ASSUME run \in [Run -> RunState], NEW s \in Run, NEW phase \in Pc \ {"seed", "put"},
         \/ Enter(s, phase)
         \/ Goto(s, phase)
  PROVE  \A r \in Run : run'[r] = run[r] \/ run'[r].pc \notin {"seed", "put"}
<1>1. ASSUME NEW r \in Run, r # s  PROVE run'[r] = run[r]
  BY <1>1 DEF Enter, Goto
<1>2. run'[s].pc = phase
  <2>1. CASE Goto(s, phase)
    BY <2>1 DEF Goto, RunState
  <2>2. CASE Enter(s, phase)
    BY <2>2 DEF Enter, Idle
  <2> QED  BY <2>1, <2>2
<1> QED  BY <1>1, <1>2

LEMMA PullSeeds ==
  ASSUME SyncInv, NEW s \in Run, Archived(Committed) \subseteq Archived(Committed)',
         PullCheck(s) \/ PullDocs(s) \/ SeedLook(s) \/ SeedPut(s) \/ PullRecord(s)
  PROVE  Seeded'
<1>0. /\ run \in [Run -> RunState] /\ run[s] \in RunState /\ run[s].mode \in Mode
      /\ WorksIn[s] \in Tree /\ run[s].hand \in Package /\ run[s].pkg \in Package
  BY SyncAssumption DEF SyncInv, EngineTypeOK, RunState
<1>p. /\ "idle" \in Pc \ {"seed", "put"}
      /\ AfterPull(run[s].mode) \in Pc \ {"seed", "put"}
  BY <1>0, PhaseType, PhaseStarts DEF Pc
<1>s. Seeded
  BY DEF SyncInv
\* The other runs, and the log unless this run writes it.
<1>o. ASSUME NEW state, run' = [run EXCEPT ![s] = state], lastPull' = lastPull,
             state.pc = "seed" =>
               state.pkg \subseteq state.todo \cup Archived(Committed)',
             state.pc = "put" =>
               /\ state.pkg \subseteq state.todo \cup state.hand \cup Archived(Committed)'
               /\ \E h : state.hand = {h}
      PROVE  Seeded'
  <2>1. ASSUME NEW r \in Run
        PROVE  /\ At(r, "seed")' => run'[r].pkg \subseteq run'[r].todo \cup Archived(Committed)'
               /\ At(r, "put")'  => /\ run'[r].pkg \subseteq
                                         run'[r].todo \cup run'[r].hand \cup Archived(Committed)'
                                    /\ \E h : run'[r].hand = {h}
    <3>1. CASE r = s
      BY <1>0, <1>o, <3>1 DEF At
    <3>2. CASE r # s
      <4>1. run'[r] = run[r]
        BY <1>0, <1>o, <3>2
      <4> QED  BY <1>s, <4>1 DEF Seeded, At
    <3> QED  BY <3>1, <3>2
  <2> QED  BY <1>o, <1>s, <2>1 DEF Seeded
<1>1. CASE PullCheck(s)
  <2>1. CASE lastPull[WorksIn[s]] = run[s].pkg
    BY <1>0, <1>p, <1>s, <1>1, <2>1, EnterFrame, SeededFrame DEF PullCheck
  <2>2. CASE lastPull[WorksIn[s]] # run[s].pkg
    <3>1. run' = [run EXCEPT ![s] = [run[s] EXCEPT !.pc = "seed", !.todo = run[s].pkg]]
      BY <1>1, <2>2 DEF PullCheck
    <3> QED  BY <1>0, <1>o, <1>1, <3>1 DEF PullCheck, RunState
  <2> QED  BY <2>1, <2>2
<1>2. CASE PullDocs(s)
  <2> DEFINE pkg == Docs[WorksIn[s]]
  <2>1. CASE pkg = NoPackage
    BY <1>0, <1>p, <1>s, <1>2, <2>1, EnterFrame, SeededFrame DEF PullDocs
  <2>2. CASE pkg # NoPackage
    <3>1. run' = [run EXCEPT ![s] =
                    [run[s] EXCEPT !.pc = "seed", !.pkg = pkg, !.todo = pkg]]
      BY <1>2, <2>2 DEF PullDocs
    <3> QED  BY <1>0, <1>o, <1>2, <3>1 DEF PullDocs, RunState
  <2> QED  BY <2>1, <2>2
<1>3. CASE SeedLook(s)
  <2>1. PICK h \in run[s].todo :
          run' = [run EXCEPT ![s].pc = "put", ![s].todo = run[s].todo \ {h},
                    ![s].hand = {h},
                    ![s].clash = IF Overwrites(s, h) THEN @ \cup {h} ELSE @]
    BY <1>3 DEF SeedLook
  <2> DEFINE state == [run[s] EXCEPT !.pc = "put", !.todo = run[s].todo \ {h},
                         !.hand = {h},
                         !.clash = IF Overwrites(s, h) THEN @ \cup {h} ELSE @]
  <2>2. run' = [run EXCEPT ![s] = state]
    BY <2>1
  <2>3. /\ state.pc = "put" /\ state.hand = {h} /\ state.pkg = run[s].pkg
        /\ state.todo = run[s].todo \ {h}
    BY <1>0 DEF RunState
  <2>4. run[s].pkg \subseteq run[s].todo \cup Archived(Committed)'
    BY <1>3, <1>s DEF SeedLook, Seeded
  <2>5. state.pkg \subseteq state.todo \cup state.hand \cup Archived(Committed)'
    BY <2>3, <2>4
  <2> HIDE DEF state
  <2> QED  BY <1>o, <1>3, <2>2, <2>3, <2>5 DEF SeedLook
<1>4. CASE SeedPut(s)
  <2>1. PICK h \in run[s].hand :
          /\ PutUnit(PutOf(s, h))
          /\ run' = [run EXCEPT ![s].pc = "seed", ![s].hand = {},
                       ![s].kept = IF KeptNewer(Committed, PutOf(s, h), FALSE)
                                     THEN @ \cup {h} ELSE @]
    BY <1>4 DEF SeedPut
  <2> DEFINE state == [run[s] EXCEPT !.pc = "seed", !.hand = {},
                         !.kept = IF KeptNewer(Committed, PutOf(s, h), FALSE)
                                    THEN @ \cup {h} ELSE @]
  <2>2. run' = [run EXCEPT ![s] = state]
    BY <2>1
  <2>3. state.pc = "seed" /\ state.pkg = run[s].pkg /\ state.todo = run[s].todo
    BY <1>0 DEF RunState
  <2>4. h \in Archived(Committed)'
    <3>1. h \in Payload /\ PutOf(s, h).payload = h
      BY <1>0 DEF Package, PutOf
    <3>2. payloads' = Archive(Committed, h)
      BY <2>1, <3>1 DEF PutUnit, Commit, PutTx
    <3>3. Committed \in Database /\ RefsResolve(Committed)
      BY DEF SyncInv, IInv, TypeOK, Sound
    <3> QED  BY <3>1, <3>2, <3>3, ArchiveFacts DEF Archived, Committed
  <2>5. run[s].pkg \subseteq run[s].todo \cup run[s].hand \cup Archived(Committed)'
    BY <1>4, <1>s DEF SeedPut, Seeded
  <2>6. run[s].hand = {h}
    BY <1>4, <1>s DEF SeedPut, Seeded
  <2>7. state.pkg \subseteq state.todo \cup Archived(Committed)'
    BY <2>3, <2>4, <2>5, <2>6
  <2> HIDE DEF state
  <2> QED  BY <1>o, <1>4, <2>2, <2>3, <2>7 DEF SeedPut
<1>5. CASE PullRecord(s)
  <2>1. run[s].pkg \subseteq Archived(Committed)'
    BY <1>5, <1>s DEF PullRecord, Seeded
  <2>2. \A t \in Tree : lastPull'[t] # NoDigest => lastPull'[t] \subseteq Archived(Committed)'
    BY <1>0, <1>5, <1>s, <2>1 DEF PullRecord, Seeded, SyncInv, EngineTypeOK
  <2>3. \A r \in Run : run'[r] = run[r] \/ run'[r].pc \notin {"seed", "put"}
    BY <1>0, <1>p, <1>5, EnterFrame DEF PullRecord
  <2>4. ASSUME NEW r \in Run
        PROVE  /\ At(r, "seed")' => run'[r].pkg \subseteq run'[r].todo \cup Archived(Committed)'
               /\ At(r, "put")'  => /\ run'[r].pkg \subseteq
                                         run'[r].todo \cup run'[r].hand \cup Archived(Committed)'
                                    /\ \E h : run'[r].hand = {h}
    <3>1. CASE run'[r] = run[r]
      BY <1>s, <3>1 DEF Seeded, At
    <3>2. CASE run'[r].pc \notin {"seed", "put"}
      BY <3>2 DEF At
    <3> QED  BY <2>3, <3>1, <3>2
  <2> QED  BY <2>2, <2>4 DEF Seeded
<1> QED  BY <1>1, <1>2, <1>3, <1>4, <1>5

LEMMA ProgressSeeds ==
  ASSUME SyncInv, NEW s \in Run, Archived(Committed) \subseteq Archived(Committed)',
         Progress(s)
  PROVE  Seeded'
<1>0. /\ run \in [Run -> RunState] /\ run[s] \in RunState /\ run[s].mode \in Mode /\ Seeded
  BY DEF SyncInv, EngineTypeOK, RunState
<1>p. /\ \A pc \in {"idle", "check", "reattribute", "clear", "stage", "aside", "in", "drop"} :
           pc \in Pc \ {"seed", "put"}
      /\ AfterPull(run[s].mode) \in Pc \ {"seed", "put"}
      /\ AfterAdopt(run[s].mode) \in Pc \ {"seed", "put"}
  BY <1>0, PhaseType, PhaseStarts DEF Pc, PullStep, PushStep
\* A step of the run to a place outside the pull.
<1>o. ASSUME NEW state, run' = [run EXCEPT ![s] = state], lastPull' = lastPull,
             state.pc \notin {"seed", "put"}
      PROVE  Seeded'
  BY <1>0, <1>o, SeededFrame
<1>1. CASE AdoptRead(s)
  <2>1. CASE NativeForms(TreeProject[WorksIn[s]]) = {}
    BY <1>0, <1>p, <1>1, <2>1, EnterFrame, SeededFrame DEF AdoptRead
  <2>2. CASE NativeForms(TreeProject[WorksIn[s]]) # {}
    <3> DEFINE state == [run[s] EXCEPT !.pc = "reattribute",
                           !.forms = NativeForms(TreeProject[WorksIn[s]])]
    <3>1. run' = [run EXCEPT ![s] = state]
      BY <1>1, <2>2 DEF AdoptRead
    <3>2. state.pc = "reattribute"
      BY <1>0 DEF RunState
    <3> QED  BY <1>o, <1>1, <3>1, <3>2 DEF AdoptRead
  <2> QED  BY <2>1, <2>2
<1>2. CASE AdoptCommit(s) \/ AdoptVanished(s) \/ SeedRefused(s)
  BY <1>0, <1>p, <1>2, EnterFrame, SeededFrame DEF AdoptCommit, AdoptVanished, SeedRefused
<1>3. CASE PullSnapshot(s)
  <2> DEFINE files == Snapshot(WorksIn[s])
  <2>1. CASE Header \in files
    <3> DEFINE state == [run[s] EXCEPT !.pc = "check", !.pkg = files \ {Header}]
    <3>1. run' = [run EXCEPT ![s] = state]
      BY <1>3, <2>1 DEF PullSnapshot
    <3>2. state.pc = "check"
      BY <1>0 DEF RunState
    <3> QED  BY <1>o, <1>3, <3>1, <3>2 DEF PullSnapshot
  <2>2. CASE Header \notin files
    BY <1>0, <1>p, <1>3, <2>2, EnterFrame, SeededFrame DEF PullSnapshot
  <2> QED  BY <2>1, <2>2
<1>4. CASE PullCheck(s) \/ PullDocs(s) \/ SeedLook(s) \/ SeedPut(s) \/ PullRecord(s)
  BY <1>4, PullSeeds
<1>5. CASE PushRead(s)
  <2> DEFINE units == UnitsOf(WorksIn[s])
  <2>1. CASE units = {}
    BY <1>0, <1>p, <1>5, <2>1, EnterFrame, SeededFrame DEF PushRead
  <2>2. CASE units # {}
    <3> DEFINE state == [run[s] EXCEPT !.pc = "clear", !.pkg = units,
                           !.files = SnapshotOf(units)]
    <3>1. run' = [run EXCEPT ![s] = state]
      BY <1>5, <2>2 DEF PushRead
    <3>2. state.pc = "clear"
      BY <1>0 DEF RunState
    <3> QED  BY <1>o, <1>5, <3>1, <3>2 DEF PushRead
  <2> QED  BY <2>1, <2>2
<1>6. CASE StageFile(s)
  <2>1. PICK f : run' = [run EXCEPT ![s].files = @ \ {f}]
    BY <1>6 DEF StageFile
  <2> DEFINE state == [run[s] EXCEPT !.files = @ \ {f}]
  <2>2. run' = [run EXCEPT ![s] = state]
    BY <2>1
  <2>3. state.pc = "stage"
    BY <1>0, <1>6 DEF StageFile, At, RunState
  <2> QED  BY <1>o, <1>6, <2>2, <2>3 DEF StageFile
<1>7. CASE ClearStaging(s) \/ ClearOld(s) \/ MoveIn(s)
  BY <1>0, <1>p, <1>7, EnterFrame, SeededFrame DEF ClearStaging, ClearOld, MoveIn
<1>8. CASE MoveAside(s)
  BY <1>0, <1>p, <1>8, EnterFrame, SeededFrame DEF MoveAside
<1>9. CASE MoveInFails(s) \/ DropOld(s)
  BY <1>0, <1>p, <1>9, EnterFrame, SeededFrame DEF MoveInFails, DropOld
<1> QED  BY <1>1, <1>2, <1>3, <1>4, <1>5, <1>6, <1>7, <1>8, <1>9 DEF Progress

\* Every step keeps what was seeded in the archive, and records only that.
LEMMA SyncInvNext ==
  SyncInv /\ [SyncNext]_syncVars => SyncInv'
<1> SUFFICES ASSUME SyncInv, [SyncNext]_syncVars  PROVE SyncInv'
  OBVIOUS
<1>0. /\ run \in [Run -> RunState] /\ Seeded /\ IInv /\ BatchExtends /\ EngineTypeOK
  BY DEF SyncInv, EngineTypeOK
<1>1. [Next]_vars
  BY <1>0, EngineStepIsStoreStep DEF IInv
<1>2. IInv' /\ BatchExtends' /\ EngineTypeOK'
  BY <1>0, <1>1, NextSound, StepExtends, EngineTyped
<1>3. Archived(Committed) \subseteq Archived(Committed)'
  BY <1>0, <1>1, StepExtends DEF Extends, Archived
<1>4. ASSUME NEW s \in Run, NEW md \in Modes, Begin(s, md)  PROVE Seeded'
  <2> DEFINE state == [Idle EXCEPT !.pc = FirstStep(md), !.mode = md]
  <2>1. state.pc \notin {"seed", "put"}
    BY SyncAssumption, PhaseStarts DEF Idle
  <2>2. run' = [run EXCEPT ![s] = state] /\ lastPull' = lastPull
    BY <1>4 DEF Begin
  <2> HIDE DEF state
  <2>3. \A r \in Run : run'[r] = run[r] \/ run'[r].pc \notin {"seed", "put"}
    BY <1>0, <2>1, <2>2
  <2> QED  BY <1>0, <1>3, <2>2, <2>3, SeededFrame
<1>5. ASSUME NEW s \in Run, Progress(s)  PROVE Seeded'
  BY <1>3, <1>5, ProgressSeeds
<1>6. ASSUME NEW s \in Run, Crash(s)  PROVE Seeded'
  BY <1>0, <1>3, <1>6, EnterFrame, SeededFrame DEF Crash, Pc
<1>7. ASSUME NEW p \in Put, Author(p) \/ Repoint(p)  PROVE Seeded'
  BY <1>0, <1>3, <1>7, SeededFrame DEF Author, Repoint
<1>8. ASSUME NEW t \in Tree, NEW pkg \in Remote, Checkout(t, pkg)  PROVE Seeded'
  BY <1>0, <1>3, <1>8, SeededFrame DEF Checkout
<1>9. ASSUME UNCHANGED syncVars  PROVE Seeded'
  BY <1>0, <1>3, <1>9, SeededFrame DEF syncVars
<1>10. Seeded'
  BY <1>4, <1>5, <1>6, <1>7, <1>8, <1>9 DEF SyncNext
<1> QED  BY <1>2, <1>10 DEF SyncInv

LEMMA SyncInvInit ==
  SyncInit => SyncInv
<1> SUFFICES ASSUME SyncInit  PROVE SyncInv
  OBVIOUS
<1>1. IInv /\ BatchExtends
  BY InitSound DEF SyncInit, Init, BatchExtends
<1>2. EngineTypeOK
  BY IdleType, SyncAssumption DEF SyncInit, EngineTypeOK
<1>3. Seeded
  BY DEF SyncInit, Seeded, At, Idle
<1> QED  BY <1>1, <1>2, <1>3 DEF SyncInv

LEMMA SyncSoundness ==
  SyncSpec => []SyncInv
BY SyncInvInit, SyncInvNext, PTL DEF SyncSpec

----------------------------------------------------------------------------
(* The swap of a snapshot *)

\* The steps between the read of the package and its rename into place.
PushPc == {"clear", "stage", "aside", "in"}

\* A directory that holds a package, header and every unit of it.
Holds(d) == \E pkg \in meant : d = SnapshotOf(pkg)

NoneOrWhole(d) == d = NoDir \/ Holds(d)

\* What a run in state r has staged in directory tmp, and what is left of it.
StagedAs(tmp, r) ==
  /\ r.pc \in PushPc => r.pkg \in meant
  /\ r.pc = "clear"  => r.files = SnapshotOf(r.pkg)
  /\ r.pc = "stage"  =>
       (IF tmp = NoDir THEN {} ELSE tmp) \cup r.files = SnapshotOf(r.pkg)
  /\ r.pc \in {"aside", "in"} => tmp = SnapshotOf(r.pkg)

Staged(s) == StagedAs(disk[WorksIn[s]].tmp, run[s])

SwapInv ==
  /\ Remote \subseteq meant
  /\ \A t \in Tree : NoneOrWhole(disk[t].snap) /\ NoneOrWhole(disk[t].old)
  /\ \A s \in Run : Staged(s)

\* Syncs of a tree are run one after the other.
OneRunPerTree == \A s, r \in Run : WorksIn[s] = WorksIn[r] => s = r

\* No phase of a run starts in the middle of a push.
LEMMA PushStarts ==
  ASSUME NEW md \in Mode
  PROVE  /\ AfterPull(md) \notin PushPc
         /\ AfterAdopt(md) \notin PushPc
         /\ FirstStep(md) \notin PushPc
BY DEF AfterPull, AfterAdopt, FirstStep, PushPc

\* A step of one run touches its own state and its own tree: it keeps the
\* invariant when it keeps the part of that run and of that tree.
LEMMA SwapFrame ==
  ASSUME OneRunPerTree, SwapInv, NEW s \in Run, meant \subseteq meant',
         \A t \in Tree : t # WorksIn[s] => disk'[t] = disk[t],
         \A r \in Run : r # s => run'[r] = run[r],
         NoneOrWhole(disk[WorksIn[s]].snap)', NoneOrWhole(disk[WorksIn[s]].old)',
         Staged(s)'
  PROVE  SwapInv'
<1>1. \A d : NoneOrWhole(d) => d = NoDir \/ \E pkg \in meant' : d = SnapshotOf(pkg)
  BY DEF NoneOrWhole, Holds
<1>2. ASSUME NEW t \in Tree
      PROVE  NoneOrWhole(disk[t].snap)' /\ NoneOrWhole(disk[t].old)'
  <2>1. CASE t = WorksIn[s]
    BY <2>1
  <2>2. CASE t # WorksIn[s]
    BY <1>1, <2>2 DEF SwapInv, NoneOrWhole, Holds
  <2> QED  BY <2>1, <2>2
<1>3. ASSUME NEW r \in Run  PROVE Staged(r)'
  <2>1. CASE r = s
    BY <2>1
  <2>2. CASE r # s
    <3>1. WorksIn[r] # WorksIn[s] /\ WorksIn[r] \in Tree
      BY <2>2, SyncAssumption DEF OneRunPerTree
    <3>2. run'[r] = run[r] /\ disk'[WorksIn[r]] = disk[WorksIn[r]]
      BY <2>2, <3>1
    <3> QED  BY <3>2 DEF SwapInv, Staged, StagedAs
  <2> QED  BY <2>1, <2>2
<1> QED  BY <1>2, <1>3 DEF SwapInv

\* A step outside the directories that leaves a run where it is, or takes it
\* outside the push.
LEMMA SwapIdle ==
  ASSUME SwapInv, disk' = disk, meant \subseteq meant',
         \A s \in Run : run'[s] = run[s] \/ run'[s].pc \notin PushPc
  PROVE  SwapInv'
<1>1. \A d : NoneOrWhole(d) => d = NoDir \/ \E pkg \in meant' : d = SnapshotOf(pkg)
  BY DEF NoneOrWhole, Holds
<1>2. \A t \in Tree : NoneOrWhole(disk[t].snap)' /\ NoneOrWhole(disk[t].old)'
  BY <1>1 DEF SwapInv, NoneOrWhole, Holds
<1>3. ASSUME NEW s \in Run  PROVE Staged(s)'
  <2>1. CASE run'[s] = run[s]
    BY <2>1 DEF SwapInv, Staged, StagedAs
  <2>2. CASE run'[s].pc \notin PushPc
    BY <2>2 DEF Staged, StagedAs, PushPc
  <2> QED  BY <2>1, <2>2
<1> QED  BY <1>2, <1>3 DEF SwapInv

LEMMA EnterOutside ==
  ASSUME run \in [Run -> RunState], NEW s \in Run, NEW phase \in Pc \ PushPc,
         Enter(s, phase)
  PROVE  \A r \in Run : run'[r] = run[r] \/ run'[r].pc \notin PushPc
<1>1. ASSUME NEW r \in Run, r # s  PROVE run'[r] = run[r]
  BY <1>1 DEF Enter
<1>2. run'[s].pc = phase
  BY DEF Enter, Idle
<1> QED  BY <1>1, <1>2

\* The steps that write the directories.
LEMMA PushSwaps ==
  ASSUME OneRunPerTree, EngineTypeOK, SwapInv, NEW s \in Run,
         \/ ClearStaging(s) \/ StageFile(s) \/ ClearOld(s)
         \/ MoveAside(s) \/ MoveIn(s) \/ MoveInFails(s) \/ DropOld(s)
  PROVE  SwapInv'
<1> DEFINE t == WorksIn[s]
           d == disk[t]
<1>0. /\ run \in [Run -> RunState] /\ run[s] \in RunState /\ t \in Tree
      /\ disk \in [Tree -> Entry] /\ d \in Entry
  BY SyncAssumption DEF EngineTypeOK, Entry
<1>i. /\ NoneOrWhole(d.snap) /\ NoneOrWhole(d.old) /\ StagedAs(d.tmp, run[s])
      /\ NoneOrWhole(NoDir)
  BY <1>0 DEF SwapInv, Staged, NoneOrWhole
\* What a step writes into the entry of the tree and the state of the run.
<1>o. ASSUME NEW entry, NEW state, disk' = [disk EXCEPT ![t] = entry],
             run' = [run EXCEPT ![s] = state], meant' = meant,
             NoneOrWhole(entry.snap), NoneOrWhole(entry.old),
             StagedAs(entry.tmp, state)
      PROVE  SwapInv'
  <2>1. disk'[t] = entry /\ run'[s] = state
    BY <1>0, <1>o
  <2>2. NoneOrWhole(disk[t].snap)' /\ NoneOrWhole(disk[t].old)' /\ Staged(s)'
    BY <1>o, <2>1 DEF NoneOrWhole, Holds, Staged, StagedAs
  <2>3. /\ \A u \in Tree : u # t => disk'[u] = disk[u]
        /\ \A r \in Run : r # s => run'[r] = run[r]
    BY <1>0, <1>o
  <2> QED  BY <1>o, <2>2, <2>3, SwapFrame
\* A run that ends or drops has nothing staged.
<1>n. ASSUME NEW tmp, NEW state, state.pc \notin PushPc  PROVE StagedAs(tmp, state)
  BY <1>n DEF StagedAs, PushPc
<1>1. CASE ClearStaging(s)
  <2> DEFINE entry == [d EXCEPT !.tmp = NoDir]
             state == [run[s] EXCEPT !.pc = "stage"]
  <2>1. disk' = [disk EXCEPT ![t] = entry] /\ run' = [run EXCEPT ![s] = state]
    BY <1>0, <1>1 DEF ClearStaging, SetDisk, Goto, Entry
  <2>2. entry.snap = d.snap /\ entry.old = d.old /\ entry.tmp = NoDir
    BY <1>0 DEF Entry
  <2>3. state.pc = "stage" /\ state.pkg = run[s].pkg /\ state.files = run[s].files
    BY <1>0 DEF RunState
  <2>4. StagedAs(entry.tmp, state)
    BY <1>1, <1>i, <2>2, <2>3 DEF ClearStaging, At, StagedAs, PushPc
  <2> HIDE DEF entry, state
  <2> QED  BY <1>1, <1>i, <1>o, <2>1, <2>2, <2>4 DEF ClearStaging
<1>2. CASE StageFile(s)
  <2> DEFINE dir == IF d.tmp = NoDir THEN {} ELSE d.tmp
  <2>1. PICK f \in run[s].files :
          /\ SetDisk(s, "tmp", dir \cup {f})
          /\ run' = [run EXCEPT ![s].files = @ \ {f}]
    BY <1>2 DEF StageFile
  <2> DEFINE entry == [d EXCEPT !.tmp = dir \cup {f}]
             state == [run[s] EXCEPT !.files = run[s].files \ {f}]
  <2>2. disk' = [disk EXCEPT ![t] = entry] /\ run' = [run EXCEPT ![s] = state]
    BY <1>0, <2>1 DEF SetDisk, Entry
  <2>3. entry.snap = d.snap /\ entry.old = d.old /\ entry.tmp = dir \cup {f}
    BY <1>0 DEF Entry
  <2>4. state.pc = "stage" /\ state.pkg = run[s].pkg /\ state.files = run[s].files \ {f}
    BY <1>0, <1>2 DEF StageFile, At, RunState
  <2>5. dir \cup {f} # NoDir
    BY <1>0, <2>1, SyncAssumption DEF Entry, RunState, Dir
  <2>6. StagedAs(entry.tmp, state)
    <3>1. run[s].pkg \in meant /\ dir \cup run[s].files = SnapshotOf(run[s].pkg)
      BY <1>2, <1>i DEF StageFile, At, StagedAs, PushPc
    <3> HIDE DEF dir, entry, state
    <3>2. (dir \cup {f}) \cup (run[s].files \ {f}) = SnapshotOf(run[s].pkg)
      BY <2>1, <3>1
    <3> QED  BY <2>3, <2>4, <2>5, <3>1, <3>2 DEF StagedAs, PushPc
  <2> HIDE DEF entry, state, dir
  <2> QED  BY <1>2, <1>i, <1>o, <2>2, <2>3, <2>6 DEF StageFile
<1>3. CASE ClearOld(s)
  <2> DEFINE entry == [d EXCEPT !.old = NoDir]
             state == [run[s] EXCEPT !.pc = "aside"]
  <2>1. disk' = [disk EXCEPT ![t] = entry] /\ run' = [run EXCEPT ![s] = state]
    BY <1>0, <1>3 DEF ClearOld, SetDisk, Goto, Entry
  <2>2. entry.snap = d.snap /\ entry.old = NoDir /\ entry.tmp = d.tmp
    BY <1>0 DEF Entry
  <2>3. state.pc = "aside" /\ state.pkg = run[s].pkg
    BY <1>0 DEF RunState
  <2>4. d.tmp = SnapshotOf(run[s].pkg) /\ run[s].pkg \in meant
    BY <1>3, <1>i DEF ClearOld, At, StagedAs, PushPc, SnapshotOf
  <2>5. StagedAs(entry.tmp, state)
    BY <2>2, <2>3, <2>4 DEF StagedAs, PushPc
  <2> HIDE DEF entry, state
  <2> QED  BY <1>3, <1>i, <1>o, <2>1, <2>2, <2>5 DEF ClearOld
<1>4. CASE MoveAside(s)
  <2>1. CASE d.snap # NoDir /\ d.old # NoDir
    <3>1. Enter(s, "idle") /\ disk' = disk /\ meant' = meant
      BY <1>4, <2>1 DEF MoveAside
    <3> QED  BY <1>0, <3>1, EnterOutside, SwapIdle DEF Pc, PushPc
  <2>2. CASE ~(d.snap # NoDir /\ d.old # NoDir)
    <3> DEFINE entry == IF d.snap = NoDir THEN d ELSE [d EXCEPT !.old = d.snap, !.snap = NoDir]
               state == [run[s] EXCEPT !.pc = "in"]
    <3>1. run' = [run EXCEPT ![s] = state]
      BY <1>4, <2>2 DEF MoveAside, Goto
    <3>2. disk' = [disk EXCEPT ![t] = entry]
      <4>1. CASE d.snap = NoDir
        <5>1. disk' = disk
          BY <1>4, <4>1 DEF MoveAside
        <5> QED  BY <1>0, <4>1, <5>1
      <4>2. CASE d.snap # NoDir
        BY <1>4, <2>2, <4>2 DEF MoveAside
      <4> QED  BY <4>1, <4>2
    <3>3. /\ NoneOrWhole(entry.snap) /\ NoneOrWhole(entry.old) /\ entry.tmp = d.tmp
      BY <1>0, <1>i DEF Entry
    <3>4. state.pc = "in" /\ state.pkg = run[s].pkg
      BY <1>0 DEF RunState
    <3>5. StagedAs(entry.tmp, state)
      BY <1>4, <1>i, <3>3, <3>4 DEF MoveAside, At, StagedAs, PushPc
    <3>6. meant' = meant
      BY <1>4 DEF MoveAside
    <3> HIDE DEF entry, state
    <3> QED  BY <1>o, <3>1, <3>2, <3>3, <3>5, <3>6
  <2> QED  BY <2>1, <2>2
<1>5. CASE MoveIn(s)
  <2> DEFINE entry == [d EXCEPT !.snap = d.tmp, !.tmp = NoDir]
             state == [run[s] EXCEPT !.pc = "drop"]
  <2>1. disk' = [disk EXCEPT ![t] = entry] /\ run' = [run EXCEPT ![s] = state]
    BY <1>5 DEF MoveIn, Goto
  <2>2. entry.snap = d.tmp /\ entry.old = d.old
    BY <1>0 DEF Entry
  <2>3. state.pc = "drop"
    BY <1>0 DEF RunState
  <2>4. NoneOrWhole(d.tmp)
    BY <1>5, <1>i DEF MoveIn, At, StagedAs, PushPc, NoneOrWhole, Holds
  <2>5. StagedAs(entry.tmp, state)
    BY <1>n, <2>3 DEF PushPc
  <2> HIDE DEF entry, state
  <2> QED  BY <1>5, <1>i, <1>o, <2>1, <2>2, <2>4, <2>5 DEF MoveIn
<1>6. CASE MoveInFails(s)
  <2> DEFINE entry == IF d.old # NoDir /\ d.snap = NoDir
                        THEN [d EXCEPT !.snap = d.old, !.old = NoDir] ELSE d
  <2>1. run' = [run EXCEPT ![s] = Idle]
    BY <1>6 DEF MoveInFails, Enter
  <2>2. disk' = [disk EXCEPT ![t] = entry]
    <3>1. CASE d.old # NoDir /\ d.snap = NoDir
      BY <1>6, <3>1 DEF MoveInFails
    <3>2. CASE ~(d.old # NoDir /\ d.snap = NoDir)
      <4>1. disk' = disk
        BY <1>6, <3>2 DEF MoveInFails
      <4> QED  BY <1>0, <3>2, <4>1
    <3> QED  BY <3>1, <3>2
  <2>3. NoneOrWhole(entry.snap) /\ NoneOrWhole(entry.old)
    BY <1>0, <1>i DEF Entry
  <2>4. StagedAs(entry.tmp, Idle)
    BY <1>n DEF Idle, PushPc
  <2> HIDE DEF entry
  <2> QED  BY <1>6, <1>o, <2>1, <2>2, <2>3, <2>4 DEF MoveInFails
<1>7. CASE DropOld(s)
  <2> DEFINE entry == [d EXCEPT !.old = NoDir]
  <2>1. disk' = [disk EXCEPT ![t] = entry] /\ run' = [run EXCEPT ![s] = Idle]
    BY <1>0, <1>7 DEF DropOld, SetDisk, Enter, Entry
  <2>2. entry.snap = d.snap /\ entry.old = NoDir
    BY <1>0 DEF Entry
  <2>3. StagedAs(entry.tmp, Idle)
    BY <1>n DEF Idle, PushPc
  <2> HIDE DEF entry
  <2> QED  BY <1>7, <1>i, <1>o, <2>1, <2>2, <2>3 DEF DropOld
<1> QED  BY <1>1, <1>2, <1>3, <1>4, <1>5, <1>6, <1>7

\* The steps of adoption and pull, and the read of a push.
LEMMA OtherStepsSwap ==
  ASSUME EngineTypeOK, SwapInv, OneRunPerTree, NEW s \in Run,
         \/ AdoptRead(s) \/ AdoptCommit(s) \/ AdoptVanished(s)
         \/ PullSnapshot(s) \/ PullCheck(s) \/ PullDocs(s)
         \/ SeedLook(s) \/ SeedPut(s) \/ SeedRefused(s) \/ PullRecord(s)
         \/ PushRead(s)
  PROVE  SwapInv'
<1>0. /\ run \in [Run -> RunState] /\ run[s] \in RunState /\ run[s].mode \in Mode
      /\ WorksIn[s] \in Tree
  BY SyncAssumption DEF EngineTypeOK, RunState
<1>p. /\ "idle" \in Pc \ PushPc
      /\ AfterPull(run[s].mode) \in Pc \ PushPc
      /\ AfterAdopt(run[s].mode) \in Pc \ PushPc
  BY <1>0, PhaseType, PushStarts DEF Pc, PushPc
<1>d. disk' = disk
  BY DEF AdoptRead, AdoptCommit, AdoptVanished, PullSnapshot, PullCheck, PullDocs,
         SeedLook, SeedPut, SeedRefused, PullRecord, PushRead
<1>1. CASE PushRead(s) /\ UnitsOf(WorksIn[s]) # {}
  <2> DEFINE units == UnitsOf(WorksIn[s])
             state == [run[s] EXCEPT !.pc = "clear", !.pkg = units,
                         !.files = SnapshotOf(units)]
  <2>1. run' = [run EXCEPT ![s] = state] /\ meant' = meant \cup {units}
    BY <1>1 DEF PushRead
  <2>2. state.pc = "clear" /\ state.pkg = units /\ state.files = SnapshotOf(units)
    BY <1>0 DEF RunState
  <2> HIDE DEF state, units
  <2>3. run'[s] = state /\ \A r \in Run : r # s => run'[r] = run[r]
    BY <1>0, <2>1
  <2>4. Staged(s)'
    BY <2>1, <2>2, <2>3 DEF Staged, StagedAs, PushPc
  <2>5. meant \subseteq meant'
    BY <2>1
  <2>6. NoneOrWhole(disk[WorksIn[s]].snap)' /\ NoneOrWhole(disk[WorksIn[s]].old)'
    BY <1>0, <1>d, <2>5 DEF SwapInv, NoneOrWhole, Holds
  <2> QED  BY <1>d, <2>3, <2>4, <2>5, <2>6, SwapFrame
<1>2. CASE ~(PushRead(s) /\ UnitsOf(WorksIn[s]) # {})
  <2>1. meant' = meant
    BY <1>2 DEF AdoptRead, AdoptCommit, AdoptVanished, PullSnapshot, PullCheck, PullDocs,
                SeedLook, SeedPut, SeedRefused, PullRecord, PushRead
  <2>2. \/ Enter(s, "idle")
        \/ Enter(s, AfterPull(run[s].mode))
        \/ Enter(s, AfterAdopt(run[s].mode))
        \/ \E state : run' = [run EXCEPT ![s] = state] /\ state.pc \notin PushPc
    <3>1. CASE AdoptRead(s)
      <4> DEFINE state == [run[s] EXCEPT !.pc = "reattribute",
                             !.forms = NativeForms(TreeProject[WorksIn[s]])]
      <4>1. state.pc \notin PushPc
        BY <1>0 DEF RunState, PushPc
      <4>2. Enter(s, AfterAdopt(run[s].mode)) \/ run' = [run EXCEPT ![s] = state]
        BY <3>1 DEF AdoptRead
      <4> QED  BY <4>1, <4>2
    <3>2. CASE PullSnapshot(s)
      <4> DEFINE state == [run[s] EXCEPT !.pc = "check",
                             !.pkg = Snapshot(WorksIn[s]) \ {Header}]
      <4>1. state.pc \notin PushPc
        BY <1>0 DEF RunState, PushPc
      <4>2. Enter(s, "idle") \/ run' = [run EXCEPT ![s] = state]
        BY <3>2 DEF PullSnapshot
      <4> QED  BY <4>1, <4>2
    <3>3. CASE PullCheck(s)
      <4> DEFINE state == [run[s] EXCEPT !.pc = "seed", !.todo = run[s].pkg]
      <4>1. state.pc \notin PushPc
        BY <1>0 DEF RunState, PushPc
      <4>2. Enter(s, AfterPull(run[s].mode)) \/ run' = [run EXCEPT ![s] = state]
        BY <3>3 DEF PullCheck
      <4> QED  BY <4>1, <4>2
    <3>4. CASE PullDocs(s)
      <4> DEFINE pkg   == Docs[WorksIn[s]]
                 state == [run[s] EXCEPT !.pc = "seed", !.pkg = pkg, !.todo = pkg]
      <4>1. state.pc \notin PushPc
        BY <1>0 DEF RunState, PushPc
      <4>2. Enter(s, "idle") \/ run' = [run EXCEPT ![s] = state]
        BY <3>4 DEF PullDocs
      <4> QED  BY <4>1, <4>2
    <3>5. CASE SeedLook(s)
      <4>1. PICK h : run' = [run EXCEPT ![s].pc = "put", ![s].todo = run[s].todo \ {h},
                       ![s].hand = {h},
                       ![s].clash = IF Overwrites(s, h) THEN @ \cup {h} ELSE @]
        BY <3>5 DEF SeedLook
      <4> DEFINE state == [run[s] EXCEPT !.pc = "put", !.todo = run[s].todo \ {h},
                             !.hand = {h},
                             !.clash = IF Overwrites(s, h) THEN @ \cup {h} ELSE @]
      <4>2. state.pc \notin PushPc
        BY <1>0 DEF RunState, PushPc
      <4>3. run' = [run EXCEPT ![s] = state]
        BY <4>1
      <4> HIDE DEF state
      <4> QED  BY <4>2, <4>3
    <3>6. CASE SeedPut(s)
      <4>1. PICK h : run' = [run EXCEPT ![s].pc = "seed", ![s].hand = {},
                       ![s].kept = IF KeptNewer(Committed, PutOf(s, h), FALSE)
                                     THEN @ \cup {h} ELSE @]
        BY <3>6 DEF SeedPut
      <4> DEFINE state == [run[s] EXCEPT !.pc = "seed", !.hand = {},
                             !.kept = IF KeptNewer(Committed, PutOf(s, h), FALSE)
                                        THEN @ \cup {h} ELSE @]
      <4>2. state.pc \notin PushPc
        BY <1>0 DEF RunState, PushPc
      <4>3. run' = [run EXCEPT ![s] = state]
        BY <4>1
      <4> HIDE DEF state
      <4> QED  BY <4>2, <4>3
    <3> QED  BY <1>2, <3>1, <3>2, <3>3, <3>4, <3>5, <3>6
          DEF AdoptCommit, AdoptVanished, SeedRefused, PullRecord, PushRead
  <2>3. \A r \in Run : run'[r] = run[r] \/ run'[r].pc \notin PushPc
    <3>1. ASSUME NEW state, run' = [run EXCEPT ![s] = state], state.pc \notin PushPc
          PROVE  \A r \in Run : run'[r] = run[r] \/ run'[r].pc \notin PushPc
      BY <1>0, <3>1
    <3> QED  BY <1>0, <1>p, <2>2, <3>1, EnterOutside
  <2> QED  BY <1>d, <2>1, <2>3, SwapIdle
<1> QED  BY <1>1, <1>2

\* No step, a crash between the two renames of a swap included, leaves part of
\* a package where a snapshot belongs.
LEMMA SwapNext ==
  OneRunPerTree /\ SyncInv /\ SwapInv /\ [SyncNext]_syncVars => SwapInv'
<1> SUFFICES ASSUME OneRunPerTree, SyncInv, SwapInv, [SyncNext]_syncVars  PROVE SwapInv'
  OBVIOUS
<1>0. EngineTypeOK /\ run \in [Run -> RunState]
  BY DEF SyncInv, EngineTypeOK
<1>1. ASSUME NEW s \in Run, NEW md \in Modes, Begin(s, md)  PROVE SwapInv'
  <2> DEFINE state == [Idle EXCEPT !.pc = FirstStep(md), !.mode = md]
  <2>1. state.pc \notin PushPc
    BY SyncAssumption, PushStarts DEF Idle
  <2>2. run' = [run EXCEPT ![s] = state] /\ disk' = disk /\ meant' = meant
    BY <1>1 DEF Begin
  <2> HIDE DEF state
  <2>3. \A r \in Run : run'[r] = run[r] \/ run'[r].pc \notin PushPc
    BY <1>0, <2>1, <2>2
  <2> QED  BY <2>2, <2>3, SwapIdle
<1>2. ASSUME NEW s \in Run, Progress(s)  PROVE SwapInv'
  BY <1>0, <1>2, PushSwaps, OtherStepsSwap DEF Progress
<1>3. ASSUME NEW s \in Run, Crash(s)  PROVE SwapInv'
  BY <1>0, <1>3, EnterOutside, SwapIdle DEF Crash, Pc, PushPc
<1>4. ASSUME NEW p \in Put, Author(p) \/ Repoint(p)  PROVE SwapInv'
  BY <1>4, SwapIdle DEF Author, Repoint
<1>5. ASSUME NEW t \in Tree, NEW pkg \in Remote, Checkout(t, pkg)  PROVE SwapInv'
  <2>1. /\ run' = run /\ meant' = meant
        /\ disk' = [disk EXCEPT ![t].snap = SnapshotOf(pkg)]
    BY <1>5 DEF Checkout
  <2>2. disk \in [Tree -> Entry]
    BY <1>0 DEF EngineTypeOK, Entry
  <2>3. pkg \in meant
    BY DEF SwapInv
  <2>4. \A u \in Tree : /\ disk'[u].old = disk[u].old /\ disk'[u].tmp = disk[u].tmp
                        /\ disk'[u].snap = disk[u].snap \/ disk'[u].snap = SnapshotOf(pkg)
    BY <2>1, <2>2 DEF Entry
  <2>5. \A u \in Tree : NoneOrWhole(disk[u].snap)' /\ NoneOrWhole(disk[u].old)'
    BY <2>1, <2>3, <2>4 DEF SwapInv, NoneOrWhole, Holds
  <2>6. \A s \in Run : Staged(s)'
    BY <2>1, <2>4, SyncAssumption DEF SwapInv, Staged, StagedAs
  <2> QED  BY <2>1, <2>5, <2>6 DEF SwapInv
<1>6. ASSUME UNCHANGED syncVars  PROVE SwapInv'
  BY <1>6, SwapIdle DEF syncVars
<1> QED  BY <1>1, <1>2, <1>3, <1>4, <1>5, <1>6 DEF SyncNext

LEMMA SwapInit ==
  SyncInit => SwapInv
BY SyncAssumption DEF SyncInit, SwapInv, NoneOrWhole, Staged, StagedAs, Idle, PushPc

----------------------------------------------------------------------------
(* What a push replaces *)

\* Every run that pushes has pulled before, from the snapshot where there is one.
PullThenPush == \A md \in Modes : md.push => md.pull = "snapshot"

\* What the snapshot of the tree of a run in state r has to do with the pull.
PulledAs(snap, r) ==
  /\ r.pc # "idle" => r.mode \in Modes
  /\ r.pc = "check" => snap \ {Header} \subseteq r.pkg
  /\ r.pc \in {"seed", "put"} /\ r.mode.push =>
       snap = NoDir \/ snap \ {Header} \subseteq r.pkg
  /\ r.pc \in {"read", "clear", "stage", "aside"} =>
       snap = NoDir \/ snap \ {Header} \subseteq Archived(Committed)

Pulled(s) == PulledAs(disk[WorksIn[s]].snap, run[s])

\* Where the phases of a run that pulls before it pushes start.
LEMMA PulledStarts ==
  ASSUME PullThenPush, NEW md \in Modes
  PROVE  /\ FirstStep(md) \in {"adopt", "load", "idle"}
         /\ AfterAdopt(md) \in {"load", "idle"}
         /\ AfterPull(md) \in {"read", "idle"}
<1>1. md \in Mode
  BY SyncAssumption
<1> QED  BY <1>1 DEF PullThenPush, FirstStep, AfterAdopt, AfterPull, Mode

\* A step keeps the relation of every run whose state and snapshot it keeps.
LEMMA PulledFrame ==
  ASSUME NEW r \in Run, Pulled(r), Archived(Committed) \subseteq Archived(Committed)',
         run'[r] = run[r], disk'[WorksIn[r]].snap = disk[WorksIn[r]].snap
  PROVE  Pulled(r)'
BY DEF Pulled, PulledAs

\* What a run does to its own relation, step by step.
LEMMA ProgressPulled ==
  ASSUME PullThenPush, SyncInv, NEW s \in Run, Pulled(s), Progress(s),
         Archived(Committed) \subseteq Archived(Committed)'
  PROVE  Pulled(s)'
<1> DEFINE t == WorksIn[s]
           snap == disk[t].snap
<1>0. /\ run \in [Run -> RunState] /\ run[s] \in RunState /\ t \in Tree
      /\ disk \in [Tree -> Entry] /\ disk[t] \in Entry
  BY SyncAssumption DEF SyncInv, EngineTypeOK, Entry
<1>i. PulledAs(snap, run[s])
  BY DEF Pulled
<1>m. run[s].pc # "idle" => run[s].mode \in Modes
  BY <1>i DEF PulledAs
\* A phase that no condition speaks of: the start of the pull, or the end.
<1>e. ASSUME NEW phase, Enter(s, phase), phase \in {"load", "idle"}, run[s].mode \in Modes
      PROVE  Pulled(s)'
  <2>1. run'[s].pc = phase /\ (phase # "idle" => run'[s].mode = run[s].mode)
    BY <1>0, <1>e DEF Enter, Idle
  <2> QED  BY <1>e, <2>1 DEF Pulled, PulledAs
\* A step of the push that leaves the snapshot alone.
<1>k. ASSUME NEW pc \in {"clear", "stage", "aside"},
             run[s].pc \in {"read", "clear", "stage", "aside"},
             run'[s].pc = pc, run'[s].mode = run[s].mode, disk'[t].snap = snap
      PROVE  Pulled(s)'
  BY <1>i, <1>k DEF Pulled, PulledAs
\* The end of a pull whose package is in the archive.
<1>a. ASSUME Enter(s, AfterPull(run[s].mode)), run[s].mode \in Modes, disk' = disk,
             run[s].mode.push => snap = NoDir \/ snap \ {Header} \subseteq Archived(Committed)
      PROVE  Pulled(s)'
  <2>1. CASE run[s].mode.push
    <3>1. run'[s].pc = "read" /\ run'[s].mode = run[s].mode
      BY <1>0, <1>a, <2>1 DEF Enter, AfterPull, Idle
    <3> QED  BY <1>a, <2>1, <3>1 DEF Pulled, PulledAs
  <2>2. CASE ~run[s].mode.push
    BY <1>a, <1>e, <2>2 DEF AfterPull
  <2> QED  BY <2>1, <2>2
<1>1. CASE AdoptRead(s)
  <2>1. run[s].mode \in Modes
    BY <1>1, <1>m DEF AdoptRead, At
  <2>2. CASE NativeForms(TreeProject[t]) = {}
    BY <1>1, <1>e, <2>1, <2>2, PulledStarts DEF AdoptRead
  <2>3. CASE NativeForms(TreeProject[t]) # {}
    <3>1. run'[s].pc = "reattribute" /\ run'[s].mode = run[s].mode
      BY <1>0, <1>1, <2>3 DEF AdoptRead, RunState
    <3> QED  BY <2>1, <3>1 DEF Pulled, PulledAs
  <2> QED  BY <2>2, <2>3
<1>2. CASE AdoptCommit(s)
  BY <1>2, <1>m, <1>e, PulledStarts DEF AdoptCommit, At
<1>3. CASE AdoptVanished(s) \/ SeedRefused(s) \/ DropOld(s) \/ MoveInFails(s)
  <2>1. Enter(s, "idle") /\ run[s].mode \in Modes
    BY <1>3, <1>m DEF AdoptVanished, SeedRefused, DropOld, MoveInFails, At
  <2> QED  BY <1>e, <2>1
<1>4. CASE PullSnapshot(s)
  <2>1. run[s].mode \in Modes
    BY <1>4, <1>m DEF PullSnapshot, At
  <2>2. CASE Header \in snap
    <3>1. /\ run'[s].pc = "check" /\ run'[s].mode = run[s].mode
          /\ run'[s].pkg = snap \ {Header} /\ disk' = disk
      BY <1>0, <1>4, <2>2 DEF PullSnapshot, Snapshot, RunState
    <3> QED  BY <2>1, <3>1 DEF Pulled, PulledAs
  <2>3. CASE Header \notin snap
    BY <1>4, <1>e, <2>1, <2>3 DEF PullSnapshot, Snapshot
  <2> QED  BY <2>2, <2>3
<1>5. CASE PullCheck(s)
  <2>1. run[s].mode \in Modes /\ snap \ {Header} \subseteq run[s].pkg /\ disk' = disk
    BY <1>5, <1>m, <1>i DEF PullCheck, At, PulledAs
  <2>2. CASE lastPull[t] = run[s].pkg
    <3>1. run[s].pkg # NoDigest
      BY <1>0, SyncAssumption DEF RunState
    <3>2. run[s].pkg \subseteq Archived(Committed)
      BY <1>0, <2>2, <3>1 DEF SyncInv, Seeded
    <3> QED  BY <1>5, <1>a, <2>1, <2>2, <3>2 DEF PullCheck
  <2>3. CASE lastPull[t] # run[s].pkg
    <3>1. /\ run'[s].pc = "seed" /\ run'[s].mode = run[s].mode
          /\ run'[s].pkg = run[s].pkg
      BY <1>0, <1>5, <2>3 DEF PullCheck, RunState
    <3> QED  BY <2>1, <3>1 DEF Pulled, PulledAs
  <2> QED  BY <2>2, <2>3
<1>6. CASE PullDocs(s)
  <2>1. run[s].mode \in Modes /\ disk' = disk
    BY <1>6, <1>m DEF PullDocs, At
  <2>2. CASE Docs[t] = NoPackage
    BY <1>6, <1>e, <2>1, <2>2 DEF PullDocs
  <2>3. CASE Docs[t] # NoPackage
    <3>1. run'[s].pc = "seed" /\ run'[s].mode = run[s].mode
      BY <1>0, <1>6, <2>3 DEF PullDocs, RunState
    <3>2. run[s].mode.push => snap = NoDir
      BY <1>6, <2>1 DEF PullDocs, FromSnapshot, Snapshot, PullThenPush
    <3> QED  BY <2>1, <3>1, <3>2 DEF Pulled, PulledAs
  <2> QED  BY <2>2, <2>3
<1>7. CASE SeedLook(s) \/ SeedPut(s)
  <2>1. run[s].mode \in Modes /\ run[s].pc \in {"seed", "put"} /\ disk' = disk
    BY <1>7, <1>m DEF SeedLook, SeedPut, At
  <2>2. /\ run'[s].pc \in {"seed", "put"} /\ run'[s].mode = run[s].mode
        /\ run'[s].pkg = run[s].pkg
    <3>1. CASE SeedLook(s)
      <4>1. PICK h : run' = [run EXCEPT ![s].pc = "put", ![s].todo = run[s].todo \ {h},
                       ![s].hand = {h},
                       ![s].clash = IF Overwrites(s, h) THEN @ \cup {h} ELSE @]
        BY <3>1 DEF SeedLook
      <4> QED  BY <1>0, <4>1 DEF RunState
    <3>2. CASE SeedPut(s)
      <4>1. PICK h : run' = [run EXCEPT ![s].pc = "seed", ![s].hand = {},
                       ![s].kept = IF KeptNewer(Committed, PutOf(s, h), FALSE)
                                     THEN @ \cup {h} ELSE @]
        BY <3>2 DEF SeedPut
      <4> QED  BY <1>0, <4>1 DEF RunState
    <3> QED  BY <1>7, <3>1, <3>2
  <2> QED  BY <1>i, <2>1, <2>2 DEF Pulled, PulledAs
<1>8. CASE PullRecord(s)
  <2>1. run[s].mode \in Modes /\ disk' = disk /\ At(s, "seed") /\ run[s].todo = {}
    BY <1>8, <1>m DEF PullRecord, At
  <2>2. run[s].pkg \subseteq Archived(Committed)
    BY <2>1 DEF SyncInv, Seeded
  <2>3. run[s].mode.push => snap = NoDir \/ snap \ {Header} \subseteq run[s].pkg
    BY <1>i, <2>1 DEF PulledAs, At
  <2> QED  BY <1>8, <1>a, <2>1, <2>2, <2>3 DEF PullRecord
<1>9. CASE PushRead(s)
  <2>1. run[s].mode \in Modes /\ run[s].pc = "read" /\ disk' = disk
    BY <1>9, <1>m DEF PushRead, At
  <2>2. CASE UnitsOf(t) = {}
    BY <1>9, <1>e, <2>1, <2>2 DEF PushRead
  <2>3. CASE UnitsOf(t) # {}
    <3>1. run'[s].pc = "clear" /\ run'[s].mode = run[s].mode
      BY <1>0, <1>9, <2>3 DEF PushRead, RunState
    <3> QED  BY <1>k, <2>1, <3>1
  <2> QED  BY <2>2, <2>3
<1>10. CASE ClearStaging(s) \/ StageFile(s) \/ ClearOld(s)
  <2>1. run[s].pc \in {"clear", "stage"} /\ run'[s].mode = run[s].mode
    BY <1>0, <1>10 DEF ClearStaging, StageFile, ClearOld, At, Goto, RunState
  <2>2. run'[s].pc \in {"stage", "aside"}
    BY <1>0, <1>10 DEF ClearStaging, StageFile, ClearOld, At, Goto, RunState
  <2>3. disk'[t].snap = snap
    <3>1. ASSUME NEW field \in {"tmp", "old"}, NEW value, SetDisk(s, field, value)
          PROVE  disk'[t].snap = snap
      BY <1>0, <3>1 DEF SetDisk, Entry
    <3> QED  BY <1>10, <3>1 DEF ClearStaging, StageFile, ClearOld
  <2> QED  BY <1>k, <2>1, <2>2, <2>3
<1>11. CASE MoveAside(s)
  <2>1. run[s].mode \in Modes
    BY <1>11, <1>m DEF MoveAside, At
  <2>2. CASE Enter(s, "idle")
    BY <1>e, <2>1, <2>2
  <2>3. CASE Goto(s, "in")
    <3>1. run'[s].pc = "in" /\ run'[s].mode = run[s].mode
      BY <1>0, <2>3 DEF Goto, RunState
    <3> QED  BY <2>1, <3>1 DEF Pulled, PulledAs
  <2> QED  BY <1>11, <2>2, <2>3 DEF MoveAside
<1>12. CASE MoveIn(s)
  <2>1. run[s].mode \in Modes
    BY <1>12, <1>m DEF MoveIn, At
  <2>2. run'[s].pc = "drop" /\ run'[s].mode = run[s].mode
    BY <1>0, <1>12 DEF MoveIn, Goto, RunState
  <2> QED  BY <2>1, <2>2 DEF Pulled, PulledAs
<1> QED  BY <1>1, <1>2, <1>3, <1>4, <1>5, <1>6, <1>7, <1>8, <1>9, <1>10, <1>11, <1>12
      DEF Progress

\* A run writes the directories of its own tree only.
LEMMA ProgressElsewhere ==
  ASSUME OneRunPerTree, EngineTypeOK, NEW s \in Run, NEW r \in Run \ {s}, Progress(s)
  PROVE  run'[r] = run[r] /\ disk'[WorksIn[r]] = disk[WorksIn[r]]
<1>1. WorksIn[r] # WorksIn[s] /\ WorksIn[r] \in Tree
  BY SyncAssumption DEF OneRunPerTree
<1>2. run'[r] = run[r]
  BY DEF Progress, AdoptRead, AdoptCommit, AdoptVanished, PullSnapshot, PullCheck,
         PullDocs, SeedLook, SeedPut, SeedRefused, PullRecord, PushRead, ClearStaging,
         StageFile, ClearOld, MoveAside, MoveIn, MoveInFails, DropOld, Enter, Goto,
         EngineTypeOK
<1>3. disk' = disk \/ \E entry : disk' = [disk EXCEPT ![WorksIn[s]] = entry]
  BY DEF Progress, AdoptRead, AdoptCommit, AdoptVanished, PullSnapshot, PullCheck,
         PullDocs, SeedLook, SeedPut, SeedRefused, PullRecord, PushRead, ClearStaging,
         StageFile, ClearOld, MoveAside, MoveIn, MoveInFails, DropOld, SetDisk
<1> QED  BY <1>1, <1>2, <1>3 DEF EngineTypeOK

LEMMA PulledNext ==
  /\ OneRunPerTree /\ PullThenPush /\ SyncInv /\ [SyncNext]_syncVars
  /\ \A s \in Run : Pulled(s)
  => \A s \in Run : Pulled(s)'
<1> SUFFICES ASSUME OneRunPerTree, PullThenPush, SyncInv, [SyncNext]_syncVars,
                    \A s \in Run : Pulled(s),
                    NEW r \in Run
             PROVE  Pulled(r)'
  OBVIOUS
<1>0. /\ run \in [Run -> RunState] /\ IInv /\ BatchExtends /\ EngineTypeOK /\ Pulled(r)
      /\ WorksIn[r] \in Tree
  BY SyncAssumption DEF SyncInv, EngineTypeOK
<1>g. Archived(Committed) \subseteq Archived(Committed)'
  BY <1>0, EngineStepIsStoreStep, StepExtends DEF IInv, Extends, Archived
<1>1. ASSUME NEW s \in Run, NEW md \in Modes, Begin(s, md)  PROVE Pulled(r)'
  <2>1. CASE r = s
    <3>1. run'[r].pc = FirstStep(md) /\ run'[r].mode = md
      BY <1>0, <1>1, <2>1 DEF Begin, Idle
    <3> QED  BY <3>1, PulledStarts DEF Pulled, PulledAs
  <2>2. CASE r # s
    BY <1>0, <1>g, <1>1, <2>2, PulledFrame DEF Begin
  <2> QED  BY <2>1, <2>2
<1>2. ASSUME NEW s \in Run, Progress(s)  PROVE Pulled(r)'
  <2>1. CASE r = s
    BY <1>0, <1>g, <1>2, <2>1, ProgressPulled
  <2>2. CASE r # s
    BY <1>0, <1>g, <1>2, <2>2, ProgressElsewhere, PulledFrame
  <2> QED  BY <2>1, <2>2
<1>3. ASSUME NEW s \in Run, Crash(s)  PROVE Pulled(r)'
  <2>1. CASE r = s
    <3>1. run'[r].pc = "idle"
      BY <1>0, <1>3, <2>1 DEF Crash, Enter, Idle
    <3> QED  BY <3>1 DEF Pulled, PulledAs
  <2>2. CASE r # s
    BY <1>0, <1>g, <1>3, <2>2, PulledFrame DEF Crash, Enter
  <2> QED  BY <2>1, <2>2
<1>4. ASSUME NEW p \in Put, Author(p) \/ Repoint(p)  PROVE Pulled(r)'
  BY <1>0, <1>g, <1>4, PulledFrame DEF Author, Repoint
<1>5. ASSUME NEW t \in Tree, NEW pkg \in Remote, Checkout(t, pkg)  PROVE Pulled(r)'
  <2>1. CASE WorksIn[r] = t
    <3>1. run'[r].pc = "idle"
      BY <1>5, <2>1 DEF Checkout, At
    <3> QED  BY <3>1 DEF Pulled, PulledAs
  <2>2. CASE WorksIn[r] # t
    <3>1. run'[r] = run[r] /\ disk'[WorksIn[r]] = disk[WorksIn[r]]
      BY <1>0, <1>5, <2>2 DEF Checkout, EngineTypeOK
    <3> QED  BY <1>0, <1>g, <3>1, PulledFrame
  <2> QED  BY <2>1, <2>2
<1>6. ASSUME UNCHANGED syncVars  PROVE Pulled(r)'
  BY <1>0, <1>g, <1>6, PulledFrame DEF syncVars
<1> QED  BY <1>1, <1>2, <1>3, <1>4, <1>5, <1>6 DEF SyncNext

----------------------------------------------------------------------------
(* Who owns a row *)

\* What a step may do to the row of a form.
KeptOrAdopted(f) ==
  /\ refs'[f] # NoRef
  /\ refs'[f] # refs[f] /\ refs'[f].hash = refs[f].hash =>
       /\ refs[f].repo = Runtime
       /\ \E rp \in Repo \ {Runtime} : refs'[f] = [refs[f] EXCEPT !.repo = rp]

OwnedOnce == \A f \in Referenced(Committed) : KeptOrAdopted(f)

\* What a run that leaves the transaction and goes on has done to what it read.
AllOwned ==
  \A s \in Run :
    At(s, "reattribute") /\ run'[s].pc \notin {"reattribute", "idle"} =>
      \A f \in run[s].forms :
        /\ refs'[f].project = TreeProject[WorksIn[s]]
        /\ refs'[f].repo = TreeRepo[WorksIn[s]]

\* A put gives a row to another repository only with another payload.
LEMMA PutKeepsOwner ==
  ASSUME TypeOK, NEW p \in Put, NEW repoint \in BOOLEAN,
         Commit(PutTx(Committed, p, repoint)), NEW f \in Referenced(Committed)
  PROVE  KeptOrAdopted(f)
<1>0. /\ refs \in [Form -> Row \cup {NoRef}] /\ f \in Form /\ refs[f] # NoRef
      /\ p.payload \in Payload /\ FormOf[p.payload] \in Form
  BY StoreAssumption DEF TypeOK, Database, Committed, Referenced, Put
<1>1. CASE Moves(Committed, p, repoint) /\ FormOf[p.payload] = f
  <2>1. refs' = [refs EXCEPT ![f] = Upsert(Committed, p)]
    BY <1>1 DEF Commit, PutTx, Committed
  <2>2. refs'[f] = Upsert(Committed, p)
    BY <1>0, <2>1
  <2>3. Upsert(Committed, p).hash = p.payload /\ refs[f].hash # p.payload
    BY <1>0, <1>1 DEF Upsert, Moves, Committed
  <2>4. Upsert(Committed, p) # NoRef
    <3>1. refs[f] \in Row
      BY <1>0
    <3>2. Upsert(Committed, p) =
            [hash |-> p.payload, project |-> p.project, repo |-> p.repo,
             number |-> refs[f].number]
      BY <1>0, <1>1 DEF Upsert, Committed
    <3>3. Upsert(Committed, p) \in Row
      BY <1>0, <3>1, <3>2 DEF Row, Put
    <3> QED  BY <3>3, NoRefAssumption
  <2> QED  BY <2>2, <2>3, <2>4 DEF KeptOrAdopted
<1>2. CASE ~(Moves(Committed, p, repoint) /\ FormOf[p.payload] = f)
  <2>1. refs'[f] = refs[f]
    BY <1>0, <1>2 DEF Commit, PutTx, Committed
  <2> QED  BY <1>0, <2>1 DEF KeptOrAdopted
<1> QED  BY <1>1, <1>2

\* The transaction of an adoption takes native rows only, and all it read.
LEMMA AdoptOwns ==
  ASSUME TypeOK, NEW s \in Run, run \in [Run -> RunState], AdoptCommit(s)
  PROVE  /\ OwnedOnce
         /\ \A f \in run[s].forms :
              /\ refs'[f].project = TreeProject[WorksIn[s]]
              /\ refs'[f].repo = TreeRepo[WorksIn[s]]
<1> DEFINE rp == TreeRepo[WorksIn[s]]
           forms == run[s].forms
<1>0. /\ refs \in [Form -> Row \cup {NoRef}] /\ forms \subseteq Form
      /\ rp \in Repo \ {Runtime}
  BY SyncAssumption DEF TypeOK, Database, Committed, RunState
<1>1. refs' = [f \in Form |-> IF f \in forms THEN [refs[f] EXCEPT !.repo = rp] ELSE refs[f]]
  BY DEF AdoptCommit, Commit, Reattribute, Committed
<1>2. \A f \in forms : /\ refs[f] \in Row /\ refs[f].repo = Runtime
                        /\ refs[f].project = TreeProject[WorksIn[s]]
  BY <1>0 DEF AdoptCommit, NativeForms, Referenced, Committed
<1>3. ASSUME NEW f \in forms
      PROVE  /\ refs'[f] = [refs[f] EXCEPT !.repo = rp] /\ refs'[f] \in Row
             /\ refs'[f].project = TreeProject[WorksIn[s]] /\ refs'[f].repo = rp
  BY <1>0, <1>1, <1>2 DEF Row
<1>4. ASSUME NEW f \in Referenced(Committed)  PROVE KeptOrAdopted(f)
  <2>0. f \in Form /\ refs[f] # NoRef
    BY DEF Referenced, Committed
  <2>1. CASE f \in forms
    BY <1>0, <1>2, <1>3, <2>1, NoRefAssumption DEF KeptOrAdopted
  <2>2. CASE f \notin forms
    BY <1>1, <2>0, <2>2 DEF KeptOrAdopted
  <2> QED  BY <2>1, <2>2
<1> QED  BY <1>3, <1>4 DEF OwnedOnce

LEMMA StepOwnsOnce ==
  SyncInv /\ [SyncNext]_syncVars => OwnedOnce /\ AllOwned
<1> SUFFICES ASSUME SyncInv, [SyncNext]_syncVars  PROVE OwnedOnce /\ AllOwned
  OBVIOUS
<1>0. TypeOK /\ run \in [Run -> RunState]
  BY DEF SyncInv, IInv, EngineTypeOK
\* A step that leaves the table alone and takes no run out of the transaction.
<1>f. ASSUME refs' = refs  PROVE OwnedOnce
  BY <1>f DEF OwnedOnce, KeptOrAdopted, Referenced, Committed
<1>o. ASSUME NEW s \in Run, \A r \in Run : r # s => run'[r] = run[r],
             ~At(s, "reattribute") \/ run'[s].pc \in {"reattribute", "idle"}
      PROVE  AllOwned
  <2> SUFFICES ASSUME NEW r \in Run, At(r, "reattribute"),
                      run'[r].pc \notin {"reattribute", "idle"}
               PROVE  FALSE
    BY DEF AllOwned
  <2> QED  BY <1>o DEF At
<1>1. ASSUME NEW s \in Run, NEW md \in Modes, Begin(s, md)  PROVE OwnedOnce /\ AllOwned
  BY <1>1, <1>f, <1>o DEF Begin, At, storeVars, vars
<1>2. ASSUME NEW s \in Run, Progress(s)  PROVE OwnedOnce /\ AllOwned
  <2>0. \A r \in Run : r # s => run'[r] = run[r]
    BY <1>0, <1>2 DEF Progress, AdoptRead, AdoptCommit, AdoptVanished, PullSnapshot, PullCheck,
           PullDocs, SeedLook, SeedPut, SeedRefused, PullRecord, PushRead, ClearStaging,
           StageFile, ClearOld, MoveAside, MoveIn, MoveInFails, DropOld, Enter, Goto
  <2>1. CASE AdoptCommit(s)
    <3>1. \A r \in Run : r # s => (At(r, "reattribute") => run'[r].pc = "reattribute")
      BY <2>0 DEF At
    <3>2. OwnedOnce
      BY <1>0, <2>1, AdoptOwns
    <3>3. AllOwned
      BY <1>0, <2>1, <3>1, AdoptOwns DEF AllOwned
    <3> QED  BY <3>2, <3>3
  <2>2. CASE AdoptVanished(s)
    <3>1. run'[s].pc = "idle"
      BY <1>0, <2>2 DEF AdoptVanished, Enter, Idle
    <3> QED  BY <1>f, <1>o, <2>0, <2>2, <3>1 DEF AdoptVanished, storeVars, vars
  <2>3. CASE SeedPut(s)
    <3>1. PICK h \in run[s].hand : PutUnit(PutOf(s, h))
      BY <2>3 DEF SeedPut
    <3>2. h \in Payload
      BY <1>0, <3>1 DEF RunState, Package
    <3>3. OwnedOnce
      BY <1>0, <3>1, <3>2, PutOfType, PutKeepsOwner DEF OwnedOnce, PutUnit
    <3> QED  BY <1>o, <2>0, <2>3, <3>3 DEF SeedPut, At
  <2>4. CASE ~AdoptCommit(s) /\ ~AdoptVanished(s) /\ ~SeedPut(s)
    <3>1. refs' = refs
      BY <1>2, <2>4
      DEF Progress, AdoptRead, PullSnapshot, PullCheck, PullDocs, SeedLook, SeedRefused,
          PullRecord, PushRead, ClearStaging, StageFile, ClearOld, MoveAside, MoveIn,
          MoveInFails, DropOld, storeVars, vars
    <3>2. ~At(s, "reattribute")
      BY <1>2, <2>4
      DEF Progress, AdoptRead, PullSnapshot, PullCheck, PullDocs, SeedLook, SeedRefused,
          PullRecord, PushRead, ClearStaging, StageFile, ClearOld, MoveAside, MoveIn,
          MoveInFails, DropOld, At
    <3> QED  BY <1>f, <1>o, <2>0, <3>1, <3>2
  <2> QED  BY <2>1, <2>2, <2>3, <2>4
<1>3. ASSUME NEW s \in Run, Crash(s)  PROVE OwnedOnce /\ AllOwned
  <2>1. run'[s].pc = "idle" /\ \A r \in Run : r # s => run'[r] = run[r]
    BY <1>0, <1>3 DEF Crash, Enter, Idle
  <2> QED  BY <1>3, <1>f, <1>o, <2>1 DEF Crash, storeVars, vars
<1>r. ASSUME run' = run  PROVE AllOwned
  BY <1>r DEF AllOwned, At
<1>4. ASSUME NEW p \in Put, Author(p)  PROVE OwnedOnce /\ AllOwned
  BY <1>0, <1>4, <1>r, PutKeepsOwner DEF Author, OwnedOnce, PutUnit
<1>5. ASSUME NEW p \in Put, Repoint(p)  PROVE OwnedOnce /\ AllOwned
  BY <1>0, <1>5, <1>r, PutKeepsOwner DEF Repoint, OwnedOnce, RepointUnit
<1>6. ASSUME NEW t \in Tree, NEW pkg \in Remote, Checkout(t, pkg)
      PROVE  OwnedOnce /\ AllOwned
  BY <1>6, <1>f, <1>r DEF Checkout, storeVars, vars
<1>7. ASSUME UNCHANGED syncVars  PROVE OwnedOnce /\ AllOwned
  BY <1>7, <1>f, <1>r DEF syncVars, vars
<1> QED  BY <1>1, <1>2, <1>3, <1>4, <1>5, <1>6, <1>7 DEF SyncNext

----------------------------------------------------------------------------
(* Results *)

\* The tables, the runs, the directories and the sync log keep their types
\* through every interleaving of adoptions, pulls, pushes and crashes.
THEOREM SyncTypesCorrect ==
  SyncSpec => []SyncTypeOK
<1>1. SyncInv => SyncTypeOK
  BY DEF SyncInv, IInv, EngineTypeOK, SyncTypeOK
<1> QED  BY <1>1, SyncSoundness, PTL

\* Adopt reads the workspace-native rows and takes them in a later transaction:
\* in every interleaving with other adoptions, pulls, authors and crashes, no
\* row is lost, a row changes hands without a new payload only from the
\* workspace to a repository, every other column kept, and a run that goes on
\* owns every row it had read.
THEOREM AdoptionsAreExclusive ==
  SyncSpec => AdoptedOnce
<1> DEFINE Owned ==
      /\ \A f \in Referenced(Committed) :
           /\ refs'[f] # NoRef
           /\ refs'[f] # refs[f] /\ refs'[f].hash = refs[f].hash =>
                /\ refs[f].repo = Runtime
                /\ \E rp \in Repo \ {Runtime} : refs'[f] = [refs[f] EXCEPT !.repo = rp]
      /\ \A s \in Run :
           At(s, "reattribute") /\ run'[s].pc \notin {"reattribute", "idle"} =>
             \A f \in run[s].forms :
               /\ refs'[f].project = TreeProject[WorksIn[s]]
               /\ refs'[f].repo = TreeRepo[WorksIn[s]]
<1>1. SyncInv /\ [SyncNext]_syncVars => Owned
  BY StepOwnsOnce DEF OwnedOnce, AllOwned, KeptOrAdopted
<1>2. SyncSpec => [][Owned]_syncVars
  <2> HIDE DEF Owned
  <2> QED  BY <1>1, SyncSoundness, PTL DEF SyncSpec
<1> QED  BY <1>2 DEF AdoptedOnce

\* pullSnapshot: a pull that is skipped because its digest was recorded loses
\* nothing, after crashes between the puts and the log entry and after any
\* number of other runs: every unit is archived and, in a form that was never
\* rewound, part of the history of the form's reference.
THEOREM SkipsAreSound ==
  SyncSpec => []SkipLosesNothing
<1>1. SyncInv => SkipLosesNothing
  <2> SUFFICES ASSUME SyncInv, NEW t \in Tree, lastPull[t] # NoDigest,
                      NEW h \in lastPull[t]
               PROVE  /\ payloads[h] # Absent
                      /\ FormOf[h] \notin rewound =>
                           IsAncestor(payloads, h, refs[FormOf[h]].hash)
    BY DEF SkipLosesNothing
  <2>1. h \in Archived(Committed)
    BY DEF SyncInv, Seeded
  <2>2. LineageComplete(Committed, rewound)
    BY DEF SyncInv, IInv, Sound
  <2> QED  BY <2>1, <2>2 DEF LineageComplete, Archived, Committed
<1> QED  BY <1>1, SyncSoundness, PTL

\* Push: in a tree whose syncs are run one after the other, whatever a run is
\* interrupted by and whatever git checks out between the runs,
\* exchange/snapshots is absent or the whole of a package that was pushed or
\* came with git, with its header: staging that a crash left behind never
\* reaches it, and neither does the part of a package.
THEOREM SnapshotsAreWhole ==
  OneRunPerTree /\ SyncSpec => []SnapshotWhole
<1>1. SwapInv => SnapshotWhole
  BY DEF SwapInv, SnapshotWhole, Snapshot, NoneOrWhole, Holds
<1> SUFFICES ASSUME OneRunPerTree  PROVE SyncSpec => []SnapshotWhole
  OBVIOUS
<1>2. SyncInv /\ SwapInv /\ [SyncNext]_syncVars => SwapInv'
  BY SwapNext
<1> QED  BY <1>1, <1>2, SwapInit, SyncSoundness, PTL DEF SyncSpec

\* pull before push: where every sync that pushes pulls the snapshot first,
\* and syncs of a tree are run one after the other, a push never replaces
\* knowledge that is not in the store, whatever crashed before it and
\* whatever git brought between the runs.
THEOREM PushesReplaceOnlyPulled ==
  OneRunPerTree /\ PullThenPush /\ SyncSpec => ReplacedWasPulled
<1> SUFFICES ASSUME OneRunPerTree, PullThenPush  PROVE SyncSpec => ReplacedWasPulled
  OBVIOUS
<1> DEFINE AllPulled == \A s \in Run : Pulled(s)
           Kept == \A t \in Tree :
                     /\ Snapshot(t) # NoDir /\ Snapshot(t)' # Snapshot(t)
                     /\ \E s \in Run : WorksIn[s] = t /\ At(s, "aside")
                     => Snapshot(t) \ {Header} \subseteq Archived(Committed)
<1>1. SyncInit => AllPulled
  BY DEF SyncInit, Pulled, PulledAs, Idle
<1>2. SyncInv /\ AllPulled /\ [SyncNext]_syncVars => AllPulled'
  BY PulledNext
<1>3. AllPulled => Kept
  BY DEF Pulled, PulledAs, Snapshot, At
<1> HIDE DEF AllPulled
<1>4. SyncSpec => []AllPulled
  BY <1>1, <1>2, SyncSoundness, PTL DEF SyncSpec
<1>5. SyncSpec => [][Kept]_syncVars
  BY <1>3, <1>4, PTL
<1> QED  BY <1>5 DEF ReplacedWasPulled
=============================================================================
