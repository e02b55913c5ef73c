------------------------------ MODULE EkaSync ------------------------------
(***************************************************************************)
(* The sync engine (sync/sync.go, pull.go, push.go, adopt.go): runs that   *)
(* adopt, pull and push in that order, each run a process of its own over  *)
(* one working tree, all of them over the one canonical store of EkaStore. *)
(*                                                                         *)
(* A run is a sequence of store transactions and file operations with      *)
(* nothing that holds them together: it can end after any of them (Crash   *)
(* is an I/O error, a busy store or the end of the process), other runs    *)
(* and the authoring commands write the store in between, and git replaces *)
(* the snapshot of a tree while no run works in it.                        *)
(*                                                                         *)
(* A snapshot directory is the set of its files: Header (header.json) and  *)
(* one file per unit (its unit.json and its content).  A package is a set  *)
(* of payloads; its fingerprint is the package itself.  Attachments, the   *)
(* namespace checks and the legacy layout are left out.                    *)
(***************************************************************************)
EXTENDS EkaStore

CONSTANTS
  Tree,        \* working trees of registered repositories
  TreeRepo,    \* the repository a tree belongs to
  TreeProject, \* the project of that repository
  Docs,        \* the package the docs tree of a tree compiles to
  NoPackage,   \* ... or this, when the conformance gate refuses it
  Remote,      \* the packages git can put into a tree
  Run,         \* sync processes
  WorksIn,     \* the tree a process works in
  Modes,       \* the options a run is started with
  Rewindable,  \* forms that relate and the assignment commands repoint
  Header,      \* header.json of a package
  NoDir,       \* a directory that does not exist
  NoDigest     \* no pull was ever recorded

Package == SUBSET Payload

\* Options: AdoptBeforePush, Pull (from the snapshot or with FromDocs), Push.
Mode == [adopt : BOOLEAN, pull : {"no", "snapshot", "docs"}, push : BOOLEAN]

Dir == SUBSET (Payload \cup {Header})

ASSUME SyncAssumption ==
  /\ TreeRepo \in [Tree -> Repo \ {Runtime}]
  /\ TreeProject \in [Tree -> Project]
  /\ Docs \in [Tree -> {NoPackage} \cup Package]
  /\ Remote \subseteq Package
  /\ WorksIn \in [Run -> Tree]
  /\ Modes \subseteq Mode
  /\ Header \notin Payload
  /\ \A d \in Dir : d # NoDir
  /\ \A pkg \in Package : pkg # NoPackage /\ pkg # NoDigest

VARIABLES
  lastPull,  \* sync_log: the digest of the latest pull of a tree's repository
  disk,      \* exchange/{snapshots, .snapshots-tmp, .snapshots-old} of a tree
  run,       \* the sync processes
  meant      \* history: the packages that were pushed or came with git

syncVars == <<vars, lastPull, disk, run, meant>>

storeVars == vars

PullStep == {"load", "check", "seed", "put"}
PushStep == {"read", "clear", "stage", "old", "aside", "in", "drop"}

Pc == {"idle", "adopt", "reattribute"} \cup PullStep \cup PushStep

RunState ==
  [pc    : Pc,
   mode  : Mode,
   forms : SUBSET Form,                   \* workspace-native forms to adopt
   pkg   : Package,                       \* the package pulled or pushed
   todo  : Package,                       \* the units left to seed
   files : Dir,                           \* the files left to stage
   hand  : Package,                       \* the unit between its two seed steps
   clash : Package,                       \* Overwrites of the pull report
   kept  : Package]                       \* KeptNewer of the pull report

NoMode == [adopt |-> FALSE, pull |-> "no", push |-> FALSE]

Idle == [pc |-> "idle", mode |-> NoMode, forms |-> {}, pkg |-> {}, todo |-> {},
         files |-> {}, hand |-> {}, clash |-> {}, kept |-> {}]

SnapshotOf(pkg) == pkg \cup {Header}

SyncInit ==
  /\ Init
  /\ lastPull = [t \in Tree |-> NoDigest]
  /\ disk = [t \in Tree |-> [snap |-> NoDir, tmp |-> NoDir, old |-> NoDir]]
  /\ run = [s \in Run |-> Idle]
  /\ meant = Remote

----------------------------------------------------------------------------
(* The order of a run: adopt, pull, push *)

AfterPull(m)  == IF m.push THEN "read" ELSE "idle"
AfterAdopt(m) == IF m.pull # "no" THEN "load" ELSE AfterPull(m)
FirstStep(m)  == IF m.adopt THEN "adopt" ELSE AfterAdopt(m)

\* The run goes to the start of a phase, or ends.
Enter(s, phase) ==
  run' = [run EXCEPT ![s] =
            IF phase = "idle" THEN Idle
                              ELSE [Idle EXCEPT !.pc = phase, !.mode = run[s].mode]]

Goto(s, pc) == run' = [run EXCEPT ![s].pc = pc]

At(s, pc) == run[s].pc = pc

Begin(s, m) ==
  /\ At(s, "idle")
  /\ FirstStep(m) # "idle"
  /\ run' = [run EXCEPT ![s] = [Idle EXCEPT !.pc = FirstStep(m), !.mode = m]]
  /\ UNCHANGED <<storeVars, lastPull, disk, meant>>

\* An I/O error, a store that stays busy, or the end of the process: the run
\* leaves the store and the directories as they are.
Crash(s) ==
  /\ ~At(s, "idle")
  /\ Enter(s, "idle")
  /\ UNCHANGED <<storeVars, lastPull, disk, meant>>

----------------------------------------------------------------------------
(* Adopt: a read of the native rows, then one transaction over them *)

AdoptRead(s) ==
  LET native == NativeForms(TreeProject[WorksIn[s]])
  IN  /\ At(s, "adopt")
      /\ IF native = {}
           THEN Enter(s, AfterAdopt(run[s].mode))
           ELSE run' = [run EXCEPT ![s].pc = "reattribute", ![s].forms = native]
      /\ UNCHANGED <<storeVars, lastPull, disk, meant>>

\* Faulty variant: the rows are updated by form alone, whoever owns them now.
AdoptCommitStale(s) ==
  LET t == WorksIn[s]
  IN  /\ At(s, "reattribute")
      /\ Unlocked
      /\ Commit(Reattribute(Committed, run[s].forms, TreeRepo[t]))
      /\ Enter(s, AfterAdopt(run[s].mode))
      /\ UNCHANGED <<batch, rewound, lastPull, disk, meant>>

\* The transaction: every row that was read is looked up again by form, project
\* and provenance, deleted, and inserted for the repository.
AdoptCommit(s) ==
  LET t == WorksIn[s]
  IN  /\ At(s, "reattribute")
      /\ Unlocked
      /\ run[s].forms \subseteq NativeForms(TreeProject[t])
      /\ Commit(Reattribute(Committed, run[s].forms, TreeRepo[t]))
      /\ Enter(s, AfterAdopt(run[s].mode))
      /\ UNCHANGED <<batch, rewound, lastPull, disk, meant>>

\* A row that another process re-attributed since the read: "vanished
\* mid-transaction", the whole adoption is rolled back.
AdoptVanished(s) ==
  /\ At(s, "reattribute")
  /\ ~(run[s].forms \subseteq NativeForms(TreeProject[WorksIn[s]]))
  /\ Enter(s, "idle")
  /\ UNCHANGED <<storeVars, lastPull, disk, meant>>

----------------------------------------------------------------------------
(* Pull *)

Snapshot(t) == disk[t].snap

FromSnapshot(s) == run[s].mode.pull = "snapshot" /\ Snapshot(WorksIn[s]) # NoDir

\* Faulty variant: header.json is taken for a unit.
PullSnapshotAll(s) ==
  /\ At(s, "load") /\ FromSnapshot(s)
  /\ run' = [run EXCEPT ![s].pc = "check", ![s].pkg = Snapshot(WorksIn[s])]
  /\ UNCHANGED <<storeVars, lastPull, disk, meant>>

\* LoadSnapshot: the units of the directory; one without a header is refused.
PullSnapshot(s) ==
  LET files == Snapshot(WorksIn[s])
  IN  /\ At(s, "load") /\ FromSnapshot(s)
      /\ IF Header \in files
           THEN run' = [run EXCEPT ![s].pc = "check", ![s].pkg = files \ {Header}]
           ELSE Enter(s, "idle")
      /\ UNCHANGED <<storeVars, lastPull, disk, meant>>

\* Faulty variant: any earlier pull makes this one unchanged.
PullCheckAny(s) ==
  /\ At(s, "check")
  /\ IF lastPull[WorksIn[s]] # NoDigest
       THEN Enter(s, AfterPull(run[s].mode))
       ELSE run' = [run EXCEPT ![s].pc = "seed", ![s].todo = run[s].pkg]
  /\ UNCHANGED <<storeVars, lastPull, disk, meant>>

\* The digest of the last pull makes this one unchanged.
PullCheck(s) ==
  /\ At(s, "check")
  /\ IF lastPull[WorksIn[s]] = run[s].pkg
       THEN Enter(s, AfterPull(run[s].mode))
       ELSE run' = [run EXCEPT ![s].pc = "seed", ![s].todo = run[s].pkg]
  /\ UNCHANGED <<storeVars, lastPull, disk, meant>>

\* pullDocs: the compiled docs tree is seeded whatever was pulled before.
PullDocs(s) ==
  LET pkg == Docs[WorksIn[s]]
  IN  /\ At(s, "load") /\ ~FromSnapshot(s)
      /\ IF pkg = NoPackage
           THEN Enter(s, "idle")
           ELSE run' = [run EXCEPT ![s].pc = "seed", ![s].pkg = pkg, ![s].todo = pkg]
      /\ UNCHANGED <<storeVars, lastPull, disk, meant>>

PutOf(s, h) ==
  [payload |-> h, project |-> TreeProject[WorksIn[s]], repo |-> TreeRepo[WorksIn[s]]]

\* The identity belongs to another provenance pair, with other content.
Overwrites(s, h) ==
  LET row == refs[FormOf[h]]
  IN  /\ row # NoRef
      /\ <<row.project, row.repo>> # <<PutOf(s, h).project, PutOf(s, h).repo>>
      /\ row.hash # h

\* Conflict detection, one read; the put of the same unit is a transaction of
\* its own.
SeedLook(s) ==
  /\ At(s, "seed")
  /\ \E h \in run[s].todo :
       run' = [run EXCEPT ![s].pc = "put", ![s].todo = run[s].todo \ {h},
                 ![s].hand = {h},
                 ![s].clash = IF Overwrites(s, h) THEN @ \cup {h} ELSE @]
  /\ UNCHANGED <<storeVars, lastPull, disk, meant>>

SeedPut(s) ==
  /\ At(s, "put")
  /\ \E h \in run[s].hand :
       /\ PutUnit(PutOf(s, h))
       /\ run' = [run EXCEPT ![s].pc = "seed", ![s].hand = {},
                    ![s].kept = IF KeptNewer(Committed, PutOf(s, h), FALSE)
                                  THEN @ \cup {h} ELSE @]
  /\ UNCHANGED <<lastPull, disk, meant>>

\* A refused put ends the pull; the units before it stay seeded.
SeedRefused(s) ==
  /\ At(s, "put")
  /\ \E h \in run[s].hand : Refused(Committed, PutOf(s, h), FALSE)
  /\ Enter(s, "idle")
  /\ UNCHANGED <<storeVars, lastPull, disk, meant>>

\* Faulty variant: the sync log is written before the last unit is.
PullRecordEarly(s) ==
  /\ At(s, "seed")
  /\ lastPull' = [lastPull EXCEPT ![WorksIn[s]] = run[s].pkg]
  /\ Enter(s, AfterPull(run[s].mode))
  /\ UNCHANGED <<storeVars, disk, meant>>

\* RecordSync, when the last unit is in the store.
PullRecord(s) ==
  /\ At(s, "seed") /\ run[s].todo = {}
  /\ lastPull' = [lastPull EXCEPT ![WorksIn[s]] = run[s].pkg]
  /\ Enter(s, AfterPull(run[s].mode))
  /\ UNCHANGED <<storeVars, disk, meant>>

----------------------------------------------------------------------------
(* Push *)

\* store.Units: the payloads the references of the repository point at.
UnitsOf(t) ==
  {refs[f].hash : f \in {e \in Referenced(Committed) :
     refs[e].project = TreeProject[t] /\ refs[e].repo = TreeRepo[t]}}

PushRead(s) ==
  LET units == UnitsOf(WorksIn[s])
  IN  /\ At(s, "read")
      /\ IF units = {}
           THEN Enter(s, "idle") /\ UNCHANGED meant
           ELSE /\ run' = [run EXCEPT ![s].pc = "clear", ![s].pkg = units,
                                      ![s].files = SnapshotOf(units)]
                /\ meant' = meant \cup {units}
      /\ UNCHANGED <<storeVars, lastPull, disk>>

SetDisk(s, field, value) ==
  disk' = [disk EXCEPT ![WorksIn[s]] = [@ EXCEPT ![field] = value]]

\* Faulty variant: the staging directory of an earlier push is left there.
ClearStagingNot(s) ==
  /\ At(s, "clear")
  /\ Goto(s, "stage")
  /\ UNCHANGED <<storeVars, lastPull, disk, meant>>

ClearStaging(s) ==
  /\ At(s, "clear")
  /\ SetDisk(s, "tmp", NoDir)
  /\ Goto(s, "stage")
  /\ UNCHANGED <<storeVars, lastPull, meant>>

\* MkdirAll and WriteFile of the next entry, header.json before the units.
StageFile(s) ==
  LET tmp == disk[WorksIn[s]].tmp
  IN  /\ At(s, "stage")
      /\ \E f \in run[s].files :
           /\ Header \in run[s].files => f = Header
           /\ SetDisk(s, "tmp", (IF tmp = NoDir THEN {} ELSE tmp) \cup {f})
           /\ run' = [run EXCEPT ![s].files = @ \ {f}]
      /\ UNCHANGED <<storeVars, lastPull, meant>>

\* RemoveAll(.snapshots-old), before the swap.
ClearOld(s) ==
  /\ At(s, "stage") /\ run[s].files = {}
  /\ SetDisk(s, "old", NoDir)
  /\ Goto(s, "aside")
  /\ UNCHANGED <<storeVars, lastPull, meant>>

\* rename(snapshots, .snapshots-old) when there is a snapshot; a rename onto a
\* directory with files fails.
MoveAside(s) ==
  LET d == disk[WorksIn[s]]
  IN  /\ At(s, "aside")
      /\ IF d.snap = NoDir
           THEN Goto(s, "in") /\ UNCHANGED disk
           ELSE IF d.old # NoDir
           THEN Enter(s, "idle") /\ UNCHANGED disk
           ELSE /\ disk' = [disk EXCEPT ![WorksIn[s]] =
                              [d EXCEPT !.old = d.snap, !.snap = NoDir]]
                /\ Goto(s, "in")
      /\ UNCHANGED <<storeVars, lastPull, meant>>

\* rename(.snapshots-tmp, snapshots).
MoveIn(s) ==
  LET d == disk[WorksIn[s]]
  IN  /\ At(s, "in")
      /\ d.tmp # NoDir /\ d.snap = NoDir
      /\ disk' = [disk EXCEPT ![WorksIn[s]] = [d EXCEPT !.snap = d.tmp, !.tmp = NoDir]]
      /\ Goto(s, "drop")
      /\ UNCHANGED <<storeVars, lastPull, meant>>

\* Faulty variant: a failed rename is tried again from the swap.
MoveInRetries(s) ==
  /\ At(s, "in")
  /\ disk[WorksIn[s]].tmp = NoDir \/ disk[WorksIn[s]].snap # NoDir
  /\ Goto(s, "aside")
  /\ UNCHANGED <<storeVars, lastPull, disk, meant>>

\* The rename fails; the previous snapshot is restored (best effort).
MoveInFails(s) ==
  LET d == disk[WorksIn[s]]
  IN  /\ At(s, "in")
      /\ d.tmp = NoDir \/ d.snap # NoDir
      /\ disk' = IF d.old # NoDir /\ d.snap = NoDir
                   THEN [disk EXCEPT ![WorksIn[s]] =
                           [d EXCEPT !.snap = d.old, !.old = NoDir]]
                   ELSE disk
      /\ Enter(s, "idle")
      /\ UNCHANGED <<storeVars, lastPull, meant>>

\* RemoveAll(.snapshots-old); the push row of the sync log is read by no step.
DropOld(s) ==
  /\ At(s, "drop")
  /\ SetDisk(s, "old", NoDir)
  /\ Enter(s, "idle")
  /\ UNCHANGED <<storeVars, lastPull, meant>>

----------------------------------------------------------------------------
(* Everybody else *)

\* Transitions and publications write payloads nobody wrote before.
Author(p) ==
  /\ payloads[p.payload] = Absent
  /\ PutUnit(p)
  /\ UNCHANGED <<lastPull, disk, run, meant>>

\* Relate and the assignment commands, over any payload of the form.
Repoint(p) ==
  /\ FormOf[p.payload] \in Rewindable
  /\ RepointUnit(p)
  /\ UNCHANGED <<lastPull, disk, run, meant>>

\* git (checkout, pull, merge) puts another committed snapshot into a tree in
\* which no run works.
Checkout(t, pkg) ==
  /\ \A s \in Run : WorksIn[s] = t => At(s, "idle")
  /\ disk' = [disk EXCEPT ![t].snap = SnapshotOf(pkg)]
  /\ UNCHANGED <<storeVars, lastPull, run, meant>>

Progress(s) ==
  \/ AdoptRead(s) \/ AdoptCommit(s) \/ AdoptVanished(s)
  \/ PullSnapshot(s) \/ PullCheck(s) \/ PullDocs(s)
  \/ SeedLook(s) \/ SeedPut(s) \/ SeedRefused(s) \/ PullRecord(s)
  \/ PushRead(s) \/ ClearStaging(s) \/ StageFile(s) \/ ClearOld(s)
  \/ MoveAside(s) \/ MoveIn(s) \/ MoveInFails(s) \/ DropOld(s)

SyncNext ==
  \/ \E s \in Run, m \in Modes : Begin(s, m)
  \/ \E s \in Run : Progress(s)
  \/ \E s \in Run : Crash(s)
  \/ \E p \in Put : Author(p)
  \/ \E p \in Put : Repoint(p)
  \/ \E t \in Tree, pkg \in Remote : Checkout(t, pkg)

SyncSpec == SyncInit /\ [][SyncNext]_syncVars

\* A started run is executed: nothing in it waits for another process.
FairSyncSpec == SyncSpec /\ \A s \in Run : WF_syncVars(Progress(s))

----------------------------------------------------------------------------
(* Properties *)

\* Type invariant of the runs, the directories and the sync log.
SyncTypeOK ==
  /\ TypeOK
  /\ lastPull \in [Tree -> {NoDigest} \cup Package]
  /\ disk \in [Tree -> [snap : {NoDir} \cup Dir, tmp : {NoDir} \cup Dir,
                         old  : {NoDir} \cup Dir]]
  /\ run \in [Run -> RunState]
  /\ meant \subseteq Package

\* pull.go:30-35: the digest of the last pull is recorded only for packages
\* whose every unit is in the store, so that the skip of an unchanged pull
\* loses nothing: its units are archived, and those of a form that was never
\* rewound lie in the lineage of the form's reference.
SkipLosesNothing ==
  \A t \in Tree : lastPull[t] # NoDigest =>
    \A h \in lastPull[t] :
      /\ payloads[h] # Absent
      /\ FormOf[h] \notin rewound =>
           IsAncestor(payloads, h, refs[FormOf[h]].hash)

\* push.go:31-37: whatever a run is interrupted by, exchange/snapshots is
\* absent or a whole package: never the part of one, or a mixture of two.
SnapshotWhole ==
  \A t \in Tree : Snapshot(t) # NoDir =>
    \E pkg \in meant : Snapshot(t) = SnapshotOf(pkg)

\* pull.go and push.go in one run: a snapshot that the push of a run replaces
\* was pulled by that run or by one before it, so what it held is archived.
ReplacedWasPulled ==
  [][\A t \in Tree :
       /\ Snapshot(t) # NoDir /\ Snapshot(t)' # Snapshot(t)
       /\ \E s \in Run : WorksIn[s] = t /\ At(s, "aside")
       => Snapshot(t) \ {Header} \subseteq Archived(Committed)]_syncVars

\* Every run ends, however runs, authors and git interfere.
RunsEnd == \A s \in Run : ~At(s, "idle") ~> At(s, "idle")

\* adopt.go:124-134, 226-248: a run reads the workspace-native rows and takes
\* them in a later transaction.  Whatever other runs adopted or pulled in
\* between, no row is lost, one changes hands without a new payload only from
\* the workspace, every other column verbatim, and a run that goes on owns
\* every row it read.
AdoptedOnce ==
  [][/\ \A f \in Referenced(Committed) :
          /\ refs'[f] # NoRef
          /\ refs'[f] # refs[f] /\ refs'[f].hash = refs[f].hash =>
               /\ refs[f].repo = Runtime
               /\ \E rp \in Repo \ {Runtime} : refs'[f] = [refs[f] EXCEPT !.repo = rp]
     /\ \A s \in Run :
          At(s, "reattribute") /\ run'[s].pc \notin {"reattribute", "idle"} =>
            \A f \in run[s].forms :
              /\ refs'[f].project = TreeProject[WorksIn[s]]
              /\ refs'[f].repo = TreeRepo[WorksIn[s]]]_syncVars

----------------------------------------------------------------------------
(* What comments and tests say, and the code does not do *)

\* push.go:34-36: a failure before the final rename leaves the previous
\* snapshot intact, or recoverable in .snapshots-old: a tree that has had a
\* snapshot has it in one of the two directories.
PreviousRecoverable ==
  [][\A t \in Tree :
       disk[t].snap # NoDir \/ disk[t].old # NoDir
       => disk'[t].snap # NoDir \/ disk'[t].old # NoDir]_syncVars

\* sync_test.go:667-669: "Last-wins is symmetric ... the store keeps the last
\* pull": an identity the report lists as overwritten was not kept.
OverwriteTookEffect == \A s \in Run : run[s].clash \cap run[s].kept = {}
=============================================================================
