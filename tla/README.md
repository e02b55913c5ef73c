# eka-core in TLA+

TLA+ specifications of the parts of eka-core that keep state or decide what may
become state: the canonical store, the sync engine over it, the authoring and
transition commands, the conformance gates they pass, the exchange of packages,
and the workspace with its registry. TLC checks them on small instances, and
TLAPS proves the theorems of section 4 for every value of the constants.

Paths such as `store/payloads.go:192` are relative to the repository root.

## 1. The system

eka-core keeps Engineering Knowledge (plans, containers, tickets, work items,
decisions, notes) as immutable *payloads* in one SQLite database per workspace.
A *form* `<ns>/<type>:<id>:<version>` is an instance of an artifact *line*; the
table `object_refs` maps each form to the payload that is its current state,
with its provenance (project, source repository) and its issue number. The
library has no server: every `eka` command is an operating-system process that
opens the database, reads what it needs in several statements, and writes in one
transaction. Working trees exchange knowledge through git, in the directory
`exchange/snapshots` of each repository, and through packages.

| component | state it keeps | operations | interacts with | module |
|---|---|---|---|---|
| **store** (`store/`) | `object_payloads` (hash, prev_hash), `object_refs`, numbers, `sync_log`, attachments, schema version | `PutUnit`, `RepointUnit`, `PutUnits`, reads by form, line, project or repository, integrity report, migration | written by sync, runtime and exchange | EkaStore, EkaArchive; migration: EkaWorkspace |
| **sync** (`sync/`) | `exchange/snapshots`, `.snapshots-tmp`, `.snapshots-old`, the last pull digest | adopt, pull, push, repair, and a run that does the first three in order | store transactions; the registry; git replaces the snapshot between runs | EkaSync; the resolution of the repository: EkaWorkspace |
| **runtime: transitions** (`runtime/transition.go`, `container.go`) | none: the line's unit in the store | `Transition` in four state domains, with its gates; the plan lock of an activation | many store reads, one put or batch; drafts directory | EkaTransition |
| **runtime: authoring** (`runtime/draft.go`, `batch.go`, `note*.go`, `relate.go`) | JSON files under `EKA_HOME/drafts/<project>` | create, edit, discard, publish (one, inline, batch), note, reply, resolve, relate | files, then a put or a repoint; the publication gate | EkaAuthoring |
| **conformance** (`conformance/`) | none | parser, rules R1-R13, the repository and the publication gate, state tables | called by publish, relate, import | EkaTaxonomy, EkaConformance, EkaPublication |
| **exchange** (`exchange/`) | packages on disk | export, load, import (with rollback), codecs | the tree under `docs/`, the repository gate | EkaExchange |
| **workspace** (`workspace/`, `metadata/`) | `workspace.json`, tables of projects and repositories, `eka.yaml` | open, register, unregister, find | registry database, working trees | EkaWorkspace |
| **runtime: read services, capture** | none | queries, a classifier | store | - |
| **contexts, view, machine, codegraph, plugin, compile** | none | projections, pagination, parsing, external commands | pure or I/O | - |

### What is hard here

* **Check, then act.** No command holds a transaction over its pipeline: gates
  are evaluated on reads that another process may overtake (activation,
  retirement, note gates, transitions, relate, publish, adopt, registration).
* **Forward-only references.** A pull may bring any older payload back. The
  store recognises it by walking `prev_hash`, which only works while every
  payload of a form is linked - and `RepointUnit` may move a form backwards.
* **Partial runs.** A sync run is a sequence of transactions and renames, an
  import one of file writes, a registration one of statements. Each can end
  after any of them and the next run starts from what is left.
* **Rollback by path.** A batch of drafts and an import undo what they created
  by removing paths, while the author goes on writing.
* **Two places for one thing.** A note is a draft file and then a unit; a
  snapshot is a directory and then another; a repository's namespace is in
  `eka.yaml`, in the registry, in its content and in memory.
* **Two gates for one rule.** A unit is validated alone when it is published and
  with the whole repository in a tree: the two should agree.

The list of hazards, each at its line, is in `PROJECT.json`.

### What makes each component correct

* store: references resolve; payloads are written once; `prev_hash` is a
  cycle-free, complete chain per form; references never go back unless a repoint
  rewound the form; numbers are unique; seen from outside, it is an archive that
  grows, with a head per form.
* sync: an unchanged pull is skipped only if nothing is lost; the snapshot
  directory is a whole package; a push replaces only what was pulled; a unit that
  two trees carry is adopted by one of them; runs end.
* transitions: change logs are paths of the state tables; an active container
  has its locked plan; one active container per repository with disjoint plan
  closures; gates hold when they are passed; retired plans are idle.
* authoring: what is published keeps its content; what a batch publishes leads
  to what is published; a refusal leaves nothing behind; a resolution covers the
  draft and the instance the gates read; commands end.
* conformance: what the publication gate accepts unit by unit the repository
  gate accepts as a whole; a dangling reference is a draft's promise; the chain
  rule computes reachability.
* exchange: what is loaded was exported as a whole; the author's files are never
  touched; a refused import leaves no trace; export after import gives the unit
  back; an interrupted commit can be completed.
* workspace: a repository has its project and a path of its own; every process
  that has opened the store works on the current schema; no knowledge is lost to
  a migration or a removal; an undisturbed command leaves a registry that says
  what the tree says.

## 2. Modules

```
EkaLemmas          facts on least and greatest elements, for the proofs
EkaArchive         the store's promise, without tables or transactions
EkaStoreOps        operators on a database value: one put, one re-attribution
  EkaStore         the store; implements EkaArchive
    MCEkaStore, EkaStoreProofs
    EkaSync        sync runs over EkaStore (EXTENDS it)
      MCEkaSync, EkaSyncProofs
EkaLines           state tables, units with change logs, the put they see
  EkaTransition    transition commands as processes
    MCEkaTransition, EkaTransitionProofs
EkaAuthoring       authoring commands as processes over draft files and store
  MCEkaAuthoring, EkaAuthoringProofs
EkaTaxonomy        artifact types, states, domains, strata, sections, numbering
  EkaConformance   the rules R0-R13 and the two gates
    EkaPublication   drafting and publishing through the gates; the chain walk
      MCEkaPublication, EkaPublicationProofs
    EkaExchange      export and import of packages over the repository gate
      MCEkaExchange, EkaExchangeProofs
EkaWorkspace       workspace, registry, migration, resolution of a repository
  MCEkaWorkspace, EkaWorkspaceProofs
```

### EkaStoreOps, EkaStore and EkaArchive

`db = [payloads, refs]` are the two tables: `payloads[h]` is the `prev_hash`
column of payload `h` (`Root` for the empty string, `Absent` for no row) and
`refs[f]` the row of form `f`. `PutTx` is `putUnitTx`: `Archive` is the insert
with ON CONFLICT DO NOTHING, `KeptNewer` the forward-only guard with the walk of
`isAncestor`, `Upsert` the row that is written, `NextNumber` the allocation and
`Refused` the unique index. A payload stands for its bytes and its SHA-256, which
is taken to be injective.

The actions of EkaStore are `PutUnit`, `RepointUnit`, `BatchPut` / `BatchCommit` /
`BatchRollback` (`PutUnits`: its writes are in a database of its own until the
commit) and `Adopt` (the transaction of `sync/adopt.go`). SQLite admits one
writer, so a single put is one step, and an open batch blocks the others.
`rewound` is a history variable: the forms a repoint has moved back to a payload
the archive already held.

EkaArchive is what a reader of the store needs to know: sets of payloads are
committed whole, a payload the archive did not hold becomes its form's current
one, one that it held never does again unless the form was rewound. `IsAnArchive`
states that EkaStore implements it, with the committed payloads as archive and
the references as heads.

### EkaSync

A process per sync run, over the variables of EkaStore. `pc` walks through adopt
(`AdoptRead`, `AdoptCommit` or `AdoptVanished`), pull (`PullSnapshot` or
`PullDocs`, `PullCheck`, then per unit `SeedLook` and `SeedPut`, and
`PullRecord`) and push (`PushRead`, `ClearStaging`, `StageFile`, `ClearOld`,
`MoveAside`, `MoveIn` or `MoveInFails`, `DropOld`); each is one store statement,
one transaction or one file operation of the code, so that others can act in
between. `Crash` ends a run after any step. `Author`, `Repoint` and `Checkout`
are the authoring commands and git. A directory is the set of its files
(`Header` and one per unit).

The store's variables are EkaStore's, and by construction every action writes them
with one of its transactions or leaves them alone (`EngineStepIsStoreStep`): that
is no property of the engine, but it lifts the invariants of EkaStore to it.
`AdoptCommit` is the transaction of `sync/adopt.go` itself, which looks up again
the rows `AdoptRead` found; `AdoptedOnce` says what that second look is for.

### EkaLines and EkaTransition

A unit is the state of its type's domain with its change log; relationships are
constants. `store` holds the current unit of each form, every payload ever
written for it, and its provenance. `Write` is `PutUnit` seen from here: a
payload already archived moves nothing (no repoint is part of this module, so the
guard of EkaStore keeps every archived payload from moving the reference).

A process per authority runs one command at a time: `ReadLine` (the current
unit, and the request against the state table), then the gates of the
destination, each read a step:

| target | steps | code |
|---|---|---|
| work item | `CollectStored`, `CollectDrafts`, `Membership`, `Put` | `collectGateNotes` (two reads), `gateViolations`, `registeredInActiveContainer`, `PutUnit` |
| container, active | `ScanRefs`, `ScanUnit` per row, `ActivationGate`, `ReadPlan`, `Activate` | `otherActiveContainers` (rows, then units), `planClosure`, `lockPlanPuts`, `PutUnits` |
| container, completed | `CompletionGate` or `CompletionUnread`, `Put` | `containerWorkItems`, `publishStateTransition` |
| plan, superseded | `RetireGate`, `Put` | `activeContainersForPlan` |
| adr, superseded | `ReplacedGate`, `Put` | `hasSuperseder` |
| others | `Put` | `publishStateTransition` |

`Stop` ends a command after any step. `Publish`, `DraftNote`, `ResolveDraft`,
`PostNote` and `RemoveNoteDraft` are what other commands do to the lines and
notes the gates read; `PostNote` puts the unit and a later step removes the
draft, as `Publish` in `runtime/draft.go` does.

### EkaAuthoring

`file[l]` is the draft file of a line (`Gone`, `Torn` or its content),
`head[l][v]` the current payload of an instance and `past[l][v]` its archive. A
content is told apart by the creation it stems from (`ticket`), the editor saves
since, its references and whether it is an open note. `proc[a]` is the command an
author has under way: its verb, where it stands, and what it has read.

| command | steps | code |
|---|---|---|
| `eka new`, its batch | `New`, `Create` per draft or `CreateFails`, `Rollback` per draft, `RolledBack` | `NewDraftBatch`, `newDraftFile` (O_EXCL), `rollbackCreated` |
| `note`, `reply` | `NoteDraft` / `ResolveWithReply`, `Derive`, `Create` | `deriveNoteID`, `deriveReplyID` |
| `publish` | `Publish`, `Scan`, `AssignVersion`, `Validate`, `PutUnit`, `RemoveDraft` | `Publish`, `persistPublishedUnit`, `removeDraftAfterPublish` |
| inline publication | `PublishInline`, then as `publish` without a file | `PublishInline` |
| batch publication | `PublishBatch`, `ListDrafts`, `CheckEdges`, then per draft `NextDraft` and the steps of `publish` | `PublishBatch`, `batchTopoOrder` |
| `relate` | `Relate`, then `ReadCurrent`, `RelateGate`, `Repoint` or `Reread`, `Rewrite` | `relatePublished`, `relateDraft` |
| resolution | `ResolveNote`, `StatDraft`, then `Redraft` or `CheckInstances`, `ReadBase` and a publication | `ResolveNote`, `resolveDraftNote`, `resolvePublishedNote` |
| `discard`, the editor | `DiscardDraft`, `EditDraft` | `DiscardDraft`; the editor is outside the repository |

`may` says which verbs an author uses in a session; "cmt" is not a command but the
permission to name note lines to `eka new` and inline publication. `Crash` ends a command after any step, and `CrashTorn` between the opening of a
file and its writing.

### EkaTaxonomy, EkaConformance and EkaPublication

EkaTaxonomy is the table of `conformance/state.go` and `domain.go`: types, value
sets, the two transition tables, strata, sections and numbering groups.
EkaConformance has one operator per rule, the condition under which it reports
nothing that blocks, given what the engine sees: `Repository(set)` is an index of
the artifacts of a tree, `Publication(a, store, drafts)` the index of one unit with
the store behind its resolver and the lines that are drafts. `Refusals(set)` is
`Validate`, `Accepts(a, store, drafts)` is `ValidateCKO`. EkaPublication
drives them: `NewDraft`, `DiscardDraft`, `Publish` and `PublishInline` through the
publication gate, and the walk of rule 10 with its queue and visited set, one
dequeue a step (`StartWalk`, `Visit`, `Exhausted`, `EndWalk`).

### EkaExchange

A package is a function from entry name to data; an export (`ExportBegin`,
`ExportWrite` per entry, `ExportStops`) writes it entry by entry into what may
already be there. An import is `ImportGate` (the target must pass `Validate`),
`ImportLoad` (digests, self-consistency, the checks of `decode.go`),
`ImportClassify`, `ImportPlan`, one `ImportWrite` per operation in commit order or
`ImportWriteFails`, `ImportValidate`, and on failure `RollbackFile` per created
file and `RollbackFolders`. `AuthorEdit` is the author of the target at work, and
`ImportCrash` ends the import anywhere. The tree's artifacts are those of
EkaConformance with a text; `ToUnit` and `ArtifactFrom` are the two conversions,
by what they do to references and states. `without` and `foldersWithout` are
history variables: the files and the folders of the tree as they would be
without the import.

### EkaWorkspace

`metaFile` is `workspace.json` (a file is truncated, then written), `db` the
registry tables with the schema version, and per provenance the rows of v1 and
the units of v2; `eka` and `content` are the working trees. A process begins a
command and walks through: `MetaRead`, `MetaCreate`, `MetaWrite`, `OpenStore`,
`Migrate` (`Ensure`, `migrate`); `Gate` or `GateLegacy`; for a sync `Detect`,
`AlignBegin`, `AlignWrite` (the namespace reconciliation and the rewriting of
`eka.yaml`), `Resolve`, `SetNamespace`, `RefreshPath`; for a registration
`CheckOwner`, `InsertProject`, `InsertRepo`; `PullUnits`, `PushCheck`,
`PushNamespace` for the use of the record by pull and push; `DeleteRepo`,
`CountRepos`, `DeleteRepos`, `DropProject` for removals. Every SQL statement is a
step, since none of the commands has a transaction around them; `Busy` is a
statement that finds the database locked, `Crash` the end of a process, and
`EditTree` the user or git.

## 3. Runs

`SYMMETRY` is used where the permuted constants are interchangeable in the
specification and in the run's properties. `CHECK_DEADLOCK FALSE` stands in runs
whose system stops: lifecycles end, logs and payload sets are finite, and the
commands of an instance are counted.

### Properties that hold

| run | question | bounds |
|---|---|---|
| `store_transactions` | `TypeOK ArchiveSound HistoryIsLinked NumbersSound WrittenOnce IsAnArchive`: do lineages stay complete and references forward-only under puts, repoints, batches and adoptions in any order, and is the store the archive it promises to be? | one form with three payloads (the least that has an ancestor which is not the predecessor) and two with one, all of one number group; two projects, so that rows move both ways; a row of an older schema; batches of two |
| `sync_crash` | `SyncTypeOK SnapshotWhole ReplacedWasPulled`: full runs that may end anywhere, authors writing, git replacing the snapshot | one tree, one run at a time, two remote packages, three payloads of two forms |
| `sync_pulls` | `SkipLosesNothing AdoptedOnce`: two trees carry the same identity | two trees of one project, a run in each, repoints |
| `sync_pushes` | `RunsEnd`: two pushes share the directories of a tree | one tree, two push runs, two payloads, crashes at every step |
| `trans_serial` | `OneActivePerRepo ActiveClosuresDisjoint DoneSeesOpenNotes SupersededIsDone CompletedWhenDone` for commands one after the other | one of four sets of lines: three containers and plans (q2 depends on q1), two repositories and a second instance of a container; a work item with its container and two notes that are drafted, resolved and published at any time; a container and two instances of its plan; two decisions |
| `trans_parallel` | `TransitionTypeOK LogsReplay ActiveHasLock` for two commands at once | either two containers of one plan with failing reads, or a work item whose note is drafted, resolved and published in between; logs of two entries |
| `publish_gates` | `DanglingIsPromised GatesAgree ChainRuleExact`: do the two gates agree on whatever is published in any order? | eleven units the gates may accept (two epics refer to each other, a plan has two instances), seven that one must refuse for seven different reasons, one whose reference is pinned to a plan that has to be published first, two lines that may be drafted |
| `authoring` | `BatchIsCoherent RefusedLeavesNothing ResolutionCoversLine PublishedStays CommandsEnd` | six kinds of session: one author with every command; two who create and publish the same drafts while one relates what is published; one with notes and replies; one with an editor; one who drafts and publishes a note line again with `eka new`, before and after its resolution; a batch whose drafts another author relates and discards meanwhile. Plan and container are strict lines. Two instances of a line, two creations of a note, one save; crashes at every step |
| `exchange` | `LoadedIsExported AuthorKept CleanRefusal RoundTrip CommitKeepsGate ImportEnds` | two states of the exporting repository and four packages (a chain of five units over three strata with a pinned reference, a part of it, two epics in a circle, a package with a note), three target trees, an author's draft and an author's mistake; one export, two imports, one edit, one crash |
| `workspace` | `WorkspaceTypeOK RegistryIntact OpenedIsCurrent KnowledgeKept SyncAgrees` | two processes, two directories and one below; a fresh, an unrecorded, a v1 and a current database; worktrees of one repository, two repositories, or directories without identity; three commands or edits, one crash |

The bounds are the smallest at which the interesting step happens: every action
of a specification fires in its runs, and for each property there is a mutant of
the code (`PROJECT.json`, "mutants") that TLC refutes under the same
configuration, so no instance is too small for the property to be broken in.

Three properties of the workspace are theorems only, no run repeats them:
`OwnerKept`, `FrozenAlone` and `NoEmptyProject` (`OwnersAreKept`,
`NamespacesAreFrozen`, `ProjectsStayInhabited`).

### What comments say and the code does not do

Each of these runs checks one sentence of the repository, and TLC finds a
behaviour that contradicts it. `PROJECT.json`, "findings", quotes the sentences.

| run | behaviour |
|---|---|
| `publish_upward` | a container that supersedes a decision passes the publication gate: rule 12 looks its target up in an index that holds the validated unit only |
| `authoring_resolved_again` | resolving a published note twice publishes a third instance: the second resolution still takes the first instance for the current one |

Further configurations reproduce disagreements of the same kind; they are kept
beside the runs, and TLC reports a violation of the property each names.

| configuration | property | behaviour |
|---|---|---|
| `store_line_numbers` | `OneNumberPerLine` | two instance versions of one line carry two numbers |
| `store_regress` | `StaleReseedInert` | after a repoint to an ancestor, re-seeding the payload the line has left moves the reference |
| `sync_recover` | `PreviousRecoverable` | an interrupted push and a second push leave the previous snapshot in neither directory |
| `sync_two_pushes` | `SnapshotWhole` | two pushes of a tree rename a part of a package into place |
| `sync_overwrite` | `OverwriteTookEffect` | a pull reports an identity as overwritten although the store kept it |
| `trans_two_active` | `OneActivePerRepo`, `HistoryKept` | two activations of one repository pass the gate together; of two commands on one line the later put drops the entry of the earlier (with `-continue` TLC reports both) |
| `trans_moving_note` | `DoneSeesEveryNote` | an open note is missed by the done gate when it is published and leaves the drafts between the two reads of the gate |
| `trans_old_instance` | `UnwarnedIsRegistered` | an old instance that is active counts as the current active container |
| `trans_unread` | `CompletedWhenDone` | a failed read of the project passes the completion gate |
| `authoring_ticket` | `TicketIsSingleUse`, `RemovedIsArchived` | two publications of one draft make two instances of it; a draft that is saved after a publication read it is removed unpublished (with `-continue` TLC reports both) |
| `authoring_batch_edge` | `BatchPublishesClosed` | a batch lists its drafts, another author adds a reference to one of them, and the publication, which reads the draft again, takes it although its target is only drafted: the published set is not coherent (`runtime/batch.go:263`) |
| `authoring_missed_instance` | `ResolutionCoversAll` | a note that was published as resolved is drafted again with `eka new` and published: its current instance is open, and a resolution reports that there is nothing to do (`resolvePublishedNote` looks at the first) |
| `authoring_lost_edge` | `PublishedStays` | two authors relate one line: the later repoint drops the edge of the earlier |
| `exchange_two_units` | `ImportedIsThere` | two units of one package have one file path: one of them is not there |
| `exchange_resume` | `AnyCommitKeepsGate` | a superseded decision is written before what replaces it: after a crash the next import refuses the tree |
| `exchange_race` | `AuthorKept` | a file the author creates between plan and write is overwritten |
| `workspace_torn` | `EnsureIsIdempotent` | a process killed while it writes `workspace.json` leaves a workspace no command opens again |
| `workspace_frozen` | `Frozen` | two first syncs with different namespaces: the second replaces the frozen one |
| `workspace_stuck` | `AlignedAgrees` | a crash between the rewriting of `eka.yaml` and the row leaves a tree that every sync refuses |

`trans_two_active` and `authoring_lost_edge` break rules that hold of commands
that do not overlap (`OneActivePerRepo` is checked and proved of them): the rules
hold for one user at a time, and nothing in the store enforces them. Under one user
nothing moves a form between the read of a command and its put, so `HistoryKept` is
stated for its violation only.

Reading the code for the models showed more of the same, which no configuration
reproduces:

* store: a row of schema v3 keeps number 0 when it is written again; an
  overwriting put may be refused because of the number it carries along; a number
  is given to a second line after the first has moved to another project.
* transitions: publishing a plan joins the closures of two active containers;
  a work item published as done is not gated by its open notes.
* authoring: `deriveNoteID` and `deriveReplyID` take a store failure for a taken
  id and go on for as long as it lasts; a draft beside a published, open note is
  an obstacle to the draft the resolution creates (O_EXCL), against the comment
  at `runtime/note_resolve.go:317`; a batch reports a draft that was discarded as
  published by another run; a rollback by path may remove another author's draft,
  and a relate or a resolution of a draft may bring back what a rollback removed
  (`os.WriteFile` creates the file again); in the run the drafts that are related
  beside a rollback are not the ones it removes.
* conformance: in repository mode rule 5 does not see a second instance that
  refers to its own line; a chain of rule 10 runs through the lowest instance of
  a line; the publication gate always refuses a superseded decision.
* exchange: a draft that was imported with unresolved references conflicts with
  itself at the next import; a crash leaves `.eka-import-*.tmp` files, which the
  next export carries as attachments; an export into a directory may leave a part
  of a package (the comment in `write.go` speaks of none), which the loader
  refuses; notes are exported, and never importable; the reference of a unit that
  is already there may resolve to an instance the import has brought.
* workspace: a registration that fails between its two inserts leaves an empty
  project without a crash, which a comment in `workspace/project.go` calls the only
  way to one; a second directory of the same name, without an identity, takes over
  the registration of the first; the rewriting of `eka.yaml` drops its capture block; a repository
  registered again keeps its old namespace; the refresh of a path whose row is
  gone does nothing and reports nothing; registry statements are not retried when
  the database is locked, as those of the store are.

### Fairness

* `FairSyncSpec`: weak fairness of `Progress(s)`, the next step of a started sync
  run. A run is a sequential Go function; it waits for no other process (store
  contention ends it with an error, which is `Crash`), so the operating system's
  scheduling of a live process is all that is needed.
* EkaAuthoring, `FairSpec`: weak fairness of `Step(a)`, the next step of a
  command under way, for the same reason. `ScanRetries`, the mutant of a batch
  that waits for a draft, shows that `CommandsEnd` depends on the code.
* EkaExchange, `Spec`: weak fairness of `Import`, the steps of an import under
  way. Exports, edits and crashes get none.

`Crash`, the beginning of commands, authors, editors and git get no fairness
anywhere. The other specifications have none: they have no liveness property.

## 4. Proofs

| theorem | statement |
|---|---|
| `EkaStoreProofs!TypeCorrect` | `Spec => []TypeOK` |
| `EkaStoreProofs!ArchiveIsSound` | `Spec => []ArchiveSound` |
| `EkaStoreProofs!HistoryStaysLinked` | `Spec => []HistoryIsLinked` |
| `EkaStoreProofs!NumbersAreSound` | `Spec => []NumbersSound` |
| `EkaStoreProofs!PayloadsWrittenOnce` | `Spec => WrittenOnce` |
| `EkaStoreProofs!ReferencesForwardOnly` | `Spec => ForwardOnly` |
| `EkaStoreProofs!StoreImplementsArchive` | `Spec => IsAnArchive` |
| `EkaSyncProofs!SyncTypesCorrect` | `SyncSpec => []SyncTypeOK` |
| `EkaSyncProofs!AdoptionsAreExclusive` | `SyncSpec => AdoptedOnce` |
| `EkaSyncProofs!SkipsAreSound` | `SyncSpec => []SkipLosesNothing` |
| `EkaSyncProofs!SnapshotsAreWhole` | `OneRunPerTree /\ SyncSpec => []SnapshotWhole` |
| `EkaSyncProofs!PushesReplaceOnlyPulled` | `OneRunPerTree /\ PullThenPush /\ SyncSpec => ReplacedWasPulled` |
| `EkaTransitionProofs!TransitionTypesCorrect` | `TransitionSpec => []TransitionTypeOK` |
| `EkaTransitionProofs!EveryLogReplays` | `TransitionSpec => []LogsReplay` |
| `EkaTransitionProofs!ActivationLocks` | `TransitionSpec => []ActiveHasLock` |
| `EkaTransitionProofs!DoneGateSeesNotes` | `TransitionSpec => []DoneSeesOpenNotes` |
| `EkaTransitionProofs!OneActive` | `OneAuthority /\ TransitionSpec => []OneActivePerRepo` |
| `EkaTransitionProofs!ClosuresStayDisjoint` | `OneAuthority /\ ClosuresFixed /\ TransitionSpec => []ActiveClosuresDisjoint` |
| `EkaTransitionProofs!SupersededStaysDone` | `OneAuthority /\ TransitionSpec => []SupersededIsDone` |
| `EkaTransitionProofs!CompletionsAreDone` | `OneAuthority /\ ItemsFixed /\ ~ReadFaults /\ TransitionSpec => CompletedWhenDone` |
| `EkaAuthoringProofs!AuthoringTypesCorrect` | `Spec => []AuthoringTypeOK` |
| `EkaAuthoringProofs!BatchesAreCoherent` | `Spec => []BatchIsCoherent` |
| `EkaAuthoringProofs!PublishedContentStays` | `OneStoreAuthor /\ Spec => PublishedStays` |
| `EkaAuthoringProofs!RefusedBatchesLeaveNothing` | `NobodyRewrites /\ Spec => []RefusedLeavesNothing` |
| `EkaAuthoringProofs!ResolutionsCoverTheLine` | `OneResolver /\ Spec => []ResolutionCoversLine` |
| `EkaPublicationProofs!PromisesAreKept` | `PublicationSpec => []DanglingIsPromised` |
| `EkaPublicationProofs!TheGatesAgree` | `PublicationSpec => []GatesAgree` |
| `EkaPublicationProofs!ChainRuleIsExact` | `PublicationSpec => []ChainRuleExact` |
| `EkaExchangeProofs!LoadsWhatWasExported` | `Spec => []LoadedIsExported` |
| `EkaExchangeProofs!AuthorIsKept` | `Init /\ [][ApartNext]_vars => []AuthorKept` |
| `EkaExchangeProofs!RefusalIsClean` | `Init /\ [][ApartNext]_vars => []CleanRefusal` |
| `EkaExchangeProofs!RoundTripIsLossless` | `Spec => []RoundTrip` |
| `EkaExchangeProofs!CommitCanBeResumed` | `Spec => []CommitKeepsGate` |
| `EkaWorkspaceProofs!WorkspaceTypesCorrect` | `Spec => []WorkspaceTypeOK` |
| `EkaWorkspaceProofs!RegistryStaysIntact` | `Spec => []RegistryIntact` |
| `EkaWorkspaceProofs!OpenedStoresAreCurrent` | `Spec => []OpenedIsCurrent` |
| `EkaWorkspaceProofs!KnowledgeIsKept` | `Spec => KnowledgeKept` |
| `EkaWorkspaceProofs!OwnersAreKept` | `Spec => OwnerKept` |
| `EkaWorkspaceProofs!SyncsAgree` | `Spec => SyncAgrees` |
| `EkaWorkspaceProofs!NamespacesAreFrozen` | `Spec => FrozenAlone` |
| `EkaWorkspaceProofs!ProjectsStayInhabited` | `Spec => NoEmptyProject` |

The assumptions are those of the modules (`StoreAssumption`, `NoRefAssumption`,
`LegacyAssumption`, `NoBatchAssumption`, `SyncAssumption`, `LinesAssumption`,
`NoUnitAssumption`, `TransitionAssumption`, `AuthoringAssumption`,
`PublicationAssumption`, `ExchangeAssumption`, `PathAssumption`,
`WorkspaceAssumption`): the constants have the types their comments give them,
markers differ from what they stand beside, a migrated database has one payload
per form, a unit lies in the file of its identity, a tree is a map from paths to
files, and a database found on disk has a registry that the program could have
written, with objects in the tables of v1 only. Form is finite because allocation
takes a maximum.

**Store.** The inductive invariant is `Sound` of the committed tables and of an
open batch, with the types. None of its parts is inductive alone: that a put keeps
the lineage complete (`PutComplete`) needs references that resolve to their own
form (or the new payload would be chained into another line), and that it keeps
the chains cycle-free (`PutAcyclic`) needs predecessors to be archived (a new row
is then nobody's predecessor). A batch adds `BatchExtends`: what it is about to
commit keeps every committed row, which gives `WrittenOnce` and `ForwardOnly` at
its commit. Ancestry is stated by predecessor-closed sets rather than by
recursion, so that proofs about it need no induction over data.

**Archive.** A step of the store commits the payloads that its tables have gained.
That none of the old ones becomes current again is the forward-only guard, but the
guard compares with one ancestry and the archive speaks of everything ever
committed: the two agree because lineages are complete, so that an archived
payload of the form is an ancestor of the current one unless the form was
rewound. A batch is compared with the tables it began from, which nobody else has
written since.

**Sync.** Each step of the engine is a step of the store or leaves it alone
(`EngineStepIsStoreStep`), so the store's invariants hold under it. For
`SkipLosesNothing`, `Seeded` says of a run in its seed phase that the units it
no longer has to do are in the store and in the lineage of their references;
`ForwardOnly` and `WrittenOnce` carry that through the steps of others.
`AdoptedOnce` is proved step by step: a put leaves the provenance of a row whose
payload it leaves (`PutKeepsOwner`), whoever pulls, and the adoption takes only
rows it finds native in its own transaction (`AdoptOwns`), whatever it read before.

What concerns the directories is proved of syncs that do not overlap in one tree
(`OneRunPerTree`); `sync_two_pushes` shows that two which do leave a part of a
package. `SnapshotWhole` is not inductive, because the snapshot becomes what was
staged: `StagedAs` says that what lies in the staging directory and what is still
to be staged make up a package (it is empty when staging starts, so nothing a
crash left behind gets in), and `SwapInv` holds of the moved-aside directory too,
since `MoveInFails` brings it back. `ReplacedWasPulled` needs that a push comes
after a pull of the snapshot (`PullThenPush`): `sync.go` runs pull before push
unless it is told to push only, and a push alone replaces what it finds. The
relation `PulledAs` carries the units of the snapshot from the check of the pull,
through the seeds, to the rename.

**Transitions.** `TransitionInv` is the types, `LogsReplay`, `ActiveHasLock` and,
of every running command, `CommandOK`. The first two safety properties are not
inductive alone, because a put publishes what its command read, not what the
store holds. `RouteOK` says that this unit was published (so its log replays),
that the request is a step of the table (`RequestsAreLegal`: the extra edges the
commands offer are steps the conformance engine accepts), and that an active
container can only come out of the route through the activation gate. `LockOK`
and `BatchLocks` say what that route carries: at its batch either the lock of the
plan is in the batch or the plan was locked before, and history only grows
(`LocksStay`). `RowsKnown` keeps the scan of the gate on published references.
Nothing here needs commands to exclude each other, which is why these two
properties hold of parallel commands when `OneActivePerRepo` does not.

**Commands one after the other.** The second half of EkaTransitionProofs assumes
`OneAuthority`: a single
authority runs one command at a time, while publications, drafts, posts and
resolutions go on between its reads. `trans_two_active` shows that two
authorities break what is proved here. `SerialInv` has three
parts: the rules of the published units themselves (`ActiveApart`, `RetiredIdle`,
`Replaced`), stated of current instances; that what a command has read is what
the store holds (`ReadIsCurrent`), because nothing but a command's put moves a
published form; and what each gate has established for the put that follows it.
The delicate one is the activation gate, which reads a list of rows and then unit
by unit: `ScanSees` says that a current active container is either read or still
on the list, which holds although instances are published meanwhile, because a
published instance is never born active. `ClosuresFixed` (no plan line is new while
the commands run) is needed for closures only: a plan that is published later may
join the closures of containers that are already active. `CompletedWhenDone` needs
that no work item is published beside the commands (`ItemsFixed`) and that reads
do not fail (`trans_unread`); its invariant carries what the completion gate has
seen to the put.

**The gate of done.** `DoneSeesOpenNotes` needs no order of commands. The gate
reads the published notes and then the drafts, while notes move from the second
place to the first. A note that was open when a command began is somewhere; if the
first read does not find it, its draft is there (`Drafted`), and only the removal of
that draft between the two reads hides it from both, which the history variable
`slipped` records and `trans_moving_note` reproduces. Every other note is either
found open by one of the two reads, or it is `Settled`: resolved, and no step of a
note undoes that. `NotesInv` says so of each command at each of its steps; a note
published at any other moment, also by a publication that spans both reads, is
covered.

**Authoring.** `AuthoringInv` says how files, tickets, references and archive fit
together (`DataOK`) and, of every command, what it holds at its step (`HoldsOK`)
and what it knows of the store (`StoreOK`). `BatchIsCoherent` speaks of what a
batch has read with the draft it has just published, `c.read`, which is not what it
has listed: the draft may have been edited, related or drafted again since. A
target it had listed is covered by `ListOK`, which holds all the way: it is on the
list, published, or the draft under way. The batch reads its list once and takes
from it before it has published, so the third case is needed; what others do cannot
break the other two, because no command unpublishes a line and nobody else touches
the list. A target it had not listed has passed the gate of the one publication
only, which for a strict line asks for a draft or an instance of it (`HoldsOK`: the
target was drafted, which stays true) and for another line asks nothing; the
property excepts it, and `authoring_batch_edge` shows that it must. `PublishedStays` holds when one author alone goes
to the store (`OneStoreAuthor`), while any number of others create, annotate, edit
and discard drafts and processes end anywhere; `authoring_lost_edge` has two who
relate. `KnowsForm` carries to the write what the command has seen: the form of a
publication is free, and the one a relate repoints leads to what was read.
`RefusedLeavesNothing` needs that nobody else relates or resolves drafts
(`NobodyRewrites`): a command that has read a draft writes it with `os.WriteFile`,
which brings back a file the rollback has removed in between. Edits, discards,
publications and new drafts of the same lines do no harm: the tickets of a batch
stay taken (`UndoneOK`), and each draft it has removed is away or another draft.
`ResolutionCoversLine` speaks of the draft and the current instance of a note,
where the code looks at all instances and then at the first (`units[0]`); a line
whose first instance is resolved and whose current one is open is excepted, and
`authoring_missed_instance` shows that it must be. `Held` says what a resolution
knows at each step: from the rewriting on its draft is not open (`DraftSettled`),
the version it publishes under is above all others, so after the put the current
instance is resolved (`CurrentSettled`), and where it publishes nothing either that
holds or the first one is (`FirstSettled`). One author publishes, relates, drafts
notes in every way the commands allow, `eka new` included, and resolves; the others
scaffold lines that are no notes, edit, discard and end anywhere (`OneResolver`).
Two who resolve one note at the same time, or an outsider who drafts the note
between the rewriting and the report, can leave an open draft behind.

**Publication.** `PublicationInv` remembers of every published unit that the gate
let it in when a part of what is published now was there (`WasAccepted`), and with
which drafts. Nothing is ever taken back, so a reference that led somewhere leads
there still; one that was tolerated because of a draft is what `DanglingIsPromised`
speaks of. Most rules read the unit alone and carry over to the repository. R1 is
kept by the versions a publication assigns; R5, R6, R8 and R9 need that a reference
resolves in a larger set if it did in a smaller one (`LeastElement` of EkaLemmas:
the resolver takes the lowest instance). For the chain rule `WalkOK` says that the
visited set is reachable, and closed under the sources of what has left the queue;
when the queue is empty it therefore holds all that is reachable.

**Exchange: packages.** `LoadedIsExported` needs no order among exports: whatever
mixture of entries lies at the path, the entry with the package's digest is of one
export (`Signed`), and the digest determines every entry it is of. Digests are
taken to be injective, and so is the serialization.

**Exchange: the tree.** `TreeInv` tells the tree from the author's (`without`): a
path that was created is in the tree and not among the author's, and everything
else is as the author has it; the same for folders. That the paths of the plan are
not the author's either holds from `ImportPlan` on, which looks at each, and lasts
as long as nobody writes there. That is `ApartNext`: the author may do anything at
any time but write on a path of the import's plan, or on one it has created, while
it commits or rolls back. The hypothesis is needed: `exchange_race.cfg` drops it.
Writes that fail, crashes, a second import and the rollback are in it.

**Exchange: what an import brings.** `CommitInv` adds what the commit has done:
what is not in the plan any more is in the tree as the loader's unit spells it
(`Committed`), and an operation leaves the plan after those it refers to
(`Ordered`). `UnitSurvives` is the round trip of one unit: the reference that
`ToReference` writes is resolved by the importing repository to the instance it
stood for, because a line reference is only written for a first instance, and a
resolver takes the lowest one. `RoundTrip` follows from it at the end of the commit, of an
import nobody interfered with.

**Exchange: an interrupted commit.** `CommitKeepsGate` speaks of every state
between two that the gate accepts, the tree before and the tree when the commit is
through. `BetweenGates` is about sets of artifacts only: if `small` and `large` pass
and `set` is between them, closed in the sense of `Between`, then every rule holds
of `set`. Rules that read one artifact are inherited from `large`; references (R5,
R6, R8), replacements (R9) and the note gates (R13) are where the order of the
commit matters.

**Workspace.** `Inv` adds to the properties what every process has in memory at
its step (`ProcessOK`). `RegistryIntact` is not inductive alone: the foreign key
and the unique paths are checked by the insert itself, against the tables as they
are then (`RowReplaced`), but nothing in the database refuses the reserved name.
It stays out because a process that is past `CheckOwner` has another name in its
memory, and no step of its own or of others changes that key. A tree's identity is
an identity and never a torn file when a process remembers it, because `FindFinds`
stops at a file that is there and `Gate` refuses a torn one. For `OpenedIsCurrent`
a process may decide to migrate on a version that is no longer true: `Migrated`
(a database whose version has units has no objects) makes its migration harmless,
and `OpenedStep` shows that nobody gets past the opening in another way.

`SyncAgrees`, `FrozenAlone` and `NoEmptyProject` are about commands that nobody
interfered with (`clean`: no other process and no edit has changed trees or tables
while they were under way), and need `AloneInv`: what such a process has read is still so. Of its
tree it knows where the search ends and which identity the file there has
(`TreeKnown`); a torn `eka.yaml` is the one it is itself rewriting, at the place
where the search ended before (`FindSame`). Of its registry row it knows, from
`resolve` on, the row, its path and its namespace, and between the check of the
owner and the insert that no other project holds the path (`RecordKnown`). The one
project it may have left empty so far is the one whose repository it is about to
insert, or has just deleted (`Pending`). Nothing is asked of the state in which it
began: rows that earlier commands left behind, half done or crashed, are in the
quantifier. `AloneStep` has two halves: a process that acts keeps its own
knowledge, and every other process stops being clean or is not affected.

Only model-checked: liveness (`RunsEnd`, `CommandsEnd`, `ImportEnds`), which is
out of the prover's reach.

## 5. What is not modelled

* Attachments, hashing, serialisation and the legacy layout of snapshots and of
  markdown artifacts; the rewriting of a legacy snapshot (`sync/repair.go`); the
  busy retry of the store (its failures are: a transaction that does not happen).
* The reconstruction of payloads from v1 rows: EkaWorkspace moves them as a set.
* In EkaTransition: relationships do not change, tickets are published before the
  commands, births have their template's state (an edited draft or an inline
  publication may start elsewhere), drafts are not discarded, dismissed notes do
  not occur, no pull runs beside the commands, and a plan closure is read in one
  step. The adr- variant stands for the other content-state lifecycles, which
  have the same shape and no gate.
* In EkaConformance: the parsing of files, the agreement of a container's Work
  Items table with its items, and every warning but that of rule 10.
* In EkaAuthoring: the search for a draft in other projects, `.md` drafts, the
  filters of listings, the resolution of all notes of a subject (a loop over the
  resolution of one), and failures of the store. Validation is the resolution of
  references; the other rules are EkaPublication's.
* In EkaExchange: the staging file of a write (a write is one step), the spelling
  of the seed, the package label.
* In EkaWorkspace: the syntax of `eka.yaml` and its capture block, dates, the
  refusal of a newer schema. What pull, adopt and push do is EkaSync's; here each
  is the uses it makes of the registry.
* Capture, read services, contexts, views, machine, codegraph, plugins, compile:
  stateless projections and classifiers, parsers and external commands; see
  "components" in `PROJECT.json`, which gives the reason for each.

## 6. Plan

1. Composition: EkaTransition under EkaArchive, so that the put it sees is the
   archive's, and a pull beside the commands.
2. `sync/repair.go`: a rewriting in place that may end after any file.
3. Pure algorithms against reference definitions: the bounded traversal of
   `contexts/`, the window of `machine/pagination.go`, the layers of `view/`.
