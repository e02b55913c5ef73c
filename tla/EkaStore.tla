------------------------------ MODULE EkaStore ------------------------------
(***************************************************************************)
(* The canonical store as its callers see it: an archive of immutable      *)
(* payloads, a table of references, and the three write transactions       *)
(* PutUnit, RepointUnit and PutUnits of store/payloads.go, with the        *)
(* re-attribution that sync/adopt.go runs on the same tables.              *)
(*                                                                         *)
(* SQLite gives one writer at a time: PutUnit, RepointUnit and Adopt are   *)
(* one step each, and a batch holds the write lock from its first put to   *)
(* its commit or rollback, with its writes in a database of its own until  *)
(* then.  A transaction that fails (a refused statement, SQLITE_BUSY, the  *)
(* end of the process) leaves the committed tables as they were.           *)
(***************************************************************************)
EXTENDS EkaStoreOps

CONSTANTS
  Legacy,       \* payloads already in the database when schema v4 is reached
  LegacyRepo,   \* the provenance pair of their rows
  LegacyProject,
  MaxBatch,     \* bound: puts of one batch
  NoBatch       \* no batch transaction is open

ASSUME LegacyAssumption ==
  /\ Legacy \subseteq Payload
  /\ \A h, k \in Legacy : FormOf[h] = FormOf[k] => h = k
  /\ LegacyRepo \in Repo /\ LegacyProject \in Project
  /\ MaxBatch \in Nat

VARIABLES
  payloads,  \* object_payloads: the prev_hash column of every row
  refs,      \* object_refs
  batch,     \* the PutUnits transaction that holds the write lock
  rewound    \* history: forms a repoint moved back to an archived payload

vars == <<payloads, refs, batch, rewound>>

Batch == [db : Database, size : Nat]

ASSUME NoBatchAssumption == NoBatch \notin Batch

Committed == [payloads |-> payloads, refs |-> refs]

Commit(db) == payloads' = db.payloads /\ refs' = db.refs

\* No other connection holds the write lock.
Unlocked == batch = NoBatch

----------------------------------------------------------------------------

\* A migrated database: the rows an older schema left carry number 0.
LegacyRow(h) ==
  [hash |-> h, project |-> LegacyProject, repo |-> LegacyRepo, number |-> 0]

Init ==
  /\ payloads = [h \in Payload |-> IF h \in Legacy THEN Root ELSE Absent]
  /\ refs = [f \in Form |->
               IF \E h \in Legacy : FormOf[h] = f
                 THEN LegacyRow(CHOOSE h \in Legacy : FormOf[h] = f)
                 ELSE NoRef]
  /\ batch = NoBatch
  /\ rewound = {}

\* Sync pulls, publications and transitions: one put, one transaction.
PutUnit(p) ==
  /\ Unlocked
  /\ ~Refused(Committed, p, FALSE)
  /\ Commit(PutTx(Committed, p, FALSE))
  /\ UNCHANGED <<batch, rewound>>

\* Relate and the assignment commands: the reference moves even to a payload
\* that is already part of the line's history.
RepointUnit(p) ==
  /\ Unlocked
  /\ ~Refused(Committed, p, TRUE)
  /\ Commit(PutTx(Committed, p, TRUE))
  /\ rewound' = rewound \cup
       {f \in {FormOf[p.payload]} : /\ payloads[p.payload] # Absent
                                    /\ refs'[f] # refs[f]}
  /\ UNCHANGED batch

\* PutUnits: one more put of the batch; the first one takes the write lock.
BatchDb == IF batch = NoBatch THEN Committed ELSE batch.db

BatchSize == IF batch = NoBatch THEN 0 ELSE batch.size

BatchPut(p) ==
  /\ BatchSize < MaxBatch
  /\ ~Refused(BatchDb, p, FALSE)
  /\ batch' = [db |-> PutTx(BatchDb, p, FALSE), size |-> BatchSize + 1]
  /\ UNCHANGED <<payloads, refs, rewound>>

\* Faulty variant: the commit of the references without that of the payloads.
BatchCommitTorn ==
  /\ batch # NoBatch
  /\ refs' = batch.db.refs
  /\ batch' = NoBatch
  /\ UNCHANGED <<payloads, rewound>>

BatchCommit ==
  /\ batch # NoBatch
  /\ Commit(batch.db)
  /\ batch' = NoBatch
  /\ UNCHANGED rewound

\* A refused put, a busy commit or the end of the process.
BatchRollback ==
  /\ batch # NoBatch
  /\ batch' = NoBatch
  /\ UNCHANGED <<payloads, refs, rewound>>

\* The workspace-native rows of the project an adoption can select.
NativeForms(pj) ==
  {f \in Referenced(Committed) : refs[f].project = pj /\ refs[f].repo = Runtime}

Adopt(pj, rp, forms) ==
  /\ Unlocked
  /\ rp # Runtime
  /\ forms # {} /\ forms \subseteq NativeForms(pj)
  /\ Commit(Reattribute(Committed, forms, rp))
  /\ UNCHANGED <<batch, rewound>>

Next ==
  \/ \E p \in Put : PutUnit(p)
  \/ \E p \in Put : RepointUnit(p)
  \/ \E p \in Put : BatchPut(p)
  \/ BatchCommit
  \/ BatchRollback
  \/ \E pj \in Project, rp \in Repo, forms \in SUBSET Form : Adopt(pj, rp, forms)

Spec == Init /\ [][Next]_vars

----------------------------------------------------------------------------
(* Invariants of a database, committed or in a batch's hands *)

\* A reference resolves to an archived payload that carries the reference's
\* own identity (levels 3 and 4 of store/integrity.go, decodeUnit).
RefsResolve(db) ==
  \A f \in Referenced(db) :
    /\ db.refs[f].hash \in Archived(db)
    /\ FormOf[db.refs[f].hash] = f

\* prev_hash leads to an archived payload of the same form.
LineageStaysInForm(db) ==
  \A h \in Archived(db) : db.payloads[h] # Root =>
    /\ db.payloads[h] \in Archived(db)
    /\ FormOf[db.payloads[h]] = FormOf[h]

\* No prev_hash cycle: every set of payloads has one whose predecessor is
\* outside it, so the walk of isAncestor ends without its visited guard.
LineageAcyclic(db) ==
  \A S \in SUBSET Archived(db) : S # {} => \E h \in S : db.payloads[h] \notin S

\* Every payload ever written for a form the store never rewound lies in the
\* lineage of the payload the form's reference points at.
LineageComplete(db, except) ==
  \A h \in Archived(db) :
    FormOf[h] \notin except =>
      /\ db.refs[FormOf[h]] # NoRef
      /\ IsAncestor(db.payloads, h, db.refs[FormOf[h]].hash)

\* The number MAX + 1 allocates to a new row is free in its project and
\* group: the put of a new line is never refused by the unique index.
FreshNumberFree(db) ==
  \A p \in Put : db.refs[FormOf[p.payload]] = NoRef => ~Refused(db, p, FALSE)

\* What every database is, whoever holds it.
Sound(db, except) ==
  /\ RefsResolve(db)
  /\ LineageStaysInForm(db)
  /\ LineageAcyclic(db)
  /\ LineageComplete(db, except)
  /\ NumbersUnique(db.refs)

----------------------------------------------------------------------------
(* Properties *)

Databases == {Committed} \cup {b.db : b \in {batch} \ {NoBatch}}

\* Type invariant of the tables and of an open batch (store/schema.go).
TypeOK ==
  /\ Committed \in Database
  /\ batch \in Batch \cup {NoBatch}
  /\ rewound \subseteq Form

\* References resolve and lineages are cycle-free chains of one form, in the
\* committed tables and in those a batch is about to commit: what
\* VerifyIntegrity, decodeUnit and the walk of isAncestor rely on.
ArchiveSound ==
  \A db \in Databases :
    RefsResolve(db) /\ LineageStaysInForm(db) /\ LineageAcyclic(db)

\* payloads.go:296-300: every payload ever referenced by a form is linked
\* through prev_hash, so the ancestry test recognises every older state.
\* It holds of every form that no repoint has moved back.
HistoryIsLinked ==
  \A db \in Databases : LineageComplete(db, rewound)

\* payloads.go:24-29: a put never moves a reference to a payload the archive
\* already holds, hence never back to a state the form has left, unless a
\* repoint moved that form back before or does so now.
ForwardOnly ==
  [][\A f \in Form \ rewound' :
       /\ refs[f] # NoRef
       /\ refs'[f].hash # refs[f].hash
       => refs'[f].hash \notin Archived(Committed)]_vars

\* payloads.go:13-19: a payload row is written once; its bytes and its
\* prev_hash never change and it is never deleted, whatever a re-put, a
\* repoint, a batch or an adoption does.
WrittenOnce ==
  [][\A h \in Archived(Committed) : payloads'[h] = payloads[h]]_vars

\* numbers.go:9-12 and idx_refs_number: two numbered rows of a project and
\* group never share a number, and the number allocated to a new row is
\* always free although rows move between projects.
NumbersSound ==
  \A db \in Databases : NumbersUnique(db.refs) /\ FreshNumberFree(db)

\* The promise the store's callers rely on, over what is committed: a batch is
\* invisible until it commits and then complete, and a reference moves to fresh
\* payloads only, unless its form was rewound (payloads.go:13-29, 60-80).
CurrentOf ==
  [f \in Form |-> IF refs[f] = NoRef THEN NoRef ELSE refs[f].hash]

Abstract == INSTANCE EkaArchive WITH
  Inherited <- Legacy, None <- NoRef,
  archive <- Archived(Committed), current <- CurrentOf

IsAnArchive == Abstract!ArchiveSpec

----------------------------------------------------------------------------
(* What comments of the code say, and the code does not do *)

\* payloads.go:28-29: "A stale re-seed can therefore never silently regress a
\* newer knowledge state", said of every form, rewound or not: a put of a
\* payload the archive already holds leaves the reference where it is.
StaleReseedInert ==
  \A p \in Put : p.payload \in Archived(Committed) => ~Moves(Committed, p, FALSE)

\* numbers.go:9-12: the number is the line's, stable for its life: the
\* instances of a line in one project carry the same number.
OneNumberPerLine ==
  \A e, f \in Referenced(Committed) :
    /\ LineOf[e] = LineOf[f] /\ GroupOf[e] = GroupOf[f]
    /\ refs[e].project = refs[f].project
    => refs[e].number = refs[f].number

=============================================================================
