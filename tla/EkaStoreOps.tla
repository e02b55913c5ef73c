---------------------------- MODULE EkaStoreOps ----------------------------
(***************************************************************************)
(* The write path of the canonical store (store/payloads.go) as operators  *)
(* on a database value                                                     *)
(*                                                                         *)
(*   db = [payloads |-> object_payloads, refs |-> object_refs]             *)
(*                                                                         *)
(* so that one put (putUnitTx) can be composed into a batch, a pull or an  *)
(* adoption by the modules that own the variables.                         *)
(*                                                                         *)
(* A payload stands for its bytes and for its content hash: SHA-256 is     *)
(* taken to be injective.  payloads[h] is the prev_hash column of the row  *)
(* of h: Absent (no row), Root (the empty string) or a payload.  A form is *)
(* the canonical identity <ns>/<type>:<id>:<instance-version>; the bytes   *)
(* of a payload determine its form, and with it the instance version, so   *)
(* the version guard of the repoint path (payloads.go:239) can never be    *)
(* true of a reference derived from its payload and is not modelled.       *)
(***************************************************************************)
EXTENDS Integers, FiniteSets

CONSTANTS
  Payload,   \* the unit payloads that may ever be written
  Form,      \* canonical identity forms, the keys of object_refs
  Line,      \* artifact lines: a form without its instance version
  Project,   \* registered projects
  Repo,      \* source repositories
  Runtime,   \* the reserved repository of workspace-native units
  Group,     \* issue-number groups
  NoGroup,   \* the group of a type that carries no number
  FormOf,    \* the identity a payload carries
  LineOf,    \* the line a form belongs to
  GroupOf,   \* the number group of the form's type
  Root,      \* the empty prev_hash of a form's first payload
  Absent,    \* no row in object_payloads
  NoRef      \* no row in object_refs

\* The reference table is finite, the identity tuple is a function of the
\* payload bytes, and the markers are none of the values they stand beside.
ASSUME StoreAssumption ==
  /\ IsFiniteSet(Form)
  /\ FormOf \in [Payload -> Form]
  /\ LineOf \in [Form -> Line]
  /\ GroupOf \in [Form -> Group \cup {NoGroup}]
  /\ Runtime \in Repo
  /\ NoGroup \notin Group
  /\ Root \notin Payload /\ Absent \notin Payload /\ Root # Absent

----------------------------------------------------------------------------
(* Rows *)

Row == [hash : Payload, project : Project, repo : Repo, number : Nat]

Database == [payloads : [Payload -> Payload \cup {Root, Absent}],
             refs     : [Form -> Row \cup {NoRef}]]

\* A unit to store, with the provenance pair the caller's Ref carries.
Put == [payload : Payload, project : Project, repo : Repo]

\* The absent row is not a row.
ASSUME NoRefAssumption == NoRef \notin Row /\ NoRef \notin Payload

Referenced(db) == {f \in Form : db.refs[f] # NoRef}

Archived(db) == {h \in Payload : db.payloads[h] # Absent}

----------------------------------------------------------------------------
(* Lineage: prev_hash chains *)

\* A set of payloads that contains the predecessor of each of its members.
LineageClosed(pl, S) == \A x \in S : pl[x] \in Payload => pl[x] \in S

\* target is met when prev_hash is followed from current, current included:
\* it lies in every predecessor-closed set that current lies in.
IsAncestor(pl, target, current) ==
  \A S \in SUBSET Payload :
    current \in S /\ LineageClosed(pl, S) => target \in S

\* Faulty variants of Archive, for the mutation runs: the prev_hash of a first
\* payload left NULL; no lineage written; ON CONFLICT DO UPDATE.
ArchiveNull(db, h) ==
  IF db.payloads[h] # Absent
    THEN db.payloads
    ELSE [db.payloads EXCEPT ![h] =
            IF db.refs[FormOf[h]] = NoRef THEN NoRef ELSE db.refs[FormOf[h]].hash]

ArchiveUnlinked(db, h) ==
  IF db.payloads[h] # Absent THEN db.payloads
                             ELSE [db.payloads EXCEPT ![h] = Root]

ArchiveRelinks(db, h) ==
  [db.payloads EXCEPT ![h] =
     IF db.refs[FormOf[h]] = NoRef THEN Root ELSE db.refs[FormOf[h]].hash]

\* INSERT ... ON CONFLICT DO NOTHING: a new row is chained to the payload the
\* form's reference currently points at; an existing row is left alone.
Archive(db, h) ==
  LET f == FormOf[h]
  IN  IF db.payloads[h] # Absent
        THEN db.payloads
        ELSE [db.payloads EXCEPT ![h] =
                IF db.refs[f] = NoRef THEN Root ELSE db.refs[f].hash]

----------------------------------------------------------------------------
(* Issue numbers *)

NumbersTaken(refs, pj, g) ==
  {refs[f].number : f \in {e \in Form : /\ refs[e] # NoRef
                                         /\ refs[e].project = pj
                                         /\ GroupOf[e] = g}}

\* Faulty variant: COUNT in place of MAX.
NextNumberCount(refs, pj, g) == 1 + Cardinality(NumbersTaken(refs, pj, g))

\* COALESCE(MAX(number), 0) + 1 over the rows of the project and the group.
NextNumber(refs, pj, g) ==
  LET taken == NumbersTaken(refs, pj, g) \cup {0}
  IN  1 + (CHOOSE n \in taken : \A m \in taken : m <= n)

\* idx_refs_number: UNIQUE (project_id, number_group, number) WHERE number > 0.
NumbersUnique(refs) ==
  \A e, f \in Form :
    /\ e # f /\ refs[e] # NoRef /\ refs[f] # NoRef
    /\ refs[e].number > 0 /\ GroupOf[e] = GroupOf[f]
    /\ refs[e].project = refs[f].project
    => refs[e].number # refs[f].number

----------------------------------------------------------------------------
(* One put *)

\* Faulty variant: the guard looks at the direct predecessor only.
KeptNewerOneStep(db, p, repoint) ==
  LET row == db.refs[FormOf[p.payload]]
  IN  /\ row # NoRef
      /\ ~repoint
      /\ db.payloads[row.hash] = p.payload

\* The forward-only guard: the put archives its payload and leaves the
\* reference where it is.  RepointUnit skips it.
KeptNewer(db, p, repoint) ==
  LET row == db.refs[FormOf[p.payload]]
  IN  /\ row # NoRef
      /\ p.payload # row.hash
      /\ ~repoint
      /\ IsAncestor(Archive(db, p.payload), p.payload, row.hash)

\* The reference moves unless the guard keeps it or it is already there.
Moves(db, p, repoint) ==
  LET row == db.refs[FormOf[p.payload]]
  IN  /\ row # NoRef => row.hash # p.payload
      /\ ~KeptNewer(db, p, repoint)

\* The upsert: a new row of a numbered group is given the next number of its
\* project; an existing row keeps its number and takes the new provenance.
Upsert(db, p) ==
  LET f   == FormOf[p.payload]
      row == db.refs[f]
  IN  [hash    |-> p.payload,
       project |-> p.project,
       repo    |-> p.repo,
       number  |-> IF row # NoRef THEN row.number
                   ELSE IF GroupOf[f] = NoGroup THEN 0
                   ELSE NextNumber(db.refs, p.project, GroupOf[f])]

\* The database after one put.
PutTx(db, p, repoint) ==
  [payloads |-> Archive(db, p.payload),
   refs     |-> IF Moves(db, p, repoint)
                  THEN [db.refs EXCEPT ![FormOf[p.payload]] = Upsert(db, p)]
                  ELSE db.refs]

\* The statement that would break idx_refs_number fails, and the transaction
\* it belongs to is rolled back.
Refused(db, p, repoint) == ~NumbersUnique(PutTx(db, p, repoint).refs)

\* The re-attribution of a set of workspace-native rows (sync/adopt.go):
\* DELETE and INSERT of the same row under the repository's provenance.
Reattribute(db, forms, rp) ==
  [db EXCEPT !.refs = [f \in Form |->
     IF f \in forms THEN [db.refs[f] EXCEPT !.repo = rp] ELSE db.refs[f]]]
=============================================================================
