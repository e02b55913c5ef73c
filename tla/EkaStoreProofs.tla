--------------------------- MODULE EkaStoreProofs ---------------------------
(***************************************************************************)
(* Proofs about EkaStore for every set of payloads, forms, projects and    *)
(* repositories, and for batches of any length.                            *)
(*                                                                         *)
(* The argument is made once for a database value: one put, whatever its   *)
(* outcome, takes a sound database to a sound database.  The committed     *)
(* tables and the tables an open batch works on are then both kept sound   *)
(* by every action.                                                        *)
(***************************************************************************)
EXTENDS EkaStore, EkaLemmas

----------------------------------------------------------------------------
(* Issue numbers *)

\* MAX over a project and group exists, and MAX + 1 is above every number
\* the rows of the project and group carry.
LEMMA NextNumberFree ==
  ASSUME NEW refs1 \in [Form -> Row \cup {NoRef}], NEW pj, NEW g
  PROVE  /\ NextNumber(refs1, pj, g) \in Nat
         /\ \A n \in NumbersTaken(refs1, pj, g) : n < NextNumber(refs1, pj, g)
<1> DEFINE E == {e \in Form : refs1[e] # NoRef /\ refs1[e].project = pj /\ GroupOf[e] = g}
<1> DEFINE taken == NumbersTaken(refs1, pj, g) \cup {0}
<1> DEFINE num == [f \in E |-> refs1[f].number]
<1>1. \A f \in E : refs1[f].number \in Nat
  BY DEF Row
<1>2. taken \in SUBSET Nat /\ taken # {}
  BY <1>1 DEF NumbersTaken
<1>3. IsFiniteSet(E)
  BY FS_Subset, StoreAssumption
<1>4. num \in Surjection(E, NumbersTaken(refs1, pj, g))
  BY DEF Surjection, NumbersTaken
<1>5. IsFiniteSet(NumbersTaken(refs1, pj, g))
  BY <1>3, <1>4, FS_Surjection
<1>6. IsFiniteSet(taken)
  BY <1>5, FS_AddElement
<1>7. \E n \in taken : \A m \in taken : m <= n
  <2> HIDE DEF taken
  <2> QED  BY <1>2, <1>6, GreatestElement
<1> DEFINE top == CHOOSE n \in taken : \A m \in taken : m <= n
<1>8. top \in taken /\ \A m \in taken : m <= top
  BY <1>7
<1>9. NextNumber(refs1, pj, g) = 1 + top
  BY DEF NextNumber
<1> HIDE DEF top
<1> QED  BY <1>2, <1>8, <1>9

----------------------------------------------------------------------------
(* One put *)

\* The archive after a put: at most one new row, every old row as it was.
LEMMA ArchiveFacts ==
  ASSUME NEW db \in Database, NEW h \in Payload, RefsResolve(db)
  PROVE  /\ Archive(db, h) \in [Payload -> Payload \cup {Root, Absent}]
         /\ Archive(db, h)[h] # Absent
         /\ \A k \in Archived(db) : Archive(db, h)[k] = db.payloads[k]
         /\ \A k \in Payload : k # h => Archive(db, h)[k] = db.payloads[k]
<1> DEFINE f == FormOf[h]
<1>1. f \in Form /\ db.refs[f] \in Row \cup {NoRef}
  BY StoreAssumption DEF Database
<1>2. db.refs[f] # NoRef => db.refs[f].hash \in Payload
  BY <1>1 DEF Row
<1>3. db.payloads \in [Payload -> Payload \cup {Root, Absent}]
  BY DEF Database
<1>4. CASE db.payloads[h] # Absent
  BY <1>3, <1>4 DEF Archive, Archived
<1>5. CASE db.payloads[h] = Absent
  <2>1. Archive(db, h) = [db.payloads EXCEPT ![h] =
                            IF db.refs[f] = NoRef THEN Root ELSE db.refs[f].hash]
    BY <1>5 DEF Archive
  <2>2. h \notin Archived(db)
    BY <1>5 DEF Archived
  <2> QED  BY <1>2, <1>3, <2>1, <2>2, StoreAssumption DEF Archived
<1> QED  BY <1>4, <1>5

\* The row an upsert writes is a row.
LEMMA UpsertType ==
  ASSUME NEW db \in Database, NEW p \in Put
  PROVE  Upsert(db, p) \in Row
<1> DEFINE f == FormOf[p.payload]
<1>1. p.payload \in Payload /\ p.project \in Project /\ p.repo \in Repo
  BY DEF Put
<1>2. f \in Form /\ db.refs \in [Form -> Row \cup {NoRef}]
  BY <1>1, StoreAssumption DEF Database
<1>3. db.refs[f] # NoRef => db.refs[f].number \in Nat
  BY <1>2 DEF Row
<1>4. NextNumber(db.refs, p.project, GroupOf[f]) \in Nat
  BY <1>2, NextNumberFree
<1> QED  BY <1>1, <1>3, <1>4 DEF Upsert, Row

\* A put takes a database to a database.
LEMMA PutType ==
  ASSUME NEW db \in Database, NEW p \in Put, NEW repoint \in BOOLEAN,
         RefsResolve(db)
  PROVE  PutTx(db, p, repoint) \in Database
<1>1. p.payload \in Payload /\ FormOf[p.payload] \in Form
  BY StoreAssumption DEF Put
<1>2. Archive(db, p.payload) \in [Payload -> Payload \cup {Root, Absent}]
  BY <1>1, ArchiveFacts
<1>3. Upsert(db, p) \in Row
  BY UpsertType
<1>4. db.refs \in [Form -> Row \cup {NoRef}]
  BY DEF Database
<1>5. [db.refs EXCEPT ![FormOf[p.payload]] = Upsert(db, p)] \in [Form -> Row \cup {NoRef}]
  BY <1>1, <1>3, <1>4
<1> QED  BY <1>2, <1>4, <1>5 DEF PutTx, Database

\* What a put does to the reference table.
LEMMA RefsAfterPut ==
  ASSUME NEW db \in Database, NEW p \in Put, NEW repoint \in BOOLEAN,
         NEW db2, db2 = PutTx(db, p, repoint)
  PROVE  /\ db2.payloads = Archive(db, p.payload)
         /\ \A g \in Form : g # FormOf[p.payload] => db2.refs[g] = db.refs[g]
         /\ Moves(db, p, repoint) => db2.refs[FormOf[p.payload]] = Upsert(db, p)
         /\ ~Moves(db, p, repoint) => /\ db2.refs = db.refs
                                      /\ db.refs[FormOf[p.payload]] # NoRef
<1>1. FormOf[p.payload] \in Form
  BY StoreAssumption DEF Put
<1>2. db.refs \in [Form -> Row \cup {NoRef}]
  BY DEF Database
<1>3. /\ db2.payloads = Archive(db, p.payload)
      /\ db2.refs = IF Moves(db, p, repoint)
                      THEN [db.refs EXCEPT ![FormOf[p.payload]] = Upsert(db, p)]
                      ELSE db.refs
  BY DEF PutTx
<1>4. ~Moves(db, p, repoint) => db.refs[FormOf[p.payload]] # NoRef
  BY DEF Moves, KeptNewer
<1> QED  BY <1>1, <1>2, <1>3, <1>4

\* The payload just put is archived before the reference can point at it.
LEMMA PutResolves ==
  ASSUME NEW db \in Database, NEW p \in Put, NEW repoint \in BOOLEAN,
         RefsResolve(db)
  PROVE  RefsResolve(PutTx(db, p, repoint))
<1> DEFINE h == p.payload
<1> DEFINE f == FormOf[h]
<1> DEFINE db2 == PutTx(db, p, repoint)
<1>1. h \in Payload /\ f \in Form
  BY StoreAssumption DEF Put
<1>2. db2.payloads[h] # Absent
  BY <1>1, ArchiveFacts, RefsAfterPut
<1>3. \A k \in Archived(db) : k \in Archived(db2)
  BY <1>1, ArchiveFacts, RefsAfterPut DEF Archived
<1>4. ASSUME NEW g \in Referenced(db2)
      PROVE  db2.refs[g].hash \in Archived(db2) /\ FormOf[db2.refs[g].hash] = g
  <2>1. CASE g = f /\ Moves(db, p, repoint)
    <3>1. db2.refs[g] = Upsert(db, p)
      BY <2>1, RefsAfterPut
    <3>2. Upsert(db, p).hash = h
      BY DEF Upsert
    <3> QED  BY <1>1, <1>2, <2>1, <3>1, <3>2 DEF Archived
  <2>2. CASE ~(g = f /\ Moves(db, p, repoint))
    <3>1. g \in Form /\ db2.refs[g] = db.refs[g]
      BY <2>2, RefsAfterPut DEF Referenced
    <3>2. g \in Referenced(db)
      BY <1>4, <3>1 DEF Referenced
    <3> QED  BY <1>3, <3>1, <3>2 DEF RefsResolve
  <2> QED  BY <2>1, <2>2
<1> QED  BY <1>4 DEF RefsResolve

\* A new payload is chained to the one its form's reference points at.
LEMMA PutStaysInForm ==
  ASSUME NEW db \in Database, NEW p \in Put, NEW repoint \in BOOLEAN,
         RefsResolve(db), LineageStaysInForm(db)
  PROVE  LineageStaysInForm(PutTx(db, p, repoint))
<1> DEFINE h == p.payload
<1> DEFINE f == FormOf[h]
<1> DEFINE db2 == PutTx(db, p, repoint)
<1>1. h \in Payload /\ f \in Form
  BY StoreAssumption DEF Put
<1>2. db2.payloads = Archive(db, h)
  BY RefsAfterPut
<1>3. \A k \in Archived(db) : k \in Archived(db2)
  BY <1>1, <1>2, ArchiveFacts DEF Archived
<1>4. ASSUME NEW k \in Archived(db2), db2.payloads[k] # Root
      PROVE  /\ db2.payloads[k] \in Archived(db2)
             /\ FormOf[db2.payloads[k]] = FormOf[k]
  <2>1. CASE k \in Archived(db)
    <3>1. db2.payloads[k] = db.payloads[k]
      BY <1>1, <1>2, <2>1, ArchiveFacts
    <3> QED  BY <1>3, <1>4, <2>1, <3>1 DEF LineageStaysInForm
  <2>2. CASE k \notin Archived(db)
    <3>1. k = h /\ db.payloads[h] = Absent
      BY <1>1, <1>2, <1>4, <2>2, ArchiveFacts DEF Archived
    <3>2. db2.payloads[k] = IF db.refs[f] = NoRef THEN Root ELSE db.refs[f].hash
      BY <1>1, <1>2, <3>1 DEF Archive, Database
    <3>3. f \in Referenced(db) /\ db2.payloads[k] = db.refs[f].hash
      BY <1>1, <1>4, <3>2 DEF Referenced
    <3> QED  BY <1>3, <3>1, <3>3 DEF RefsResolve
  <2> QED  BY <2>1, <2>2
<1> QED  BY <1>4 DEF LineageStaysInForm

\* The new payload is a leaf: no older payload's predecessor.
LEMMA PutAcyclic ==
  ASSUME NEW db \in Database, NEW p \in Put, NEW repoint \in BOOLEAN,
         RefsResolve(db), LineageStaysInForm(db), LineageAcyclic(db)
  PROVE  LineageAcyclic(PutTx(db, p, repoint))
<1> DEFINE h == p.payload
<1> DEFINE f == FormOf[h]
<1> DEFINE db2 == PutTx(db, p, repoint)
<1>1. h \in Payload /\ f \in Form
  BY StoreAssumption DEF Put
<1>2. db2.payloads = Archive(db, h)
  BY RefsAfterPut
<1>3. CASE db.payloads[h] # Absent
  <2>1. db2.payloads = db.payloads
    BY <1>2, <1>3 DEF Archive
  <2> QED  BY <2>1 DEF LineageAcyclic, Archived
<1>4. CASE db.payloads[h] = Absent
  <2>1. db2.payloads[h] \notin Payload \/ db2.payloads[h] \in Archived(db)
    <3>1. db2.payloads[h] = IF db.refs[f] = NoRef THEN Root ELSE db.refs[f].hash
      BY <1>1, <1>2, <1>4 DEF Archive, Database
    <3>2. CASE db.refs[f] = NoRef
      BY <3>1, <3>2, StoreAssumption
    <3>3. CASE db.refs[f] # NoRef
      BY <1>1, <3>1, <3>3 DEF RefsResolve, Referenced
    <3> QED  BY <3>2, <3>3
  <2>2. h \notin Archived(db) /\ h \in Payload
    BY <1>1, <1>4 DEF Archived
  <2>3. \A k \in Payload : k # h => db2.payloads[k] = db.payloads[k]
    BY <1>1, <1>2, ArchiveFacts
  <2>4. ASSUME NEW S \in SUBSET Archived(db2), S # {}
        PROVE  \E k \in S : db2.payloads[k] \notin S
    <3> DEFINE R == S \ {h}
    <3>1. R \subseteq Archived(db)
      BY <2>3 DEF Archived
    <3>2. CASE R = {}
      <4>1. S = {h}
        BY <2>4, <3>2
      <4> QED  BY <2>1, <2>2, <4>1
    <3>3. CASE R # {}
      <4>1. PICK k \in R : db.payloads[k] \notin R
        BY <3>1, <3>3 DEF LineageAcyclic
      <4>2. k \in Archived(db) /\ k \in Payload /\ k # h
        BY <3>1 DEF Archived
      <4>3. db.payloads[k] # h
        BY <2>2, <4>2, StoreAssumption DEF LineageStaysInForm
      <4> QED  BY <2>3, <4>1, <4>2, <4>3
    <3> QED  BY <3>2, <3>3
  <2> QED  BY <2>4 DEF LineageAcyclic
<1> QED  BY <1>3, <1>4

\* A payload the archive does not hold is nobody's ancestor, so the guard
\* lets it through: transitions, publications and other contents always move.
LEMMA NewPayloadMoves ==
  ASSUME NEW db \in Database, NEW p \in Put, NEW repoint \in BOOLEAN,
         RefsResolve(db), LineageStaysInForm(db),
         db.payloads[p.payload] = Absent
  PROVE  Moves(db, p, repoint)
<1> DEFINE h == p.payload
<1> DEFINE f == FormOf[h]
<1>1. h \in Payload /\ f \in Form
  BY StoreAssumption DEF Put
<1>2. h \notin Archived(db) /\ Archived(db) \in SUBSET Payload
  BY DEF Archived
<1>3. CASE db.refs[f] = NoRef
  BY <1>3 DEF Moves, KeptNewer
<1>4. CASE db.refs[f] # NoRef
  <2>1. db.refs[f].hash \in Archived(db)
    BY <1>1, <1>4 DEF RefsResolve, Referenced
  <2>2. LineageClosed(Archive(db, h), Archived(db))
    <3>1. \A x \in Archived(db) : Archive(db, h)[x] = db.payloads[x]
      BY <1>1, ArchiveFacts
    <3>2. \A x \in Archived(db) : db.payloads[x] \in Payload => db.payloads[x] \in Archived(db)
      BY StoreAssumption DEF LineageStaysInForm
    <3> QED  BY <3>1, <3>2 DEF LineageClosed
  <2>3. ~IsAncestor(Archive(db, h), h, db.refs[f].hash)
    BY <1>2, <2>1, <2>2 DEF IsAncestor
  <2> QED  BY <1>2, <2>1, <2>3 DEF Moves, KeptNewer
<1> QED  BY <1>3, <1>4

\* Unless a repoint moves the form back, a put leaves every archived payload
\* of the form in the lineage of its reference.
LEMMA PutComplete ==
  ASSUME NEW db \in Database, NEW p \in Put, NEW repoint \in BOOLEAN,
         NEW ex, NEW ex2, ex \subseteq ex2,
         RefsResolve(db), LineageStaysInForm(db), LineageComplete(db, ex),
         NEW db2, db2 = PutTx(db, p, repoint),
         /\ repoint
         /\ db.payloads[p.payload] # Absent
         /\ db2.refs[FormOf[p.payload]] # db.refs[FormOf[p.payload]]
         => FormOf[p.payload] \in ex2
  PROVE  LineageComplete(db2, ex2)
<1> DEFINE h == p.payload
<1> DEFINE f == FormOf[h]
<1>1. h \in Payload /\ f \in Form
  BY StoreAssumption DEF Put
<1>2. db2.payloads = Archive(db, h)
  BY RefsAfterPut
<1>3. \A S \in SUBSET Payload :
        LineageClosed(db2.payloads, S) => LineageClosed(db.payloads, S)
  <2>1. \A x \in Payload : db.payloads[x] \in Payload => x \in Archived(db)
    BY StoreAssumption DEF Archived
  <2>2. \A x \in Payload : db.payloads[x] \in Payload => db2.payloads[x] = db.payloads[x]
    BY <1>1, <1>2, <2>1, ArchiveFacts
  <2> QED  BY <2>2 DEF LineageClosed
<1>4. Moves(db, p, repoint) => db2.refs[f] # NoRef /\ db2.refs[f].hash = h
  <2>1. Upsert(db, p) # NoRef
    BY UpsertType, NoRefAssumption
  <2>2. Upsert(db, p).hash = h
    BY DEF Upsert
  <2> QED  BY <2>1, <2>2, RefsAfterPut
<1>5. ASSUME NEW k \in Archived(db2), FormOf[k] \notin ex2
      PROVE  /\ db2.refs[FormOf[k]] # NoRef
             /\ IsAncestor(db2.payloads, k, db2.refs[FormOf[k]].hash)
  <2> DEFINE g == FormOf[k]
  <2>0. k \in Payload /\ g \in Form /\ g \notin ex
    BY <1>5, StoreAssumption DEF Archived
  <2>1. CASE k \in Archived(db)
    <3>1. db.refs[g] # NoRef /\ IsAncestor(db.payloads, k, db.refs[g].hash)
      BY <2>0, <2>1 DEF LineageComplete
    <3>2. CASE db2.refs[g] = db.refs[g]
      BY <1>3, <3>1, <3>2 DEF IsAncestor
    <3>3. CASE db2.refs[g] # db.refs[g]
      <4>1. g = f /\ Moves(db, p, repoint)
        BY <2>0, <3>3, RefsAfterPut
      <4>2. h \notin Archived(db)
        <5>1. SUFFICES ASSUME h \in Archived(db)  PROVE FALSE
          OBVIOUS
        <5>2. ~repoint
          BY <1>5, <3>3, <4>1, <5>1 DEF Archived
        <5>3. Archive(db, h) = db.payloads
          BY <5>1 DEF Archive, Archived
        <5>4. IsAncestor(db.payloads, h, db.refs[f].hash)
          BY <2>0, <4>1, <5>1 DEF LineageComplete
        <5> QED  BY <3>1, <4>1, <5>2, <5>3, <5>4 DEF Moves, KeptNewer
      <4>3. db2.payloads[h] = db.refs[f].hash
        BY <1>1, <1>2, <3>1, <4>1, <4>2 DEF Archive, Archived, Database
      <4>4. db.refs[f].hash \in Payload
        BY <1>1, <3>1, <4>1 DEF RefsResolve, Referenced, Archived
      <4>5. ASSUME NEW S \in SUBSET Payload, h \in S, LineageClosed(db2.payloads, S)
            PROVE  k \in S
        <5>1. db.refs[f].hash \in S
          BY <4>3, <4>4, <4>5 DEF LineageClosed
        <5> QED  BY <1>3, <3>1, <4>1, <4>5, <5>1 DEF IsAncestor
      <4> QED  BY <1>4, <4>1, <4>5 DEF IsAncestor
    <3> QED  BY <3>2, <3>3
  <2>2. CASE k \notin Archived(db)
    <3>1. k = h /\ db.payloads[h] = Absent
      BY <1>1, <1>2, <1>5, <2>0, <2>2, ArchiveFacts DEF Archived
    <3>2. Moves(db, p, repoint)
      BY <3>1, NewPayloadMoves
    <3> QED  BY <1>4, <3>1, <3>2 DEF IsAncestor
  <2> QED  BY <2>1, <2>2
<1> QED  BY <1>5 DEF LineageComplete

----------------------------------------------------------------------------
(* Soundness of a database *)

\* One put that the unique index accepts keeps a database sound.
LEMMA PutSound ==
  ASSUME NEW db \in Database, NEW p \in Put, NEW repoint \in BOOLEAN,
         NEW ex, NEW ex2, ex \subseteq ex2,
         Sound(db, ex), ~Refused(db, p, repoint),
         /\ repoint
         /\ db.payloads[p.payload] # Absent
         /\ PutTx(db, p, repoint).refs[FormOf[p.payload]] # db.refs[FormOf[p.payload]]
         => FormOf[p.payload] \in ex2
  PROVE  /\ PutTx(db, p, repoint) \in Database
         /\ Sound(PutTx(db, p, repoint), ex2)
<1> DEFINE db2 == PutTx(db, p, repoint)
<1>1. /\ RefsResolve(db) /\ LineageStaysInForm(db)
      /\ LineageAcyclic(db) /\ LineageComplete(db, ex)
  BY DEF Sound
<1>2. db2 \in Database
  BY <1>1, PutType
<1>3. RefsResolve(db2)
  BY <1>1, PutResolves
<1>4. LineageStaysInForm(db2)
  BY <1>1, PutStaysInForm
<1>5. LineageAcyclic(db2)
  BY <1>1, PutAcyclic
<1>6. LineageComplete(db2, ex2)
  BY <1>1, PutComplete
<1>7. NumbersUnique(db2.refs)
  BY DEF Refused
<1> QED  BY <1>2, <1>3, <1>4, <1>5, <1>6, <1>7 DEF Sound

\* An adoption changes the repository of rows and nothing else.
LEMMA ReattributeSound ==
  ASSUME NEW db \in Database, NEW forms \in SUBSET Referenced(db), NEW rp \in Repo,
         NEW ex, Sound(db, ex)
  PROVE  /\ Reattribute(db, forms, rp) \in Database
         /\ Sound(Reattribute(db, forms, rp), ex)
<1> DEFINE db2 == Reattribute(db, forms, rp)
<1>1. db.refs \in [Form -> Row \cup {NoRef}] /\ db = [payloads |-> db.payloads, refs |-> db.refs]
  BY DEF Database
<1>2. db2 = [payloads |-> db.payloads,
             refs |-> [f \in Form |-> IF f \in forms THEN [db.refs[f] EXCEPT !.repo = rp]
                                      ELSE db.refs[f]]]
  BY <1>1 DEF Reattribute
<1>3. \A f \in forms : f \in Form /\ db.refs[f] \in Row
  BY <1>1 DEF Referenced
<1>4. \A f \in forms : /\ [db.refs[f] EXCEPT !.repo = rp] \in Row
                       /\ [db.refs[f] EXCEPT !.repo = rp].hash = db.refs[f].hash
                       /\ [db.refs[f] EXCEPT !.repo = rp].project = db.refs[f].project
                       /\ [db.refs[f] EXCEPT !.repo = rp].number = db.refs[f].number
  BY <1>3 DEF Row
<1>5. db2 \in Database
  BY <1>1, <1>2, <1>4 DEF Database
<1>6. \A f \in Form : /\ db2.refs[f] = NoRef <=> db.refs[f] = NoRef
                      /\ db.refs[f] # NoRef => /\ db2.refs[f].hash = db.refs[f].hash
                                               /\ db2.refs[f].project = db.refs[f].project
                                               /\ db2.refs[f].number = db.refs[f].number
  BY <1>1, <1>2, <1>3, <1>4, NoRefAssumption
<1>7. db2.payloads = db.payloads
  BY <1>2
<1> HIDE DEF db2
<1>8. Archived(db2) = Archived(db) /\ Referenced(db2) = Referenced(db)
  BY <1>6, <1>7 DEF Archived, Referenced
<1>9. RefsResolve(db2)
  BY <1>6, <1>8 DEF Sound, RefsResolve, Referenced
<1>10. LineageStaysInForm(db2) /\ LineageAcyclic(db2)
  BY <1>7, <1>8 DEF Sound, LineageStaysInForm, LineageAcyclic
<1>11. LineageComplete(db2, ex)
  <2>1. \A k \in Archived(db) : FormOf[k] \in Form
    BY StoreAssumption DEF Archived
  <2> QED  BY <1>6, <1>7, <1>8, <2>1 DEF Sound, LineageComplete
<1>12. NumbersUnique(db2.refs)
  BY <1>6 DEF Sound, NumbersUnique
<1> QED  BY <1>5, <1>9, <1>10, <1>11, <1>12 DEF Sound, db2

----------------------------------------------------------------------------
(* The inductive invariant *)

\* The tables, and the tables of an open batch, are typed and sound.
IInv ==
  /\ TypeOK
  /\ Sound(Committed, rewound)
  /\ batch # NoBatch => Sound(batch.db, rewound)

\* A migrated database is sound: one root payload behind each legacy row.
LEMMA InitSound ==
  Init => IInv
<1> SUFFICES ASSUME Init  PROVE IInv
  OBVIOUS
<1> DEFINE Old(f) == CHOOSE h \in Legacy : FormOf[h] = f
<1>1. \A f \in Form : (\E h \in Legacy : FormOf[h] = f) =>
                         Old(f) \in Legacy /\ FormOf[Old(f)] = f
  OBVIOUS
<1>2. \A h \in Legacy : h \in Payload /\ FormOf[h] \in Form /\ Old(FormOf[h]) = h
  BY <1>1, LegacyAssumption, StoreAssumption
<1>3. \A f \in Form : (\E h \in Legacy : FormOf[h] = f) => LegacyRow(Old(f)) \in Row
  BY <1>1, LegacyAssumption DEF LegacyRow, Row
<1>0. \A h : LegacyRow(h).hash = h /\ LegacyRow(h).number = 0
  BY DEF LegacyRow
<1>4. payloads = [h \in Payload |-> IF h \in Legacy THEN Root ELSE Absent]
  BY DEF Init
<1>5. refs = [f \in Form |-> IF \E h \in Legacy : FormOf[h] = f
                             THEN LegacyRow(Old(f)) ELSE NoRef]
  BY DEF Init
<1> HIDE DEF Old
<1>6. batch = NoBatch /\ rewound = {}
  BY DEF Init
<1>7. Committed \in Database
  <2>1. payloads \in [Payload -> Payload \cup {Root, Absent}]
    BY <1>4
  <2>2. refs \in [Form -> Row \cup {NoRef}]
    BY <1>3, <1>5
  <2> QED  BY <2>1, <2>2 DEF Committed, Database
<1>8. TypeOK
  BY <1>6, <1>7 DEF TypeOK
<1>9. Archived(Committed) = Legacy
  BY <1>4, LegacyAssumption, StoreAssumption DEF Archived, Committed
<1>10. \A f \in Form : refs[f] # NoRef =>
         Old(f) \in Legacy /\ FormOf[Old(f)] = f /\ refs[f] = LegacyRow(Old(f))
  BY <1>1, <1>5
<1>11. RefsResolve(Committed)
  BY <1>0, <1>9, <1>10 DEF RefsResolve, Referenced, Committed
<1>12. \A h \in Legacy : payloads[h] = Root
  BY <1>2, <1>4
<1>13. LineageStaysInForm(Committed)
  BY <1>9, <1>12 DEF LineageStaysInForm, Committed
<1>14. LineageAcyclic(Committed)
  <2>1. Root \notin Legacy
    BY LegacyAssumption, StoreAssumption
  <2> QED  BY <1>9, <1>12, <2>1 DEF LineageAcyclic, Committed
<1>15. LineageComplete(Committed, rewound)
  <2>1. \A h \in Legacy : refs[FormOf[h]] # NoRef /\ refs[FormOf[h]].hash = h
    <3>1. \A h \in Legacy : refs[FormOf[h]] = LegacyRow(h) /\ LegacyRow(h) \in Row
      BY <1>2, <1>3, <1>5
    <3> QED  BY <1>0, <3>1, NoRefAssumption
  <2> QED  BY <1>9, <2>1 DEF LineageComplete, IsAncestor, Committed
<1>16. NumbersUnique(Committed.refs)
  <2>1. \A f \in Form : refs[f] # NoRef => refs[f].number = 0
    BY <1>0, <1>10
  <2> QED  BY <2>1 DEF NumbersUnique, Committed
<1> QED  BY <1>6, <1>8, <1>11, <1>13, <1>14, <1>15, <1>16 DEF IInv, Sound

\* Every action keeps the committed tables and those of a batch sound.
LEMMA NextSound ==
  IInv /\ [Next]_vars => IInv'
<1> SUFFICES ASSUME IInv, [Next]_vars  PROVE IInv'
  OBVIOUS
<1>0. /\ Committed \in Database /\ batch \in Batch \cup {NoBatch} /\ rewound \subseteq Form
      /\ Sound(Committed, rewound)
      /\ batch # NoBatch => batch \in Batch /\ Sound(batch.db, rewound)
  BY DEF IInv, TypeOK
<1>1. ASSUME NEW p \in Put, PutUnit(p)  PROVE IInv'
  <2> DEFINE db2 == PutTx(Committed, p, FALSE)
  <2>1. db2 \in Database /\ Sound(db2, rewound)
    BY <1>0, <1>1, PutSound DEF PutUnit
  <2>2. Committed' = db2
    BY <1>1, <2>1 DEF PutUnit, Commit, Committed, PutTx
  <2>3. batch' = NoBatch /\ rewound' = rewound
    BY <1>1 DEF PutUnit, Unlocked
  <2> QED  BY <1>0, <2>1, <2>2, <2>3 DEF IInv, TypeOK
<1>2. ASSUME NEW p \in Put, RepointUnit(p)  PROVE IInv'
  <2> DEFINE db2 == PutTx(Committed, p, TRUE)
  <2>1. Committed' = db2 /\ refs' = db2.refs /\ refs = Committed.refs
    BY <1>2 DEF RepointUnit, Commit, Committed, PutTx
  <2>2. /\ Committed.payloads[p.payload] # Absent
        /\ db2.refs[FormOf[p.payload]] # Committed.refs[FormOf[p.payload]]
        => FormOf[p.payload] \in rewound'
    BY <1>2, <2>1 DEF RepointUnit, Committed
  <2>3. rewound \subseteq rewound' /\ rewound' \subseteq Form
    <3>1. FormOf[p.payload] \in Form
      BY StoreAssumption DEF Put
    <3> QED  BY <1>0, <1>2, <3>1 DEF RepointUnit
  <2>4. db2 \in Database /\ Sound(db2, rewound')
    BY <1>0, <1>2, <2>2, <2>3, PutSound DEF RepointUnit
  <2>5. batch' = NoBatch
    BY <1>2 DEF RepointUnit, Unlocked
  <2> QED  BY <2>1, <2>3, <2>4, <2>5 DEF IInv, TypeOK
<1>3. ASSUME NEW p \in Put, BatchPut(p)  PROVE IInv'
  <2> DEFINE db2 == PutTx(BatchDb, p, FALSE)
  <2>1. BatchDb \in Database /\ Sound(BatchDb, rewound)
    BY <1>0 DEF BatchDb, Batch
  <2>2. db2 \in Database /\ Sound(db2, rewound)
    BY <1>3, <2>1, PutSound DEF BatchPut
  <2>3. batch' = [db |-> db2, size |-> BatchSize + 1]
    BY <1>3 DEF BatchPut
  <2>4. BatchSize + 1 \in Nat
    BY <1>0 DEF BatchSize, Batch
  <2>5. batch' \in Batch /\ batch'.db = db2
    BY <2>2, <2>3, <2>4 DEF Batch
  <2>6. Committed' = Committed /\ rewound' = rewound
    BY <1>3 DEF BatchPut, Committed
  <2> QED  BY <1>0, <2>2, <2>5, <2>6 DEF IInv, TypeOK
<1>4. CASE BatchCommit
  <2>1. batch.db \in Database /\ Sound(batch.db, rewound)
    BY <1>0, <1>4 DEF BatchCommit, Batch
  <2>2. Committed' = batch.db
    BY <1>4, <2>1 DEF BatchCommit, Commit, Committed, Database
  <2>3. batch' = NoBatch /\ rewound' = rewound
    BY <1>4 DEF BatchCommit
  <2> QED  BY <1>0, <2>1, <2>2, <2>3 DEF IInv, TypeOK
<1>5. CASE BatchRollback
  <2>1. Committed' = Committed /\ batch' = NoBatch /\ rewound' = rewound
    BY <1>5 DEF BatchRollback, Committed
  <2> QED  BY <1>0, <2>1 DEF IInv, TypeOK
<1>6. ASSUME NEW pj \in Project, NEW rp \in Repo, NEW forms \in SUBSET Form,
             Adopt(pj, rp, forms)
      PROVE  IInv'
  <2> DEFINE db2 == Reattribute(Committed, forms, rp)
  <2>1. forms \in SUBSET Referenced(Committed)
    BY <1>6 DEF Adopt, NativeForms
  <2>2. db2 \in Database /\ Sound(db2, rewound)
    BY <1>0, <2>1, ReattributeSound
  <2>3. Committed' = db2
    <3>1. db2 = [payloads |-> db2.payloads, refs |-> db2.refs]
      BY <2>2 DEF Database
    <3>2. payloads' = db2.payloads /\ refs' = db2.refs
      BY <1>6 DEF Adopt, Commit
    <3> HIDE DEF db2
    <3> QED  BY <3>1, <3>2 DEF Committed
  <2>4. batch' = NoBatch /\ rewound' = rewound
    BY <1>6 DEF Adopt, Unlocked
  <2> QED  BY <1>0, <2>2, <2>3, <2>4 DEF IInv, TypeOK
<1>7. CASE UNCHANGED vars
  BY <1>0, <1>7 DEF vars, IInv, TypeOK, Committed
<1> QED  BY <1>1, <1>2, <1>3, <1>4, <1>5, <1>6, <1>7 DEF Next

\* The type invariant and the soundness of every database hold for ever.
THEOREM Soundness ==
  Spec => []IInv
<1>1. Init => IInv
  BY InitSound
<1>2. IInv /\ [Next]_vars => IInv'
  BY NextSound
<1> QED  BY <1>1, <1>2, PTL DEF Spec

\* The tables of store/schema.go and of an open batch keep their types.
THEOREM TypeCorrect ==
  Spec => []TypeOK
<1>1. IInv => TypeOK
  BY DEF IInv
<1> QED  BY <1>1, Soundness, PTL

\* References resolve to archived payloads of their own identity, and the
\* prev_hash chains are cycle-free and stay within one form.
THEOREM ArchiveIsSound ==
  Spec => []ArchiveSound
<1>1. IInv => ArchiveSound
  BY DEF IInv, Sound, ArchiveSound, Databases
<1> QED  BY <1>1, Soundness, PTL

\* Every archived payload of a form that was never rewound is an ancestor of
\* the payload the form's reference points at.
THEOREM HistoryStaysLinked ==
  Spec => []HistoryIsLinked
<1>1. IInv => HistoryIsLinked
  BY DEF IInv, Sound, HistoryIsLinked, Databases
<1> QED  BY <1>1, Soundness, PTL

\* The number allocated to a new row collides with no row of its project and
\* group.
LEMMA FreshNumbers ==
  ASSUME NEW db \in Database, NumbersUnique(db.refs)
  PROVE  FreshNumberFree(db)
<1> SUFFICES ASSUME NEW p \in Put, db.refs[FormOf[p.payload]] = NoRef
             PROVE  NumbersUnique(PutTx(db, p, FALSE).refs)
  BY DEF FreshNumberFree, Refused
<1> DEFINE f == FormOf[p.payload]
<1> DEFINE db2 == PutTx(db, p, FALSE)
<1> DEFINE r2 == db2.refs
<1> DEFINE next == NextNumber(db.refs, p.project, GroupOf[f])
<1>1. f \in Form /\ db.refs \in [Form -> Row \cup {NoRef}]
  BY StoreAssumption DEF Put, Database
<1>2. /\ next \in Nat
      /\ \A n \in NumbersTaken(db.refs, p.project, GroupOf[f]) : n < next
  BY <1>1, NextNumberFree
<1>3. Moves(db, p, FALSE)
  BY DEF Moves, KeptNewer
<1>4. r2[f] = Upsert(db, p) /\ \A g \in Form : g # f => r2[g] = db.refs[g]
  <2>1. r2 = [db.refs EXCEPT ![f] = Upsert(db, p)]
    BY <1>3 DEF PutTx
  <2> QED  BY <1>1, <2>1
<1>5. /\ Upsert(db, p).project = p.project
      /\ Upsert(db, p).number = IF GroupOf[f] = NoGroup THEN 0 ELSE next
  BY DEF Upsert
<1>6. ASSUME NEW g \in Form, g # f, db.refs[g] # NoRef, db.refs[g].number > 0,
             GroupOf[g] = GroupOf[f], db.refs[g].project = p.project
      PROVE  db.refs[g].number # Upsert(db, p).number
  <2>1. db.refs[g].number \in NumbersTaken(db.refs, p.project, GroupOf[f])
    BY <1>6 DEF NumbersTaken
  <2>2. db.refs[g].number \in Nat
    BY <1>1, <1>6 DEF Row
  <2> QED  BY <1>2, <1>5, <1>6, <2>1, <2>2
<1>7. ASSUME NEW e \in Form, NEW g \in Form, e # g, r2[e] # NoRef, r2[g] # NoRef,
             r2[e].number > 0, GroupOf[e] = GroupOf[g], r2[e].project = r2[g].project
      PROVE  r2[e].number # r2[g].number
  <2> HIDE DEF r2, db2, f
  <2>1. CASE e # f /\ g # f
    BY <1>4, <1>7, <2>1 DEF NumbersUnique
  <2>2. CASE g = f
    BY <1>4, <1>5, <1>6, <1>7, <2>2
  <2>3. CASE e = f
    <3>1. db.refs[g] \in Row
      BY <1>1, <1>4, <1>7, <2>3
    <3>2. db.refs[g].number = 0 \/ db.refs[g].number > 0
      BY <3>1 DEF Row
    <3> QED  BY <1>4, <1>5, <1>6, <1>7, <2>3, <3>2
  <2> QED  BY <2>1, <2>2, <2>3
<1> QED  BY <1>7 DEF NumbersUnique

\* Numbers stay unique in a project and group, and a new line can always be
\* stored.
THEOREM NumbersAreSound ==
  Spec => []NumbersSound
<1>1. IInv => NumbersSound
  <2> SUFFICES ASSUME IInv  PROVE NumbersSound
    OBVIOUS
  <2>1. Committed \in Database /\ NumbersUnique(Committed.refs)
    BY DEF IInv, TypeOK, Sound
  <2>2. batch # NoBatch => batch.db \in Database /\ NumbersUnique(batch.db.refs)
    BY DEF IInv, TypeOK, Sound, Batch
  <2> QED  BY <2>1, <2>2, FreshNumbers DEF NumbersSound, Databases
<1> QED  BY <1>1, Soundness, PTL

----------------------------------------------------------------------------
(* What a step may do to the archive and to the references *)

\* A put other than a repoint moves the reference of a form that was never
\* rewound only to a payload the archive did not hold.
LEMMA PutForward ==
  ASSUME NEW db \in Database, NEW p \in Put, NEW ex, Sound(db, ex),
         FormOf[p.payload] \notin ex, p.payload \in Archived(db)
  PROVE  ~Moves(db, p, FALSE)
<1>1. /\ db.refs[FormOf[p.payload]] # NoRef
      /\ IsAncestor(db.payloads, p.payload, db.refs[FormOf[p.payload]].hash)
  BY DEF Sound, LineageComplete
<1>2. Archive(db, p.payload) = db.payloads
  BY DEF Archive, Archived
<1> QED  BY <1>1, <1>2 DEF Moves, KeptNewer

\* db2 holds every row of db as it was, and a reference of db2 that differs
\* from that of db points at a payload db does not hold.
Extends(db2, db, except) ==
  /\ \A h \in Archived(db) : db2.payloads[h] = db.payloads[h]
  /\ \A f \in Form : db.refs[f] # NoRef => db2.refs[f] # NoRef
  /\ \A f \in Form \ except :
       /\ db.refs[f] # NoRef
       /\ db2.refs[f].hash # db.refs[f].hash
       => db2.refs[f].hash \notin Archived(db)

\* A put extends the database, the form it rewinds excepted.
LEMMA PutExtends ==
  ASSUME NEW db \in Database, NEW p \in Put, NEW repoint \in BOOLEAN,
         NEW ex, NEW ex2, ex \subseteq ex2, Sound(db, ex),
         NEW base \in Database, Extends(db, base, ex),
         NEW db2, db2 = PutTx(db, p, repoint),
         /\ repoint
         /\ db.payloads[p.payload] # Absent
         /\ db2.refs[FormOf[p.payload]] # db.refs[FormOf[p.payload]]
         => FormOf[p.payload] \in ex2
  PROVE  Extends(db2, base, ex2)
<1> DEFINE h == p.payload
<1> DEFINE f == FormOf[h]
<1>1. h \in Payload /\ f \in Form
  BY StoreAssumption DEF Put
<1>2. Archived(base) \subseteq Archived(db)
  BY DEF Extends, Archived
<1>3. \A k \in Archived(base) : db2.payloads[k] = base.payloads[k]
  BY <1>1, <1>2, ArchiveFacts, RefsAfterPut DEF Extends, Sound
<1>4. ASSUME NEW g \in Form, base.refs[g] # NoRef
      PROVE  /\ db2.refs[g] # NoRef
             /\ g \notin ex2 /\ db2.refs[g].hash # base.refs[g].hash
                  => db2.refs[g].hash \notin Archived(base)
  <2>1. CASE db2.refs[g] = db.refs[g]
    BY <1>4, <2>1 DEF Extends
  <2>2. CASE db2.refs[g] # db.refs[g]
    <3>1. g = f /\ Moves(db, p, repoint)
      BY <2>2, RefsAfterPut
    <3>2. db2.refs[g] = Upsert(db, p)
      BY <3>1, RefsAfterPut
    <3>3. db2.refs[g] # NoRef /\ db2.refs[g].hash = h
      <4>1. Upsert(db, p) \in Row /\ Upsert(db, p).hash = h
        BY UpsertType DEF Upsert
      <4> QED  BY <3>2, <4>1, NoRefAssumption
    <3>4. g \notin ex2 => h \notin Archived(db)
      <4>1. CASE repoint
        BY <1>1, <1>4, <2>2, <3>1, <4>1 DEF Archived
      <4>2. CASE ~repoint
        BY <1>4, <3>1, <4>2, PutForward
      <4> QED  BY <4>1, <4>2
    <3> QED  BY <1>2, <3>3, <3>4
  <2> QED  BY <2>1, <2>2
<1> QED  BY <1>3, <1>4 DEF Extends

\* An open batch works on an extension of the committed tables.
BatchExtends == batch # NoBatch => Extends(batch.db, Committed, rewound)

\* One step extends the committed tables and keeps a batch an extension.
LEMMA StepExtends ==
  IInv /\ BatchExtends /\ [Next]_vars =>
    /\ BatchExtends'
    /\ Extends(Committed', Committed, rewound')
<1> SUFFICES ASSUME IInv, BatchExtends, [Next]_vars
             PROVE  BatchExtends' /\ Extends(Committed', Committed, rewound')
  OBVIOUS
<1>0. /\ Committed \in Database /\ Sound(Committed, rewound)
      /\ batch # NoBatch => batch \in Batch /\ Sound(batch.db, rewound)
  BY DEF IInv, TypeOK
<1>r. Extends(Committed, Committed, rewound)
  BY DEF Extends
<1>1. ASSUME NEW p \in Put, PutUnit(p)
      PROVE  BatchExtends' /\ Extends(Committed', Committed, rewound')
  <2> DEFINE db2 == PutTx(Committed, p, FALSE)
  <2>1. Extends(db2, Committed, rewound)
    BY <1>0, <1>r, PutExtends
  <2>2. Committed' = db2 /\ batch' = NoBatch /\ rewound' = rewound
    BY <1>1 DEF PutUnit, Unlocked, Commit, Committed, PutTx
  <2> QED  BY <2>1, <2>2 DEF BatchExtends
<1>2. ASSUME NEW p \in Put, RepointUnit(p)
      PROVE  BatchExtends' /\ Extends(Committed', Committed, rewound')
  <2> DEFINE db2 == PutTx(Committed, p, TRUE)
  <2>1. Committed' = db2 /\ refs' = db2.refs /\ refs = Committed.refs /\ batch' = NoBatch
    BY <1>2 DEF RepointUnit, Unlocked, Commit, Committed, PutTx
  <2>2. /\ Committed.payloads[p.payload] # Absent
        /\ db2.refs[FormOf[p.payload]] # Committed.refs[FormOf[p.payload]]
        => FormOf[p.payload] \in rewound'
    BY <1>2, <2>1 DEF RepointUnit, Committed
  <2>3. rewound \subseteq rewound'
    BY <1>2 DEF RepointUnit
  <2>4. Extends(db2, Committed, rewound')
    BY <1>0, <1>r, <2>2, <2>3, PutExtends
  <2> QED  BY <2>1, <2>4 DEF BatchExtends
<1>3. ASSUME NEW p \in Put, BatchPut(p)
      PROVE  BatchExtends' /\ Extends(Committed', Committed, rewound')
  <2> DEFINE db2 == PutTx(BatchDb, p, FALSE)
  <2>1. /\ BatchDb \in Database /\ Sound(BatchDb, rewound)
        /\ Extends(BatchDb, Committed, rewound)
    BY <1>0, <1>r DEF BatchDb, Batch, BatchExtends
  <2>2. Extends(db2, Committed, rewound)
    BY <1>0, <2>1, PutExtends
  <2>3. batch'.db = db2 /\ Committed' = Committed /\ rewound' = rewound
    BY <1>3 DEF BatchPut, Committed
  <2> QED  BY <1>r, <2>2, <2>3 DEF BatchExtends
<1>4. CASE BatchCommit
  <2>1. batch.db \in Database /\ Extends(batch.db, Committed, rewound)
    BY <1>0, <1>4 DEF BatchCommit, Batch, BatchExtends
  <2>2. Committed' = batch.db /\ batch' = NoBatch /\ rewound' = rewound
    BY <1>4, <2>1 DEF BatchCommit, Commit, Committed, Database
  <2> QED  BY <2>1, <2>2 DEF BatchExtends
<1>5. CASE BatchRollback
  BY <1>5, <1>r DEF BatchRollback, BatchExtends, Committed
<1>6. ASSUME NEW pj \in Project, NEW rp \in Repo, NEW forms \in SUBSET Form,
             Adopt(pj, rp, forms)
      PROVE  BatchExtends' /\ Extends(Committed', Committed, rewound')
  <2>1. /\ payloads' = payloads /\ rewound' = rewound /\ batch' = NoBatch
        /\ refs' = [f \in Form |-> IF f \in forms THEN [refs[f] EXCEPT !.repo = rp] ELSE refs[f]]
    BY <1>6 DEF Adopt, Unlocked, Commit, Reattribute, Committed
  <2>2. \A f \in forms : refs[f] \in Row
    BY <1>0, <1>6 DEF Adopt, NativeForms, Referenced, Committed, Database
  <2>3. \A f \in forms : refs'[f] \in Row /\ refs'[f].hash = refs[f].hash
    BY <1>6, <2>1, <2>2 DEF Row
  <2>4. \A f \in Form : f \notin forms => refs'[f] = refs[f]
    BY <2>1
  <2>5. \A f \in Form : refs[f] # NoRef => refs'[f] # NoRef /\ refs'[f].hash = refs[f].hash
    BY <2>3, <2>4, NoRefAssumption
  <2> QED  BY <2>1, <2>5 DEF Extends, BatchExtends, Committed
<1>7. CASE UNCHANGED vars
  BY <1>7, <1>r DEF vars, BatchExtends, Committed
<1> QED  BY <1>1, <1>2, <1>3, <1>4, <1>5, <1>6, <1>7 DEF Next

LEMMA BatchAlwaysExtends ==
  Spec => [](IInv /\ BatchExtends)
<1>1. Init => IInv /\ BatchExtends
  BY InitSound DEF Init, BatchExtends
<1>2. (IInv /\ BatchExtends) /\ [Next]_vars => (IInv /\ BatchExtends)'
  BY NextSound, StepExtends
<1> QED  BY <1>1, <1>2, PTL DEF Spec

\* No put, repoint, batch or adoption rewrites or deletes a payload row.
THEOREM PayloadsWrittenOnce ==
  Spec => WrittenOnce
<1>1. IInv /\ BatchExtends /\ [Next]_vars =>
        [\A h \in Archived(Committed) : payloads'[h] = payloads[h]]_vars
  BY StepExtends DEF Extends, Committed
<1> QED  BY <1>1, BatchAlwaysExtends, PTL DEF Spec, WrittenOnce

\* A reference never returns to a payload the archive already held, unless a
\* repoint moved its form back before or does so now.
THEOREM ReferencesForwardOnly ==
  Spec => ForwardOnly
<1>1. IInv /\ BatchExtends /\ [Next]_vars =>
        [\A f \in Form \ rewound' :
           /\ refs[f] # NoRef
           /\ refs'[f].hash # refs[f].hash
           => refs'[f].hash \notin Archived(Committed)]_vars
  BY StepExtends DEF Extends, Committed
<1> QED  BY <1>1, BatchAlwaysExtends, PTL DEF Spec, ForwardOnly
----------------------------------------------------------------------------
(* The store implements the archive of EkaArchive *)

\* The current payload of every form.
CurrentIn(db) == [f \in Form |-> IF db.refs[f] = NoRef THEN NoRef ELSE db.refs[f].hash]

\* The payloads db2 adds to db and those its references point at.
Committing(db2, db) ==
  (Archived(db2) \ Archived(db)) \cup {db2.refs[f].hash : f \in Referenced(db2)}

\* Replacing a database by a sound extension of it commits a set of payloads:
\* references move to fresh ones, and no fresh one is left behind.
LEMMA ExtensionCommits ==
  ASSUME NEW db \in Database, NEW db2 \in Database, NEW ex,
         Sound(db, ex), Sound(db2, ex), Extends(db2, db, ex),
         NEW P, P = Committing(db2, db),
         NEW c, c = CurrentIn(db), NEW c2, c2 = CurrentIn(db2)
  PROVE  /\ P \in SUBSET Payload
         /\ Archived(db2) = Archived(db) \cup P
         /\ c2 \in [Form -> Payload \cup {NoRef}]
         /\ \A f \in Form :
              \/ c2[f] = c[f]
              \/ /\ c2[f] \in P /\ FormOf[c2[f]] = f
                 /\ c2[f] \in P \ Archived(db) \/ f \in ex
         /\ \A h \in P \ Archived(db) :
              FormOf[h] \notin ex => c2[FormOf[h]] \in P \ Archived(db)
<1>1. \A f \in Referenced(db2) :
        /\ db2.refs[f].hash \in P /\ db2.refs[f].hash \in Archived(db2)
        /\ FormOf[db2.refs[f].hash] = f
  BY DEF Sound, RefsResolve, Committing
<1>2. Archived(db) \subseteq Archived(db2)
  BY DEF Extends, Archived
<1>3. /\ P \in SUBSET Payload
      /\ Archived(db2) = Archived(db) \cup P
  BY <1>1, <1>2 DEF Committing, Archived
<1>4. \A f \in Form :
        /\ c[f] = IF db.refs[f] = NoRef THEN NoRef ELSE db.refs[f].hash
        /\ c2[f] = IF db2.refs[f] = NoRef THEN NoRef ELSE db2.refs[f].hash
  BY DEF CurrentIn
<1>5. c2 \in [Form -> Payload \cup {NoRef}]
  <2>1. \A f \in Form : db2.refs[f] # NoRef => db2.refs[f].hash \in Payload
    BY <1>1, <1>3 DEF Referenced
  <2> QED  BY <2>1 DEF CurrentIn
<1>6. ASSUME NEW f \in Form, c2[f] # c[f]
      PROVE  /\ c2[f] \in P /\ FormOf[c2[f]] = f
             /\ c2[f] \in P \ Archived(db) \/ f \in ex
  <2>1. db2.refs[f] # NoRef
    BY <1>4, <1>6 DEF Extends
  <2>2. c2[f] = db2.refs[f].hash /\ c2[f] \in P /\ FormOf[c2[f]] = f
    BY <1>1, <1>4, <2>1 DEF Referenced
  <2>3. ASSUME f \notin ex  PROVE c2[f] \notin Archived(db)
    <3>1. CASE db.refs[f] = NoRef
      BY <2>2, <2>3, <3>1 DEF Sound, LineageComplete
    <3>2. CASE db.refs[f] # NoRef
      BY <1>4, <1>6, <2>2, <2>3, <3>2 DEF Extends
    <3> QED  BY <3>1, <3>2
  <2> QED  BY <2>2, <2>3
<1>7. ASSUME NEW h \in P \ Archived(db), FormOf[h] \notin ex
      PROVE  c2[FormOf[h]] \in P \ Archived(db)
  <2> DEFINE f == FormOf[h]
  <2>1. h \in Archived(db2) /\ f \in Form
    BY <1>3, StoreAssumption
  <2>2. db2.refs[f] # NoRef /\ IsAncestor(db2.payloads, h, db2.refs[f].hash)
    BY <1>7, <2>1 DEF Sound, LineageComplete
  <2>3. c2[f] = db2.refs[f].hash /\ c2[f] \in P
    BY <1>1, <1>4, <2>1, <2>2 DEF Referenced
  <2>4. LineageClosed(db2.payloads, Archived(db))
    <3>1. \A x \in Archived(db) : db2.payloads[x] = db.payloads[x]
      BY DEF Extends
    <3>2. \A x \in Archived(db) : db.payloads[x] \in Payload => db.payloads[x] \in Archived(db)
      BY StoreAssumption DEF Sound, LineageStaysInForm
    <3> QED  BY <3>1, <3>2 DEF LineageClosed
  <2>5. c2[f] \notin Archived(db)
    <3>1. Archived(db) \in SUBSET Payload
      BY DEF Archived
    <3> QED  BY <1>7, <2>2, <2>3, <2>4, <3>1 DEF IsAncestor
  <2> QED  BY <2>3, <2>5
<1> QED  BY <1>3, <1>5, <1>6, <1>7

\* A put that bypasses the guard makes its payload the current one.
LEMMA RepointRewinds ==
  ASSUME NEW db \in Database, NEW p \in Put, RefsResolve(db)
  PROVE  /\ Archived(PutTx(db, p, TRUE)) = Archived(db) \cup {p.payload}
         /\ CurrentIn(PutTx(db, p, TRUE)) =
              [CurrentIn(db) EXCEPT ![FormOf[p.payload]] = p.payload]
         /\ PutTx(db, p, TRUE).refs[FormOf[p.payload]] # db.refs[FormOf[p.payload]]
              <=> CurrentIn(db)[FormOf[p.payload]] # p.payload
<1> DEFINE h == p.payload
<1> DEFINE f == FormOf[h]
<1> DEFINE db2 == PutTx(db, p, TRUE)
<1>1. h \in Payload /\ f \in Form
  BY StoreAssumption DEF Put
<1>0. /\ db2.payloads = Archive(db, h)
      /\ \A g \in Form : g # f => db2.refs[g] = db.refs[g]
      /\ Moves(db, p, TRUE) => db2.refs[f] = Upsert(db, p)
      /\ ~Moves(db, p, TRUE) => db2.refs = db.refs /\ db.refs[f] # NoRef
  BY RefsAfterPut
<1>6. Upsert(db, p) # NoRef /\ Upsert(db, p).hash = h
  BY UpsertType, NoRefAssumption DEF Upsert
<1> HIDE DEF db2
<1>2. Archived(db2) = Archived(db) \cup {h}
  <2>2. /\ db2.payloads[h] # Absent
        /\ \A k \in Payload : k # h => db2.payloads[k] = db.payloads[k]
    <3>1. /\ Archive(db, h)[h] # Absent
          /\ \A k \in Payload : k # h => Archive(db, h)[k] = db.payloads[k]
      BY <1>1, ArchiveFacts
    <3> QED  BY <1>0, <3>1
  <2> QED  BY <1>1, <2>2 DEF Archived
<1>4. CASE Moves(db, p, TRUE)
  <2>1. db2.refs[f] = Upsert(db, p)
    BY <1>0, <1>4
  <2>2. \A g \in Form : g # f => db2.refs[g] = db.refs[g]
    BY <1>0
  <2>3. db.refs[f] # NoRef => db.refs[f].hash # h
    BY <1>4 DEF Moves
  <2>4. h # NoRef
    BY <1>1, NoRefAssumption
  <2>5. CurrentIn(db2) = [CurrentIn(db) EXCEPT ![f] = h]
    BY <1>1, <1>6, <2>1, <2>2 DEF CurrentIn
  <2>6. CurrentIn(db)[f] # h /\ db2.refs[f] # db.refs[f]
    BY <1>1, <1>6, <2>1, <2>3, <2>4 DEF CurrentIn
  <2> QED  BY <1>2, <2>5, <2>6 DEF db2
<1>5. CASE ~Moves(db, p, TRUE)
  <2>1. db2.refs = db.refs /\ db.refs[f] # NoRef
    BY <1>0, <1>5
  <2>2. db.refs[f].hash = h
    BY <1>5 DEF Moves, KeptNewer
  <2>3. CurrentIn(db)[f] = h
    BY <1>1, <2>1, <2>2 DEF CurrentIn
  <2>4. CurrentIn(db2) = CurrentIn(db)
    BY <2>1 DEF CurrentIn
  <2>5. CurrentIn(db) = [CurrentIn(db) EXCEPT ![f] = h]
    BY <2>3 DEF CurrentIn
  <2> QED  BY <1>2, <2>1, <2>3, <2>4, <2>5 DEF db2
<1> QED  BY <1>4, <1>5 DEF db2
\* What maps to the variables of EkaArchive.
LEMMA MappedState ==
  CurrentOf = CurrentIn(Committed)
BY DEF CurrentOf, CurrentIn, Committed

\* An extension that replaces the committed tables is a Commit of the archive.
LEMMA ExtensionIsCommit ==
  ASSUME IInv, Committed' \in Database, Sound(Committed', rewound),
         Extends(Committed', Committed, rewound), rewound' = rewound
  PROVE  Abstract!ArchiveNext
<1> DEFINE P == Committing(Committed', Committed)
<1>1. CurrentOf' = CurrentIn(Committed')
  BY DEF CurrentOf, CurrentIn, Committed
<1>2. Committed \in Database /\ Sound(Committed, rewound)
  BY DEF IInv, TypeOK
<1>3. /\ P \in SUBSET Payload
      /\ Archived(Committed') = Archived(Committed) \cup P
      /\ CurrentOf' \in [Form -> Payload \cup {NoRef}]
      /\ \A f \in Form :
           \/ CurrentOf'[f] = CurrentOf[f]
           \/ /\ CurrentOf'[f] \in P /\ FormOf[CurrentOf'[f]] = f
              /\ CurrentOf'[f] \in P \ Archived(Committed) \/ f \in rewound
      /\ \A h \in P \ Archived(Committed) :
           FormOf[h] \notin rewound => CurrentOf'[FormOf[h]] \in P \ Archived(Committed)
  <2> HIDE DEF P
  <2> QED  BY <1>1, <1>2, MappedState, ExtensionCommits DEF P
<1>4. Abstract!Commit(P)
  <2> HIDE DEF P
  <2> QED  BY <1>3 DEF Abstract!Commit, Abstract!Eligible, Abstract!Fresh
<1> QED  BY <1>3, <1>4 DEF Abstract!ArchiveNext

\* The tables of a migrated database map to an initial archive.
LEMMA InitIsArchive ==
  Init => Abstract!ArchiveInit
<1> SUFFICES ASSUME Init  PROVE Abstract!ArchiveInit
  OBVIOUS
<1>1. Archived(Committed) = Legacy
  BY LegacyAssumption, StoreAssumption DEF Init, Archived, Committed
<1>2. RefsResolve(Committed) /\ LineageComplete(Committed, rewound)
  BY InitSound DEF IInv, Sound
<1>3. rewound = {}
  BY DEF Init
<1>4. \A f \in Form : CurrentOf[f] = IF refs[f] = NoRef THEN NoRef ELSE refs[f].hash
  BY DEF CurrentOf
<1>5. \A f \in Form : refs[f] # NoRef => refs[f].hash \in Legacy /\ FormOf[refs[f].hash] = f
  BY <1>1, <1>2 DEF RefsResolve, Referenced, Committed
<1>6. NoRef \notin Legacy
  BY LegacyAssumption, NoRefAssumption
<1>7. CurrentOf \in [Form -> Legacy \cup {NoRef}]
  BY <1>5 DEF CurrentOf
<1>8. \A f \in Form : refs[f] = NoRef => \A h \in Legacy : FormOf[h] # f
  BY <1>1, <1>2, <1>3 DEF LineageComplete, Committed
<1> QED  BY <1>1, <1>3, <1>4, <1>5, <1>6, <1>7, <1>8 DEF Abstract!ArchiveInit

\* Every step of the store is a step of the archive or leaves it alone.
LEMMA StepIsArchive ==
  IInv /\ BatchExtends /\ [Next]_vars => [Abstract!ArchiveNext]_(Abstract!archiveVars)
<1> SUFFICES ASSUME IInv, BatchExtends, [Next]_vars
             PROVE  [Abstract!ArchiveNext]_(Abstract!archiveVars)
  OBVIOUS
<1>0. /\ Committed \in Database /\ Sound(Committed, rewound)
      /\ IInv' /\ Extends(Committed', Committed, rewound')
  BY NextSound, StepExtends DEF IInv, TypeOK
<1>1. Committed' \in Database /\ Sound(Committed', rewound')
  BY <1>0 DEF IInv, TypeOK
<1>2. ASSUME rewound' = rewound  PROVE Abstract!ArchiveNext
  BY <1>0, <1>1, <1>2, ExtensionIsCommit
<1>3. ASSUME NEW p \in Put, RepointUnit(p)
      PROVE  Abstract!ArchiveNext
  <2> DEFINE h == p.payload
  <2>1. Committed' = PutTx(Committed, p, TRUE)
    BY <1>3 DEF RepointUnit, Commit, Committed, PutTx
  <2>0. h \in Payload /\ FormOf[h] \in Form
    BY StoreAssumption DEF Put
  <2>2. /\ Archived(Committed') = Archived(Committed) \cup {h}
        /\ CurrentIn(Committed') = [CurrentIn(Committed) EXCEPT ![FormOf[h]] = h]
        /\ Committed'.refs[FormOf[h]] # Committed.refs[FormOf[h]]
             <=> CurrentIn(Committed)[FormOf[h]] # h
    <3>1. RefsResolve(Committed)
      BY <1>0 DEF Sound
    <3> QED  BY <1>0, <2>0, <2>1, <3>1, RepointRewinds
  <2>3. CurrentOf' = CurrentIn(Committed')
    BY DEF CurrentOf, CurrentIn, Committed
  <2>4. CurrentOf' = [CurrentOf EXCEPT ![FormOf[h]] = h]
    BY <2>2, <2>3, MappedState
  <2>5. h \in Archived(Committed) <=> payloads[h] # Absent
    BY <2>0 DEF Archived, Committed
  <2>6. refs'[FormOf[h]] # refs[FormOf[h]] <=> CurrentOf[FormOf[h]] # h
    BY <2>2, MappedState DEF Committed
  <2>7. rewound' = rewound \cup
          {f \in {FormOf[h]} : h \in Archived(Committed) /\ CurrentOf[f] # h}
    BY <1>3, <2>5, <2>6 DEF RepointUnit
  <2>8. Abstract!Rewind(h)
    BY <2>0, <2>2, <2>4, <2>7 DEF Abstract!Rewind
  <2> QED  BY <2>0, <2>8 DEF Abstract!ArchiveNext
<1>4. ASSUME NEW p \in Put, PutUnit(p)  PROVE rewound' = rewound
  BY <1>4 DEF PutUnit
<1>5. ASSUME NEW p \in Put, BatchPut(p)  PROVE rewound' = rewound
  BY <1>5 DEF BatchPut
<1>6. BatchCommit \/ BatchRollback => rewound' = rewound
  BY DEF BatchCommit, BatchRollback
<1>7. ASSUME NEW pj, NEW rp, NEW forms, Adopt(pj, rp, forms)  PROVE rewound' = rewound
  BY <1>7 DEF Adopt
<1>8. UNCHANGED vars => rewound' = rewound
  BY DEF vars
<1> QED  BY <1>2, <1>3, <1>4, <1>5, <1>6, <1>7, <1>8 DEF Next

\* The store keeps the promise of EkaArchive: the archive only grows, a batch
\* becomes visible whole, a fresh payload becomes current and an archived one
\* never does again, unless its form was rewound.
THEOREM StoreImplementsArchive ==
  Spec => IsAnArchive
<1>1. Init => Abstract!ArchiveInit
  BY InitIsArchive
<1>2. IInv /\ BatchExtends /\ [Next]_vars => [Abstract!ArchiveNext]_(Abstract!archiveVars)
  BY StepIsArchive
<1> QED  BY <1>1, <1>2, BatchAlwaysExtends, PTL DEF Spec, IsAnArchive, Abstract!ArchiveSpec
=============================================================================
