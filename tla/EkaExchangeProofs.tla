-------------------------- MODULE EkaExchangeProofs --------------------------
(***************************************************************************)
(* Proofs about EkaExchange for any repositories, trees, edits and bounds. *)
(*                                                                         *)
(* What an import loads is what some export assembled, because the digest  *)
(* that the last entry of a package carries determines every other entry.  *)
(* What an import does to the tree is told from its plan and from the list *)
(* of files it has created: the tree is the author's with those added.     *)
(***************************************************************************)
EXTENDS EkaExchange, EkaLemmas

----------------------------------------------------------------------------
(* Packages *)

\* What an export assembles.
Genuine(p) ==
  \E set \in Origins, request \in Requests \cup {r.request : r \in Received} :
    Exportable(set, request) /\ p = Build(set, request)

\* The digest entry, where there is one, is a genuine package's.
Signed(entries) ==
  Integrity \in DOMAIN entries =>
    \E p \in exported : entries[Integrity] = [digest |-> Body(p)]

PackageInv ==
  /\ \A p \in exported : Genuine(p)
  /\ IsMap(unwritten) /\ Signed(unwritten) /\ Signed(package)
  /\ LoadedIsExported

\* The units of a genuine package are told apart by their forms.
LEMMA GenuineUnits ==
  ASSUME NEW p, Genuine(p)
  PROVE  /\ p = [units |-> p.units, externals |-> p.externals, attachments |-> Attached]
         /\ \E set \in Origins : /\ Refusals(set) = {}
                                 /\ \A u \in p.units : \E a \in set : u = ToUnit(set, a)
         /\ \A u, v \in p.units : Form(u) = Form(v) => u = v
<1>1. PICK set \in Origins, request \in Requests \cup {r.request : r \in Received} :
        Exportable(set, request) /\ p = Build(set, request)
  BY DEF Genuine
<1>2. p.units = {ToUnit(set, a) : a \in Selected(set, request)} /\ Selected(set, request) \subseteq set
  BY <1>1 DEF Build, Selected
<1>3. R1(Repository(set)) /\ Refusals(set) = {}
  BY <1>1 DEF Exportable, Refusals
<1>4. ASSUME NEW a \in set, NEW b \in set, Form(ToUnit(set, a)) = Form(ToUnit(set, b))
      PROVE  a = b
  <2>1. \A c : Form(ToUnit(set, c)) = Form(c)
    BY DEF Form, ToUnit
  <2>2. LineOf(a) = LineOf(b) /\ a.version = b.version
    <3>1. Form(a) = Form(b)
      BY <1>4, <2>1
    <3> QED  BY <3>1 DEF Form, LineOf
  <2> QED  BY <1>3, <2>2 DEF R1, Repository
<1>5. p = [units |-> p.units, externals |-> p.externals, attachments |-> Attached]
  BY <1>1 DEF Build
<1> QED  BY <1>2, <1>3, <1>4, <1>5

\* A unit.json and its content make up the unit again.
LEMMA UnitReassembled ==
  ASSUME NEW set, NEW a, NEW u, u = ToUnit(set, a)
  PROVE  [Metadata(u) EXCEPT !.text = Content(u).text, !.sections = Content(u).sections] = u
BY DEF ToUnit, Metadata, Content

\* The names of the entries of a package.
LEMMA NamesApart ==
  ASSUME NEW p, NEW f, NEW g
  PROVE  /\ Manifest \notin EntryNames(p) /\ Integrity \notin EntryNames(p)
         /\ UnitEntry(f) # ContentEntry(g)
BY DEF EntryNames, Header, Declarations, Manifest, Integrity, UnitEntry, ContentEntry,
       AttachmentEntry


\* What the entries under a digest hold.
LEMMA BodyHolds ==
  ASSUME NEW p, NEW form \in Forms(p.units)
  PROVE  LET unit == CHOOSE u \in p.units : Form(u) = form
         IN  /\ unit \in p.units /\ Form(unit) = form
             /\ Body(p)[UnitEntry(form)] = Metadata(unit)
             /\ Body(p)[ContentEntry(form)] = Content(unit)
<1> DEFINE unit == CHOOSE u \in p.units : Form(u) = form
<1>1. unit \in p.units /\ Form(unit) = form
  BY DEF Forms
<1>2. UnitEntry(form) \in EntryNames(p) /\ ContentEntry(form) \in EntryNames(p)
  BY DEF EntryNames
<1> HIDE DEF unit
<1>3. Body(p)[UnitEntry(form)] = Metadata(unit)
  <2>1. /\ UnitEntry(form) # Header /\ UnitEntry(form) # Declarations
        /\ UnitEntry(form)[1] = "unit" /\ UnitEntry(form)[2] = form
    BY DEF UnitEntry, Header, Declarations
  <2> QED  BY <1>2, <2>1 DEF Body, unit
<1>4. Body(p)[ContentEntry(form)] = Content(unit)
  <2>1. /\ ContentEntry(form) # Header /\ ContentEntry(form) # Declarations
        /\ ContentEntry(form)[1] = "content" /\ ContentEntry(form)[2] = form
    BY DEF ContentEntry, Header, Declarations
  <2> QED  BY <1>2, <2>1 DEF Body, unit
<1> QED  BY <1>1, <1>3, <1>4 DEF unit

LEMMA BodyBeside ==
  ASSUME NEW p
  PROVE  /\ Body(p)[Declarations] = p.externals
         /\ \A a \in DOMAIN p.attachments : Body(p)[AttachmentEntry(a)] = p.attachments[a]
<1>1. Body(p)[Declarations] = p.externals
  <2>1. Declarations # Header /\ Declarations[1] = "declarations"
    BY DEF Declarations, Header
  <2>2. Declarations \in EntryNames(p)
    BY DEF EntryNames
  <2> QED  BY <2>1, <2>2 DEF Body
<1>2. ASSUME NEW a \in DOMAIN p.attachments
      PROVE  Body(p)[AttachmentEntry(a)] = p.attachments[a]
  <2>1. /\ AttachmentEntry(a) # Header /\ AttachmentEntry(a) # Declarations
        /\ AttachmentEntry(a)[1] = "attachment" /\ AttachmentEntry(a)[2] = a
    BY DEF AttachmentEntry, Header, Declarations
  <2>2. AttachmentEntry(a) \in EntryNames(p)
    BY DEF EntryNames
  <2> QED  BY <2>1, <2>2 DEF Body
<1> QED  BY <1>1, <1>2

\* The names under a digest tell the units and the attachments.
LEMMA NamesTell ==
  ASSUME NEW p, NEW entries, DOMAIN entries \ {Manifest, Integrity} = EntryNames(p)
  PROVE  UnitForms(entries) = Forms(p.units) /\ AttachmentPaths(entries) = DOMAIN p.attachments
<1>1. UnitForms(entries) \subseteq Forms(p.units)
  <2> SUFFICES ASSUME NEW n \in DOMAIN entries, n[1] \in {"unit", "content"}
               PROVE  n[2] \in Forms(p.units)
    BY DEF UnitForms
  <2>1. n \in EntryNames(p)
    BY DEF Manifest, Integrity
  <2> QED  BY <2>1 DEF EntryNames, Header, Declarations, UnitEntry, ContentEntry, AttachmentEntry
<1>2. Forms(p.units) \subseteq UnitForms(entries)
  <2> SUFFICES ASSUME NEW form \in Forms(p.units)
               PROVE  form \in UnitForms(entries)
    OBVIOUS
  <2>1. UnitEntry(form) \in DOMAIN entries
    BY DEF EntryNames
  <2>2. UnitEntry(form)[1] = "unit" /\ UnitEntry(form)[2] = form
    BY DEF UnitEntry
  <2> QED  BY <2>1, <2>2 DEF UnitForms
<1>3. AttachmentPaths(entries) \subseteq DOMAIN p.attachments
  <2> SUFFICES ASSUME NEW n \in DOMAIN entries, n[1] = "attachment"
               PROVE  n[2] \in DOMAIN p.attachments
    BY DEF AttachmentPaths
  <2>1. n \in EntryNames(p)
    BY DEF Manifest, Integrity
  <2> QED  BY <2>1 DEF EntryNames, Header, Declarations, UnitEntry, ContentEntry, AttachmentEntry
<1>4. DOMAIN p.attachments \subseteq AttachmentPaths(entries)
  <2> SUFFICES ASSUME NEW a \in DOMAIN p.attachments
               PROVE  a \in AttachmentPaths(entries)
    OBVIOUS
  <2>1. AttachmentEntry(a) \in DOMAIN entries
    BY DEF EntryNames
  <2>2. AttachmentEntry(a)[1] = "attachment" /\ AttachmentEntry(a)[2] = a
    BY DEF AttachmentEntry
  <2> QED  BY <2>1, <2>2 DEF AttachmentPaths
<1> QED  BY <1>1, <1>2, <1>3, <1>4

\* A digest determines the package.
LEMMA DigestTells ==
  ASSUME NEW p, Genuine(p), NEW entries, Digest(entries) = Body(p)
  PROVE  Contents(entries) = p
<1>1. /\ DOMAIN entries \ {Manifest, Integrity} = EntryNames(p)
      /\ \A n \in EntryNames(p) : entries[n] = Body(p)[n]
  <2>1. DOMAIN Body(p) = EntryNames(p)
    BY DEF Body
  <2>2. /\ DOMAIN Digest(entries) = DOMAIN entries \ {Manifest, Integrity}
        /\ \A n \in DOMAIN entries \ {Manifest, Integrity} : Digest(entries)[n] = entries[n]
    BY DEF Digest, Restrict
  <2> QED  BY <2>1, <2>2
<1>2. UnitForms(entries) = Forms(p.units) /\ AttachmentPaths(entries) = DOMAIN p.attachments
  BY <1>1, NamesTell
<1>3. \A u \in p.units : UnitOf(entries, Form(u)) = u
  <2> SUFFICES ASSUME NEW u \in p.units  PROVE UnitOf(entries, Form(u)) = u
    OBVIOUS
  <2>1. Form(u) \in Forms(p.units)
    BY DEF Forms
  <2>2. (CHOOSE v \in p.units : Form(v) = Form(u)) = u
    BY GenuineUnits
  <2>3. Body(p)[UnitEntry(Form(u))] = Metadata(u) /\ Body(p)[ContentEntry(Form(u))] = Content(u)
    BY <2>1, <2>2, BodyHolds
  <2>4. UnitEntry(Form(u)) \in EntryNames(p) /\ ContentEntry(Form(u)) \in EntryNames(p)
    BY <2>1 DEF EntryNames
  <2>5. entries[UnitEntry(Form(u))] = Metadata(u) /\ entries[ContentEntry(Form(u))] = Content(u)
    BY <1>1, <2>3, <2>4
  <2>6. \E set \in Origins : \E a \in set : u = ToUnit(set, a)
    BY GenuineUnits
  <2> QED  BY <2>5, <2>6, UnitReassembled DEF UnitOf
<1>4. {UnitOf(entries, form) : form \in UnitForms(entries)} = p.units
  BY <1>2, <1>3 DEF Forms
<1>5. entries[Declarations] = p.externals
  BY <1>1, BodyBeside DEF EntryNames
<1>6. [a \in AttachmentPaths(entries) |-> entries[AttachmentEntry(a)]] = Attached
  <2>1. p.attachments = Attached /\ IsMap(Attached)
    BY GenuineUnits, ExchangeAssumption
  <2>2. \A a \in DOMAIN Attached : entries[AttachmentEntry(a)] = Attached[a]
    BY <1>1, <2>1, BodyBeside DEF EntryNames
  <2> QED  BY <1>2, <2>1, <2>2 DEF IsMap
<1> QED  BY <1>4, <1>5, <1>6, GenuineUnits DEF Contents

LEMMA AssembledSigned ==
  ASSUME NEW p
  PROVE  Assemble(p)[Integrity] = [digest |-> Body(p)] /\ IsMap(Assemble(p))
<1>1. Manifest # Integrity
  BY DEF Manifest, Integrity
<1> QED  BY <1>1 DEF Assemble, IsMap

\* There is a next entry while there is one.
LEMMA NextEntry ==
  ASSUME NEW entries, IsMap(entries), entries # <<>>
  PROVE  (CHOOSE n \in DOMAIN entries : \A m \in DOMAIN entries : Rank(n) <= Rank(m))
            \in DOMAIN entries
<1>1. DOMAIN entries # {}
  <2> SUFFICES ASSUME DOMAIN entries = {}  PROVE FALSE
    OBVIOUS
  <2>1. entries = [x \in {} |-> entries[x]]
    BY DEF IsMap
  <2>2. <<>> = [x \in {} |-> entries[x]]
    OBVIOUS
  <2> QED  BY <2>1, <2>2
<1> DEFINE S == {Rank(n) : n \in DOMAIN entries}
<1>2. S \subseteq 1..6 /\ S # {}
  BY <1>1 DEF Rank
<1>3. PICK r \in S : \A k \in S : r <= k
  <2> HIDE DEF S
  <2> QED  BY <1>2, LeastElement
<1>4. PICK n \in DOMAIN entries : Rank(n) = r
  BY <1>3
<1>5. \A m \in DOMAIN entries : Rank(n) <= Rank(m)
  BY <1>3, <1>4
<1> QED  BY <1>5

LEMMA ExportKeepsPackages ==
  ASSUME PackageInv, Export
  PROVE  PackageInv'
<1>1. ASSUME NEW set \in Repositories, NEW request \in Requests, ExportBegin(set, request)
      PROVE  PackageInv'
  <2> DEFINE p == Build(set, request)
  <2>1. /\ unwritten' = Assemble(p) /\ exported' = exported \cup {p}
        /\ package' \in {package, <<>>} /\ loaded' = loaded /\ Exportable(set, request)
    BY <1>1 DEF ExportBegin, importVars
  <2>2. Genuine(p)
    BY <2>1 DEF Genuine, Origins
  <2> HIDE DEF p
  <2>3. (\A q \in exported : Genuine(q))'
    BY <2>1, <2>2 DEF PackageInv, Genuine
  <2>4. IsMap(unwritten)' /\ Signed(unwritten)'
    BY <2>1, AssembledSigned DEF Signed, IsMap
  <2>5. Signed(package)'
    <3>1. CASE package' = package
      BY <2>1, <3>1 DEF PackageInv, Signed
    <3>2. CASE package' = <<>>
      <4>1. Integrity \notin DOMAIN package'
        BY <3>2
      <4> QED  BY <4>1 DEF Signed
    <3> QED  BY <2>1, <3>1, <3>2
  <2>6. LoadedIsExported'
    BY <2>1 DEF PackageInv, LoadedIsExported
  <2> QED  BY <2>3, <2>4, <2>5, <2>6 DEF PackageInv
<1>2. CASE ExportWrite
  <2> DEFINE name == CHOOSE n \in DOMAIN unwritten :
                       \A other \in DOMAIN unwritten : Rank(n) <= Rank(other)
  <2>1. name \in DOMAIN unwritten
    BY <1>2, NextEntry DEF PackageInv, ExportWrite
  <2>2. /\ package' = [n \in DOMAIN package \cup {name} |->
                         IF n = name THEN unwritten[n] ELSE package[n]]
        /\ unwritten' = [n \in DOMAIN unwritten \ {name} |-> unwritten[n]]
        /\ exported' = exported /\ loaded' = loaded
    BY <1>2 DEF ExportWrite, Restrict, importVars
  <2> HIDE DEF name
  <2>3. (\A q \in exported : Genuine(q))'
    BY <2>2 DEF PackageInv, Genuine
  <2>4. IsMap(unwritten)' /\ Signed(unwritten)' /\ Signed(package)'
    BY <2>1, <2>2 DEF PackageInv, Signed, IsMap
  <2>5. LoadedIsExported'
    BY <2>2 DEF PackageInv, LoadedIsExported
  <2> QED  BY <2>3, <2>4, <2>5 DEF PackageInv
<1> QED  BY <1>1, <1>2 DEF Export

\* What leaves the package and the export alone keeps the invariant.
LEMMA PackagesStay ==
  ASSUME PackageInv, exported' = exported, package' = package,
         unwritten' \in {unwritten, <<>>}, loaded' \in exported \cup {loaded, NoPackage}
  PROVE  PackageInv'
<1>1. (\A q \in exported : Genuine(q))' /\ Signed(package)' /\ LoadedIsExported'
  BY DEF PackageInv, Genuine, Signed, LoadedIsExported
<1>2. IsMap(unwritten)' /\ Signed(unwritten)'
  <2>1. CASE unwritten' = unwritten
    BY <2>1 DEF PackageInv, Signed, IsMap
  <2>2. CASE unwritten' = <<>>
    <3>1. Integrity \notin DOMAIN unwritten' /\ <<>> = [x \in {} |-> <<>>[x]]
      BY <2>2
    <3> QED  BY <2>2, <3>1 DEF Signed, IsMap
  <2> QED  BY <2>1, <2>2
<1> QED  BY <1>1, <1>2 DEF PackageInv

LEMMA PackageStep ==
  ASSUME PackageInv, [Next]_vars
  PROVE  PackageInv'
<1>1. CASE Export
  BY <1>1, ExportKeepsPackages
<1>2. CASE ExportStops
  BY <1>2, PackagesStay DEF ExportStops, importVars
<1>3. CASE ImportGate
  BY <1>3, PackagesStay DEF ImportGate, exportVars
<1>4. CASE Import
  <2>1. CASE ImportLoad
    <3>1. CASE loaded' = loaded
      BY <2>1, <3>1, PackagesStay DEF ImportLoad, exportVars
    <3>2. CASE loaded' # loaded
      <4>1. Readable(package) /\ loaded' = Contents(package) /\ UNCHANGED exportVars
        BY <2>1, <3>2 DEF ImportLoad, Refuse
      <4>2. /\ Integrity \in DOMAIN package
            /\ package[Integrity].digest = Digest(package)
        BY <4>1 DEF Readable, Consistent
      <4>3. PICK p \in exported : package[Integrity] = [digest |-> Body(p)]
        BY <4>2 DEF PackageInv, Signed
      <4>4. Digest(package) = Body(p) /\ Genuine(p)
        BY <4>2, <4>3 DEF PackageInv
      <4>5. loaded' \in exported
        BY <4>1, <4>4, DigestTells
      <4> QED  BY <4>1, <4>5, PackagesStay DEF exportVars
    <3> QED  BY <3>1, <3>2
  <2>2. CASE ~ImportLoad
    <3>1. UNCHANGED <<exportVars, loaded>>
      BY <1>4, <2>2 DEF Import, ImportClassify, ImportPlan, ImportWrite, ImportWriteFails,
         ImportValidate, RollbackFile, RollbackFolders, Refuse
    <3> QED  BY <3>1, PackagesStay DEF exportVars
  <2> QED  BY <2>1, <2>2
<1>5. CASE ImportCrash
  BY <1>5, PackagesStay DEF ImportCrash, exportVars
<1>6. ASSUME NEW edit \in Edits, AuthorEdit(edit)  PROVE PackageInv'
  BY <1>6, PackagesStay DEF AuthorEdit, exportVars, importVars
<1>7. CASE UNCHANGED vars
  BY <1>7, PackagesStay DEF vars, exportVars, importVars
<1> QED  BY <1>1, <1>2, <1>3, <1>4, <1>5, <1>6, <1>7 DEF Next

LEMMA PackageInit ==
  ASSUME Init
  PROVE  PackageInv
<1>1. PICK r \in Received : /\ Exportable(r.set, r.request)
                            /\ package = Assemble(Build(r.set, r.request))
                            /\ exported = {Build(r.set, r.request)}
  BY DEF Init
<1>2. \A p \in exported : Genuine(p)
  BY <1>1 DEF Genuine, Origins
<1>3. Signed(package)
  BY <1>1, AssembledSigned DEF Signed
<1>4. IsMap(unwritten) /\ Signed(unwritten)
  <2>1. unwritten = <<>> /\ <<>> = [x \in {} |-> <<>>[x]]
    BY DEF Init
  <2>2. Integrity \notin DOMAIN unwritten
    BY <2>1
  <2> QED  BY <2>1, <2>2 DEF IsMap, Signed
<1>5. LoadedIsExported
  BY DEF Init, LoadedIsExported
<1> QED  BY <1>2, <1>3, <1>4, <1>5 DEF PackageInv

LEMMA PackageInvHolds == Spec => []PackageInv
<1>1. Init => PackageInv
  BY PackageInit
<1>2. PackageInv /\ [Next]_vars => PackageInv'
  BY PackageStep
<1> QED  BY <1>1, <1>2, PTL DEF Spec

\* loadPackage: whatever lies at the package path while exports write there,
\* overtake one another or are killed, an import that accepts it has read a
\* package that one export assembled, and all of it.
THEOREM LoadsWhatWasExported == Spec => []LoadedIsExported
<1>1. PackageInv => LoadedIsExported
  BY DEF PackageInv
<1> QED  BY <1>1, PackageInvHolds, PTL

----------------------------------------------------------------------------
(* The tree *)

\* Where an import may want to write.
Paths == DOMAIN Attached \cup UNION {{PathOf(a) : a \in set} : set \in Origins}

Planned == {op.path : op \in plan}
Written == {created[i] : i \in DOMAIN created}

\* The tree is the one without the import, and some of the files it created.
TreeInv ==
  /\ IsMap(tree) /\ IsMap(without)
  /\ created \in Seq(Paths) /\ (pc \in {"plan", "write", "rollback"} => Planned \subseteq Paths)
  /\ AuthorKept
  /\ pc \in {"load", "index", "plan", "refused"} =>
       tree = without /\ created = <<>> /\ createdDirs = {}
  /\ pc \in {"write", "rollback"} =>
       /\ DOMAIN without \cap (Planned \cup Written) = {}
       /\ DOMAIN tree \subseteq DOMAIN without \cup Written
  /\ pc = "failed" => tree = without
  /\ folders \subseteq foldersWithout \cup createdDirs
  /\ pc \in {"refused", "failed"} => folders \subseteq foldersWithout

LEMMA EqualMaps ==
  ASSUME NEW f, NEW g, IsMap(f), IsMap(g), DOMAIN f = DOMAIN g,
         \A x \in DOMAIN g : f[x] = g[x]
  PROVE  f = g
<1>1. [x \in DOMAIN f |-> f[x]] = [x \in DOMAIN g |-> g[x]]
  OBVIOUS
<1> QED  BY <1>1 DEF IsMap

LEMMA LoadedPaths ==
  ASSUME PackageInv
  PROVE  /\ \A u \in loaded.units : PathOf(u) \in Paths
         /\ DOMAIN loaded.attachments \subseteq DOMAIN Attached
<1>1. CASE loaded = NoPackage
  <2>1. DOMAIN loaded.attachments = {} /\ loaded.units = {}
    BY <1>1 DEF NoPackage
  <2> QED  BY <2>1
<1>2. CASE loaded # NoPackage
  <2>1. Genuine(loaded)
    BY <1>2 DEF PackageInv, LoadedIsExported
  <2>2. PICK set \in Origins : \A u \in loaded.units : \E a \in set : u = ToUnit(set, a)
    BY <2>1, GenuineUnits
  <2>3. \A a : PathOf(ToUnit(set, a)) = PathOf(a)
    BY DEF PathOf, ToUnit, FileOf
  <2>4. \A u \in loaded.units : PathOf(u) \in Paths
    BY <2>2, <2>3 DEF Paths
  <2>5. loaded.attachments = Attached
    BY <2>1, GenuineUnits
  <2> QED  BY <2>4, <2>5
<1> QED  BY <1>1, <1>2

\* A step that leaves the tree and moves on, or gives up before the commit.
LEMMA ClassifyKeepsTree ==
  ASSUME PackageInv, TreeInv, ImportLoad \/ ImportClassify \/ ImportPlan
  PROVE  TreeInv'
<1>0. /\ UNCHANGED <<treeVars, created, createdDirs>>
      /\ pc \in {"load", "index", "plan"} /\ pc' \in {"index", "plan", "write", "refused"}
  BY DEF ImportLoad, ImportClassify, ImportPlan, Refuse
<1>1. /\ tree = without /\ created = <<>> /\ createdDirs = {} /\ folders \subseteq foldersWithout
      /\ Written = {}
  BY <1>0 DEF TreeInv, Written
<1>2. pc' \in {"plan", "write"} => Planned' \subseteq Paths
  <2>1. CASE ImportClassify
    <3>1. CASE pc' = "plan"
      <4>1. \A op \in plan' :
              \/ \E u \in loaded.units : op.path = PathOf(u)
              \/ op.path \in DOMAIN loaded.attachments
        BY <2>1, <3>1 DEF ImportClassify, Refuse, NewUnits
      <4> QED  BY <4>1, LoadedPaths DEF Planned, Paths
    <3>2. CASE pc' # "plan"
      BY <2>1, <3>2 DEF ImportClassify, Refuse
    <3> QED  BY <3>1, <3>2
  <2>2. CASE ImportPlan
    BY <2>2 DEF ImportPlan, Refuse, TreeInv, Planned
  <2>3. CASE ImportLoad
    BY <2>3 DEF ImportLoad, Refuse
  <2> QED  BY <2>1, <2>2, <2>3
<1>3. pc' = "write" => DOMAIN without' \cap (Planned' \cup Written') = {}
  <2> SUFFICES ASSUME pc' = "write"  PROVE DOMAIN without' \cap (Planned' \cup Written') = {}
    OBVIOUS
  <2>1. ImportPlan /\ FreeTargets(plan) /\ plan' = plan
    BY DEF ImportLoad, ImportClassify, ImportPlan, Refuse
  <2>2. Planned' = Planned /\ Written' = {} /\ without' = tree
    BY <1>0, <1>1, <2>1 DEF Planned, Written, treeVars, historyVars
  <2> QED  BY <2>1, <2>2 DEF FreeTargets, Planned
<1>4. /\ tree' = tree /\ without' = without /\ folders' = folders
      /\ foldersWithout' = foldersWithout /\ created' = created /\ createdDirs' = createdDirs
  BY <1>0 DEF treeVars, historyVars
<1>5. AuthorKept'
  BY <1>4 DEF TreeInv, AuthorKept
<1>6. IsMap(tree)' /\ IsMap(without)' /\ created' \in Seq(Paths)
  BY <1>4 DEF TreeInv, IsMap
<1> QED  BY <1>0, <1>1, <1>2, <1>3, <1>4, <1>5, <1>6 DEF TreeInv

LEMMA WriteKeepsTree ==
  ASSUME PackageInv, TreeInv, ImportWrite
  PROVE  TreeInv'
<1>1. PICK op \in Ready(plan) :
        LET folder == op.path.file.folder
        IN  /\ tree' = [p \in DOMAIN tree \cup {op.path} |->
                          IF p = op.path THEN FileFor(op) ELSE tree[p]]
            /\ folders' = folders \cup {folder}
            /\ createdDirs' = createdDirs \cup ({folder} \ folders)
            /\ created' = Append(created, op.path)
            /\ plan' = plan \ {op}
  BY DEF ImportWrite
<1> DEFINE path == op.path
<1>2. op \in plan /\ path \in Planned
  BY <1>1 DEF Ready, Free, Planned
<1>3. /\ pc = "write" /\ pc' = "write" /\ UNCHANGED historyVars
      /\ created \in Seq(Paths) /\ path \in Paths /\ Planned' \subseteq Planned
      /\ DOMAIN without \cap (Planned \cup Written) = {}
      /\ DOMAIN tree \subseteq DOMAIN without \cup Written
  BY <1>1, <1>2 DEF ImportWrite, TreeInv, Planned
<1>4. Written' = Written \cup {path} /\ created' \in Seq(Paths)
  <2>1. created' = Append(created, path)
    BY <1>1
  <2> HIDE DEF path
  <2> QED  BY <1>3, <2>1 DEF Written
<1>5. /\ DOMAIN tree' = DOMAIN tree \cup {path} /\ IsMap(tree')
      /\ \A p \in DOMAIN tree \ {path} : tree'[p] = tree[p]
  BY <1>1 DEF IsMap
<1>6. folders' \subseteq foldersWithout' \cup createdDirs'
  BY <1>1, <1>3 DEF TreeInv, historyVars
<1> HIDE DEF path
<1>7. without' = without /\ IsMap(without)' /\ AuthorKept'
  BY <1>2, <1>3, <1>5 DEF TreeInv, historyVars, AuthorKept, IsMap
<1>8. /\ (DOMAIN without \cap (Planned \cup Written) = {})'
      /\ (DOMAIN tree \subseteq DOMAIN without \cup Written)'
  BY <1>2, <1>3, <1>4, <1>5, <1>7
<1> QED  BY <1>3, <1>4, <1>5, <1>6, <1>7, <1>8 DEF TreeInv

LEMMA WriteFailureKeepsTree ==
  ASSUME TreeInv, ImportWriteFails \/ ImportValidate \/ ImportCrash
  PROVE  TreeInv'
<1>1. /\ UNCHANGED <<tree, historyVars, plan, created>>
      /\ pc' \in {"rollback", "done", "idle"} /\ (pc' = "rollback" => pc = "write")
      /\ folders' \subseteq folders \cup createdDirs'
      /\ createdDirs \subseteq createdDirs'
  <2>1. CASE ImportWriteFails
    <3>1. PICK op : /\ folders' = folders \cup {op.path.file.folder}
                    /\ createdDirs' = createdDirs \cup ({op.path.file.folder} \ folders)
      BY <2>1 DEF ImportWriteFails
    <3>2. /\ UNCHANGED <<tree, historyVars, plan, created>> /\ pc = "write" /\ pc' = "rollback"
      BY <2>1 DEF ImportWriteFails, historyVars
    <3> QED  BY <3>1, <3>2
  <2>2. CASE ImportValidate \/ ImportCrash
    BY <2>2 DEF ImportValidate, ImportCrash, treeVars
  <2> QED  BY <2>1, <2>2
<1>2. Planned' = Planned /\ Written' = Written /\ AuthorKept'
  BY <1>1 DEF Planned, Written, AuthorKept, TreeInv, historyVars
<1> QED  BY <1>1, <1>2 DEF TreeInv, historyVars, IsMap

LEMMA RollbackKeepsTree ==
  ASSUME TreeInv, RollbackFile
  PROVE  TreeInv'
<1> DEFINE path == Head(created)
<1>1. /\ pc = "rollback" /\ pc' = "rollback" /\ created # <<>> /\ created \in Seq(Paths)
      /\ created' = Tail(created) /\ UNCHANGED <<plan, createdDirs, folders, historyVars>>
      /\ tree' = [p \in DOMAIN tree \ {path} |-> tree[p]]
      /\ DOMAIN without \cap (Planned \cup Written) = {}
      /\ DOMAIN tree \subseteq DOMAIN without \cup Written
  BY DEF RollbackFile, TreeInv, Restrict
<1>2. /\ Written = {path} \cup Written' /\ created' \in Seq(Paths)
  <2>1. \A i \in DOMAIN created : i = 1 \/ (i - 1 \in DOMAIN created' /\ created'[i - 1] = created[i])
    BY <1>1
  <2>2. \A i \in DOMAIN created' : i + 1 \in DOMAIN created /\ created'[i] = created[i + 1]
    BY <1>1
  <2>3. 1 \in DOMAIN created /\ path = created[1]
    BY <1>1
  <2>4. created' \in Seq(Paths)
    BY <1>1
  <2> HIDE DEF path
  <2> QED  BY <2>1, <2>2, <2>3, <2>4 DEF Written
<1> HIDE DEF path
<1>3. /\ Planned' = Planned /\ path \notin DOMAIN without /\ without' = without
      /\ foldersWithout' = foldersWithout
  BY <1>1, <1>2 DEF Planned, historyVars
<1>4. AuthorKept' /\ IsMap(tree)' /\ IsMap(without)'
  BY <1>1, <1>3 DEF TreeInv, AuthorKept, IsMap
<1>5. (DOMAIN tree \subseteq DOMAIN without \cup Written)'
  BY <1>1, <1>2, <1>3
<1>6. (DOMAIN without \cap (Planned \cup Written) = {})'
  BY <1>1, <1>2, <1>3
<1> QED  BY <1>1, <1>2, <1>3, <1>4, <1>5, <1>6 DEF TreeInv

LEMMA RollbackEndsKeepsTree ==
  ASSUME TreeInv, RollbackFolders
  PROVE  TreeInv'
<1>1. /\ pc = "rollback" /\ pc' \in {"dirty", "failed"} /\ created = <<>>
      /\ UNCHANGED <<tree, created, createdDirs, historyVars>>
      /\ folders' = folders \ (createdDirs \ FoldersOf(tree))
      /\ pc' = "failed" => createdDirs \cap FoldersOf(tree) = {}
  BY DEF RollbackFolders
<1>2. Written = {} /\ DOMAIN tree \subseteq DOMAIN without /\ AuthorKept
  BY <1>1 DEF TreeInv, Written
<1>3. tree = without
  BY <1>2, EqualMaps DEF TreeInv, AuthorKept
<1>4. AuthorKept'
  BY <1>1, <1>2 DEF AuthorKept, historyVars
<1>5. pc' = "failed" => folders' \subseteq foldersWithout'
  BY <1>1 DEF TreeInv, historyVars
<1> QED  BY <1>1, <1>3, <1>4, <1>5 DEF TreeInv, historyVars, IsMap

\* An import begins with nothing done, whatever is in the tree.
LEMMA GateGivesTree ==
  ASSUME IsMap(tree), ImportGate
  PROVE  TreeInv'
<1>1. /\ tree' = tree /\ without' = tree /\ folders' = folders /\ foldersWithout' = folders
      /\ created' = <<>> /\ createdDirs' = {} /\ pc' \in {"load", "refused"}
  BY DEF ImportGate
<1>2. <<>> \in Seq(Paths)
  OBVIOUS
<1> QED  BY <1>1, <1>2 DEF TreeInv, AuthorKept, IsMap

\* What does not touch the import or the tree.
LEMMA ElsewhereKeepsTree ==
  ASSUME TreeInv, UNCHANGED <<importVars, treeVars>>
  PROVE  TreeInv'
<1>1. Planned' = Planned /\ Written' = Written /\ AuthorKept'
  BY DEF Planned, Written, AuthorKept, TreeInv, importVars, treeVars, historyVars
<1> QED  BY <1>1 DEF TreeInv, importVars, treeVars, historyVars, IsMap

\* Every step but the author's.
LEMMA OthersKeepTree ==
  ASSUME PackageInv, TreeInv,
         Export \/ ExportStops \/ ImportGate \/ Import \/ ImportCrash \/ UNCHANGED vars
  PROVE  TreeInv'
<1>1. CASE Export \/ ExportStops \/ UNCHANGED vars
  <2>1. UNCHANGED <<importVars, treeVars>>
    BY <1>1 DEF Export, ExportStops, ExportWrite, ExportBegin, vars
  <2> QED  BY <2>1, ElsewhereKeepsTree
<1>2. CASE ImportGate
  BY <1>2, GateGivesTree DEF TreeInv
<1>3. CASE Import
  BY <1>3, ClassifyKeepsTree, WriteKeepsTree, WriteFailureKeepsTree, RollbackKeepsTree,
     RollbackEndsKeepsTree DEF Import
<1>4. CASE ImportCrash
  BY <1>4, WriteFailureKeepsTree
<1> QED  BY <1>1, <1>2, <1>3, <1>4

\* What the author writes does not lie where a running import is to write or
\* has written.
Apart(edit) ==
  pc \in {"write", "rollback"} /\ edit.file # NoFile => edit.path \notin Planned \cup Written

LEMMA AfterEdit ==
  ASSUME NEW t, NEW edit
  PROVE  /\ IsMap(After(t, edit))
         /\ edit.file = NoFile =>
              /\ DOMAIN After(t, edit) = DOMAIN t \ {edit.path}
              /\ \A p \in DOMAIN t \ {edit.path} : After(t, edit)[p] = t[p]
         /\ edit.file # NoFile =>
              /\ DOMAIN After(t, edit) = DOMAIN t \cup {edit.path}
              /\ After(t, edit)[edit.path] = edit.file
              /\ \A p \in DOMAIN t \ {edit.path} : After(t, edit)[p] = t[p]
<1>1. CASE edit.file = NoFile
  BY <1>1 DEF After, Restrict, IsMap
<1>2. CASE edit.file # NoFile
  BY <1>2 DEF After, IsMap
<1> QED  BY <1>1, <1>2

LEMMA EditKeepsTree ==
  ASSUME TreeInv, NEW edit \in Edits, AuthorEdit(edit), Apart(edit)
  PROVE  TreeInv'
<1>1. /\ tree' = After(tree, edit) /\ without' = After(without, edit)
      /\ folders' = folders \cup {edit.path.file.folder}
      /\ foldersWithout' = foldersWithout \cup {edit.path.file.folder}
      /\ UNCHANGED importVars
  BY DEF AuthorEdit
<1>2. IsMap(tree') /\ IsMap(without')
  BY <1>1, AfterEdit
<1> DEFINE path == edit.path
<1>8. ASSUME edit.file = NoFile
      PROVE  /\ DOMAIN tree' = DOMAIN tree \ {path} /\ DOMAIN without' = DOMAIN without \ {path}
             /\ \A p \in DOMAIN tree \ {path} : tree'[p] = tree[p]
             /\ \A p \in DOMAIN without \ {path} : without'[p] = without[p]
  <2>1. /\ DOMAIN tree' = DOMAIN tree \ {path}
        /\ \A p \in DOMAIN tree \ {path} : tree'[p] = tree[p]
    BY <1>1, <1>8, AfterEdit
  <2>2. /\ DOMAIN without' = DOMAIN without \ {path}
        /\ \A p \in DOMAIN without \ {path} : without'[p] = without[p]
    BY <1>1, <1>8, AfterEdit
  <2> QED  BY <2>1, <2>2
<1>9. ASSUME edit.file # NoFile
      PROVE  /\ DOMAIN tree' = DOMAIN tree \cup {path} /\ DOMAIN without' = DOMAIN without \cup {path}
             /\ tree'[path] = without'[path]
             /\ \A p \in DOMAIN tree \ {path} : tree'[p] = tree[p]
             /\ \A p \in DOMAIN without \ {path} : without'[p] = without[p]
  <2>1. /\ DOMAIN tree' = DOMAIN tree \cup {path} /\ tree'[path] = edit.file
        /\ \A p \in DOMAIN tree \ {path} : tree'[p] = tree[p]
    BY <1>1, <1>9, AfterEdit
  <2>2. /\ DOMAIN without' = DOMAIN without \cup {path} /\ without'[path] = edit.file
        /\ \A p \in DOMAIN without \ {path} : without'[p] = without[p]
    BY <1>1, <1>9, AfterEdit
  <2> QED  BY <2>1, <2>2
<1> HIDE DEF path
<1>3. AuthorKept'
  <2>1. \A p \in DOMAIN without : p \in DOMAIN tree /\ tree[p] = without[p]
    BY DEF TreeInv, AuthorKept
  <2>2. CASE edit.file = NoFile
    BY <1>8, <2>1, <2>2 DEF AuthorKept
  <2>3. CASE edit.file # NoFile
    BY <1>9, <2>1, <2>3 DEF AuthorKept
  <2> QED  BY <2>2, <2>3
<1>4. Planned' = Planned /\ Written' = Written
  BY <1>1 DEF Planned, Written, importVars
<1>5. ASSUME pc \in {"write", "rollback"}
      PROVE  /\ DOMAIN without' \cap (Planned \cup Written) = {}
             /\ DOMAIN tree' \subseteq DOMAIN without' \cup Written
  <2>1. /\ DOMAIN without \cap (Planned \cup Written) = {}
        /\ DOMAIN tree \subseteq DOMAIN without \cup Written
    BY <1>5 DEF TreeInv
  <2>2. CASE edit.file = NoFile
    BY <1>8, <2>1, <2>2
  <2>3. CASE edit.file # NoFile
    <3>1. path \notin Planned \cup Written
      BY <1>5, <2>3 DEF Apart, path
    <3> QED  BY <1>9, <2>1, <2>3, <3>1
  <2> QED  BY <2>2, <2>3
<1>6. /\ pc' = pc /\ created' = created /\ createdDirs' = createdDirs
  BY <1>1 DEF importVars
<1>7. tree = without => tree' = without'
  BY <1>1
<1> QED  BY <1>1, <1>2, <1>3, <1>4, <1>5, <1>6, <1>7 DEF TreeInv

LEMMA TreeInit ==
  ASSUME Init
  PROVE  TreeInv
<1>1. tree \in Trees /\ without = tree /\ created = <<>> /\ pc = "idle" /\ foldersWithout = folders
  BY DEF Init
<1>2. IsMap(tree) /\ <<>> \in Seq(Paths)
  BY <1>1, ExchangeAssumption
<1> QED  BY <1>1, <1>2 DEF TreeInv, AuthorKept, IsMap

\* The whole with an author who keeps apart from what an import is writing.
ApartNext ==
  \/ Export \/ ExportStops
  \/ ImportGate \/ Import \/ ImportCrash
  \/ \E edit \in Edits : Apart(edit) /\ AuthorEdit(edit)

LEMMA ApartIsNext == ApartNext => Next
BY DEF ApartNext, Next

LEMMA TreeInvHolds == Init /\ [][ApartNext]_vars => [](PackageInv /\ TreeInv)
<1>1. Init => PackageInv /\ TreeInv
  BY PackageInit, TreeInit
<1>2. PackageInv /\ TreeInv /\ [ApartNext]_vars => (PackageInv /\ TreeInv)'
  <2> SUFFICES ASSUME PackageInv, TreeInv, [ApartNext]_vars
               PROVE  PackageInv' /\ TreeInv'
    OBVIOUS
  <2>1. PackageInv'
    BY ApartIsNext, PackageStep
  <2>2. CASE Export \/ ExportStops \/ ImportGate \/ Import \/ ImportCrash \/ UNCHANGED vars
    BY <2>1, <2>2, OthersKeepTree
  <2>3. ASSUME NEW edit \in Edits, Apart(edit), AuthorEdit(edit)  PROVE TreeInv'
    BY <2>3, EditKeepsTree
  <2> QED  BY <2>1, <2>2, <2>3 DEF ApartNext
<1> QED  BY <1>1, <1>2, PTL

\* "no overwrite, no delete" (classify, buildWritePlan, rollback): whatever an
\* import writes, fails to write, takes back or leaves behind when it is killed,
\* the files of an author who keeps apart from it are as the author left them.
THEOREM AuthorIsKept == Init /\ [][ApartNext]_vars => []AuthorKept
<1>1. PackageInv /\ TreeInv => AuthorKept
  BY DEF TreeInv
<1> QED  BY <1>1, TreeInvHolds, PTL

\* repoWriter.rollback: an import that says it was refused or rolled back has
\* left no file and no folder behind, and has taken none away.
THEOREM RefusalIsClean == Init /\ [][ApartNext]_vars => []CleanRefusal
<1>1. PackageInv /\ TreeInv => CleanRefusal
  BY DEF TreeInv, CleanRefusal
<1> QED  BY <1>1, TreeInvHolds, PTL

----------------------------------------------------------------------------
(* The gate *)

\* What the gate finds nothing wrong with keeps every rule, and the converse.
KeepsRules(env, a) ==
  /\ R0(a) /\ R2(env, a) /\ R3(a) /\ R4(a) /\ R5(env, a) /\ R6(env, a)
  /\ R7(a) /\ R8(env, a) /\ R9(env, a) /\ R11(a) /\ R12(env, a) /\ R13(env, a)

LEMMA RulesKept ==
  ASSUME NEW env, NEW a, Broken(env, a) = {}
  PROVE  KeepsRules(env, a)
<1>0. \A r : r \notin Broken(env, a)
  OBVIOUS
<1>1. R0(a)
  <2>1. "R0" \notin Broken(env, a)
    BY <1>0
  <2> QED  BY <2>1 DEF Broken
<1>2. R2(env, a)
  <2>1. "R2" \notin Broken(env, a)
    BY <1>0
  <2> QED  BY <2>1 DEF Broken
<1>3. R3(a)
  <2>1. "R3" \notin Broken(env, a)
    BY <1>0
  <2> QED  BY <2>1 DEF Broken
<1>4. R4(a)
  <2>1. "R4" \notin Broken(env, a)
    BY <1>0
  <2> QED  BY <2>1 DEF Broken
<1>5. R5(env, a)
  <2>1. "R5" \notin Broken(env, a)
    BY <1>0
  <2> QED  BY <2>1 DEF Broken
<1>6. R6(env, a)
  <2>1. "R6" \notin Broken(env, a)
    BY <1>0
  <2> QED  BY <2>1 DEF Broken
<1>7. R7(a)
  <2>1. "R7" \notin Broken(env, a)
    BY <1>0
  <2> QED  BY <2>1 DEF Broken
<1>8. R8(env, a)
  <2>1. "R8" \notin Broken(env, a)
    BY <1>0
  <2> QED  BY <2>1 DEF Broken
<1>9. R9(env, a)
  <2>1. "R9" \notin Broken(env, a)
    BY <1>0
  <2> QED  BY <2>1, <1>4 DEF Broken
<1>10. R11(a)
  <2>1. "R11" \notin Broken(env, a)
    BY <1>0
  <2> QED  BY <2>1 DEF Broken
<1>11. R12(env, a)
  <2>1. "R12" \notin Broken(env, a)
    BY <1>0
  <2> QED  BY <2>1 DEF Broken
<1>12. R13(env, a)
  <2>1. "R13" \notin Broken(env, a)
    BY <1>0
  <2> QED  BY <2>1, <1>4 DEF Broken
<1> QED
  BY <1>1, <1>2, <1>3, <1>4, <1>5, <1>6, <1>7, <1>8, <1>9, <1>10, <1>11, <1>12
  DEF KeepsRules

LEMMA GateAsks ==
  ASSUME NEW set
  PROVE  Refusals(set) = {} <=>
           R1(Repository(set)) /\ \A a \in set : KeepsRules(Repository(set), a)
<1>1. ASSUME Refusals(set) = {}
      PROVE  R1(Repository(set)) /\ \A a \in set : KeepsRules(Repository(set), a)
  <2>1. R1(Repository(set)) /\ \A a \in set : Broken(Repository(set), a) = {}
    BY <1>1 DEF Refusals
  <2> QED  BY <2>1, RulesKept
<1>2. ASSUME R1(Repository(set)), \A a \in set : KeepsRules(Repository(set), a)
      PROVE  Refusals(set) = {}
  <2>1. SUFFICES ASSUME NEW a \in set, NEW r \in Broken(Repository(set), a)  PROVE FALSE
    BY <1>2 DEF Refusals
  <2>2. KeepsRules(Repository(set), a)
    BY <1>2
  <2>3. r \in {"R0", "R2", "R3", "R4", "R5", "R6"} \/ r \in {"R7", "R8", "R9", "R11", "R12", "R13"}
    BY <2>1 DEF Broken
  <2>4. CASE r \in {"R0", "R2", "R3", "R4", "R5", "R6"}
    BY <2>1, <2>2, <2>4 DEF Broken, KeepsRules
  <2>5. CASE r \in {"R7", "R8", "R9", "R11", "R12", "R13"}
    BY <2>1, <2>2, <2>5 DEF Broken, KeepsRules
  <2> QED  BY <2>3, <2>4, <2>5
<1> QED  BY <1>1, <1>2

\* A reference that an instance answers to is resolved, among valid artifacts.
LEMMA ResolveFinds ==
  ASSUME NEW set, NEW ref, NEW b \in set, Names(ref, b), \A a \in set : R0(a)
  PROVE  Resolve(set, ref) # {}
<1> DEFINE S == {a.version : a \in {c \in set : Names(ref, c)}}
<1> DEFINE T == {n \in S : n <= b.version}
<1>0. \A a \in set : a.version \in Nat /\ a.version >= 1
  BY DEF R0
<1>1. b.version \in T /\ T \subseteq 1..b.version /\ b.version \in Nat
  BY <1>0
<1>2. PICK n \in T : \A m \in T : n <= m
  <2> HIDE DEF T
  <2> QED  BY <1>1, LeastElement
<1>3. PICK a \in set : Names(ref, a) /\ a.version = n
  BY <1>2
<1>4. ASSUME NEW c \in set, Names(ref, c)  PROVE a.version <= c.version
  <2>1. CASE c.version <= b.version
    <3>1. c.version \in T
      BY <1>4, <2>1
    <3> QED  BY <1>2, <1>3, <3>1
  <2>2. CASE ~(c.version <= b.version)
    <3>1. n <= b.version /\ n \in Nat /\ c.version \in Nat /\ b.version \in Nat
      BY <1>0, <1>1, <1>2
    <3> QED  BY <1>3, <2>2, <3>1
  <2> QED  BY <2>1, <2>2
<1> QED  BY <1>3, <1>4 DEF Resolve

\* The units of a genuine package are of known types.
LEMMA UnitTypes ==
  ASSUME NEW p, Genuine(p), NEW u \in p.units
  PROVE  u.type \in Token /\ ~IsAttachment(PathOf(u))
<1>1. PICK set \in Origins : Refusals(set) = {} /\ \E a \in set : u = ToUnit(set, a)
  BY GenuineUnits
<1>2. PICK a \in set : u = ToUnit(set, a)
  BY <1>1
<1>3. R0(a)
  BY <1>1, GateAsks DEF KeepsRules
<1>4. u.type = a.type
  BY <1>2 DEF ToUnit
<1>5. PathOf(u).file.token = u.type
  BY DEF PathOf, FileOf
<1>6. "" \notin Token
  BY DEF Token, Knowledge, WorkItem, Projection
<1> QED  BY <1>3, <1>4, <1>5, <1>6 DEF R0, IsAttachment

----------------------------------------------------------------------------
(* The commit *)

\* The operations of an import that has found the tree as it would be without.
Operations ==
  {[path |-> PathOf(u), unit |-> u] : u \in NewUnits(loaded, Artifacts(without))}
    \cup {[path |-> p, unit |-> loaded.attachments[p]] :
            p \in DOMAIN loaded.attachments \ DOMAIN without}

\* What has been written waits for nothing that has not.
Ordered ==
  \A op \in Operations \ plan : ~IsAttachment(op.path) =>
    \A other \in plan : /\ ~IsAttachment(other.path)
                        /\ Form(other.unit) \notin TargetsOf(op.unit)

\* Nobody else has touched the tree: it holds what the operations that are no
\* longer planned have written, and nothing else has changed.
Committed ==
  /\ plan \subseteq Operations
  /\ \A op \in Operations : Writable(op)
  /\ DistinctPaths(loaded) =>
       /\ DOMAIN tree \subseteq DOMAIN without \cup {op.path : op \in Operations \ plan}
       /\ \A op \in Operations \ plan : op.path \in DOMAIN tree /\ tree[op.path] = FileFor(op)
  /\ Orderly(loaded) => Ordered

CommitInv ==
  /\ pc \in {"load", "index", "plan", "write"} => Gate(without)
  /\ pc \in {"plan", "write", "done"} => References(loaded, Artifacts(without))
  /\ pc = "plan" => plan = Operations
  /\ pc \in {"write", "done"} => Committed
  /\ pc = "done" => plan = {} /\ Gate(tree)

LEMMA LoadedGenuine ==
  ASSUME PackageInv
  PROVE  /\ loaded = NoPackage \/ Genuine(loaded)
         /\ \A u \in loaded.units : u.type \in Token /\ ~IsAttachment(PathOf(u))
         /\ \A p \in DOMAIN loaded.attachments : IsAttachment(p)
<1>1. loaded = NoPackage \/ Genuine(loaded)
  BY DEF PackageInv, LoadedIsExported
<1>2. CASE loaded = NoPackage
  <2>1. loaded.units = {} /\ DOMAIN loaded.attachments = {}
    BY <1>2 DEF NoPackage
  <2> QED  BY <1>2, <2>1
<1>3. CASE Genuine(loaded)
  <2>1. loaded.attachments = Attached
    BY <1>3, GenuineUnits
  <2> QED  BY <1>3, <2>1, UnitTypes, ExchangeAssumption
<1> QED  BY <1>1, <1>2, <1>3

\* An operation is a unit's or an attachment's, and its path tells which.
LEMMA OperationKinds ==
  ASSUME PackageInv, NEW op \in Operations
  PROVE  \/ /\ ~IsAttachment(op.path) /\ op.path = PathOf(op.unit)
            /\ op.unit \in NewUnits(loaded, Artifacts(without)) /\ op.unit \in loaded.units
            /\ op = [path |-> op.path, unit |-> op.unit]
         \/ /\ IsAttachment(op.path) /\ op.path \in DOMAIN loaded.attachments \ DOMAIN without
            /\ op = [path |-> op.path, unit |-> loaded.attachments[op.path]]
<1>1. CASE \E u \in NewUnits(loaded, Artifacts(without)) : op = [path |-> PathOf(u), unit |-> u]
  <2>1. PICK u \in NewUnits(loaded, Artifacts(without)) : op = [path |-> PathOf(u), unit |-> u]
    BY <1>1
  <2>2. u \in loaded.units
    BY DEF NewUnits
  <2>3. op.path = PathOf(u) /\ op.unit = u
    BY <2>1
  <2> QED  BY <2>1, <2>2, <2>3, LoadedGenuine
<1>2. CASE \E p \in DOMAIN loaded.attachments \ DOMAIN without :
             op = [path |-> p, unit |-> loaded.attachments[p]]
  BY <1>2, LoadedGenuine
<1> QED  BY <1>1, <1>2 DEF Operations

LEMMA OperationsApart ==
  ASSUME PackageInv, DistinctPaths(loaded),
         NEW o1 \in Operations, NEW o2 \in Operations, o1.path = o2.path
  PROVE  o1 = o2
<1>1. CASE IsAttachment(o1.path)
  BY <1>1, OperationKinds
<1>2. CASE ~IsAttachment(o1.path)
  <2>1. /\ o1.unit \in loaded.units /\ o2.unit \in loaded.units
        /\ PathOf(o1.unit) = PathOf(o2.unit)
        /\ o1 = [path |-> o1.path, unit |-> o1.unit] /\ o2 = [path |-> o2.path, unit |-> o2.unit]
    BY <1>2, OperationKinds
  <2>2. o1.unit = o2.unit
    BY <2>1 DEF DistinctPaths
  <2> QED  BY <2>1, <2>2
<1> QED  BY <1>1, <1>2

\* Without a circle there is always an operation that waits for nothing.
LEMMA ReadyIsFree ==
  ASSUME PackageInv, plan \subseteq Operations, plan # {}, Orderly(loaded)
  PROVE  Ready(plan) = Free(plan)
<1>1. CASE {op \in plan : IsAttachment(op.path)} # {}
  BY <1>1 DEF Ready, Free
<1>2. CASE {op \in plan : IsAttachment(op.path)} = {}
  <2> DEFINE some == {op.unit : op \in plan}
  <2>1. some \in (SUBSET loaded.units) \ {{}}
    BY <1>2, OperationKinds
  <2>2. PICK u \in some : TargetsOf(u) \cap Forms(some) = {}
    <3> HIDE DEF some
    <3> QED  BY <2>1 DEF Orderly
  <2>3. PICK op \in plan : op.unit = u
    BY <2>2
  <2>4. \A other \in plan : Form(other.unit) \notin TargetsOf(op.unit)
    <3> TAKE other \in plan
    <3>1. Form(other.unit) \in Forms(some)
      BY DEF Forms
    <3> HIDE DEF some
    <3> QED  BY <2>2, <2>3, <3>1
  <2> QED  BY <1>2, <2>3, <2>4 DEF Ready, Free
<1> QED  BY <1>1, <1>2

LEMMA WriteCommits ==
  ASSUME PackageInv, TreeInv, CommitInv, ImportWrite
  PROVE  CommitInv'
<1>1. PICK op \in Ready(plan) :
        /\ tree' = [p \in DOMAIN tree \cup {op.path} |->
                      IF p = op.path THEN FileFor(op) ELSE tree[p]]
        /\ plan' = plan \ {op}
  BY DEF ImportWrite
<1>2. /\ pc = "write" /\ pc' = "write" /\ plan # {} /\ without' = without /\ loaded' = loaded
      /\ op \in plan /\ Committed /\ Gate(without) /\ References(loaded, Artifacts(without))
  BY <1>1 DEF ImportWrite, Ready, Free, CommitInv, historyVars
<1>3. Operations' = Operations /\ op \in Operations
  BY <1>2 DEF Operations, Committed
<1>4. /\ plan' \subseteq Operations /\ Operations \ plan' = (Operations \ plan) \cup {op}
  BY <1>1, <1>2, <1>3 DEF Committed
<1>5. ASSUME DistinctPaths(loaded)
      PROVE  /\ DOMAIN tree' \subseteq DOMAIN without \cup {o.path : o \in Operations \ plan'}
             /\ \A o \in Operations \ plan' : o.path \in DOMAIN tree' /\ tree'[o.path] = FileFor(o)
  <2>1. /\ DOMAIN tree \subseteq DOMAIN without \cup {o.path : o \in Operations \ plan}
        /\ \A o \in Operations \ plan : o.path \in DOMAIN tree /\ tree[o.path] = FileFor(o)
    BY <1>2, <1>5 DEF Committed
  <2>2. \A o \in Operations \ plan : o.path # op.path
    BY <1>2, <1>3, <1>5, OperationsApart
  <2>3. DOMAIN tree' = DOMAIN tree \cup {op.path}
    BY <1>1
  <2>4. DOMAIN tree' \subseteq DOMAIN without \cup {o.path : o \in Operations \ plan'}
    BY <1>4, <2>1, <2>3
  <2>5. \A o \in Operations \ plan : o.path \in DOMAIN tree' /\ tree'[o.path] = FileFor(o)
    BY <1>1, <2>1, <2>2
  <2>6. op.path \in DOMAIN tree' /\ tree'[op.path] = FileFor(op)
    BY <1>1
  <2> QED  BY <1>4, <2>4, <2>5, <2>6
<1>6. ASSUME Orderly(loaded)  PROVE Ordered'
  <2>1. op \in Free(plan)
    BY <1>1, <1>2, <1>6, ReadyIsFree DEF Committed
  <2>2. Ordered
    BY <1>2, <1>6 DEF Committed
  <2>3. ~IsAttachment(op.path) =>
          \A other \in plan : ~IsAttachment(other.path) /\ Form(other.unit) \notin TargetsOf(op.unit)
    BY <1>2, <2>1 DEF Free
  <2>4. plan' \subseteq plan
    BY <1>1
  <2> QED  BY <1>3, <1>4, <2>2, <2>3, <2>4 DEF Ordered
<1>7. Committed'
  BY <1>2, <1>3, <1>4, <1>5, <1>6 DEF Committed, DistinctPaths, Orderly
<1> QED  BY <1>2, <1>7 DEF CommitInv, Gate

LEMMA ClassifyCommits ==
  ASSUME PackageInv, TreeInv, CommitInv, ImportLoad \/ ImportClassify \/ ImportPlan
  PROVE  CommitInv'
<1>1. UNCHANGED <<tree, without>> /\ tree = without /\ Gate(without)
  BY DEF ImportLoad, ImportClassify, ImportPlan, TreeInv, CommitInv, treeVars, historyVars
<1>2. CASE ImportLoad
  BY <1>1, <1>2 DEF ImportLoad, Refuse, CommitInv, Gate
<1>3. CASE ImportClassify
  <2>1. CASE pc' = "plan"
    <3>1. /\ loaded' = loaded /\ References(loaded, Artifacts(without))
          /\ plan' = Operations
      BY <1>1, <1>3, <2>1 DEF ImportClassify, Refuse, Operations
    <3> QED  BY <1>1, <2>1, <3>1 DEF CommitInv, Gate, Operations
  <2>2. CASE pc' # "plan"
    BY <1>1, <1>3, <2>2 DEF ImportClassify, Refuse, CommitInv, Gate
  <2> QED  BY <2>1, <2>2
<1>4. CASE ImportPlan
  <2>1. CASE pc' = "write"
    <3>1. /\ FreeTargets(plan) /\ plan' = plan /\ loaded' = loaded
          /\ plan = Operations /\ References(loaded, Artifacts(without))
      BY <1>4, <2>1 DEF ImportPlan, Refuse, CommitInv
    <3>2. Operations' = Operations
      BY <1>1, <3>1 DEF Operations
    <3>3. Operations' \ plan' = {}
      BY <3>1, <3>2
    <3>4. DOMAIN tree' \subseteq DOMAIN without'
      BY <1>1
    <3>5. \A op \in Operations' : Writable(op)
      BY <3>1, <3>2 DEF FreeTargets
    <3>6. Ordered'
      BY <3>3 DEF Ordered
    <3>7. Committed'
      BY <3>1, <3>2, <3>3, <3>4, <3>5, <3>6 DEF Committed
    <3> QED  BY <1>1, <2>1, <3>1, <3>7 DEF CommitInv, Gate
  <2>2. CASE pc' # "write"
    BY <1>1, <1>4, <2>2 DEF ImportPlan, Refuse, CommitInv, Gate
  <2> QED  BY <2>1, <2>2
<1> QED  BY <1>2, <1>3, <1>4

LEMMA ElsewhereCommits ==
  ASSUME CommitInv, UNCHANGED <<plan, loaded, tree, without>>,
         pc' = pc \/ pc' \in {"rollback", "idle", "failed", "dirty"}
                  \/ (pc' = "done" /\ pc = "write" /\ plan = {} /\ Gate(tree))
  PROVE  CommitInv'
<1>1. Committed => Committed'
  BY DEF Committed, Operations, Ordered
<1>2. /\ Gate(without) => Gate(without)'
      /\ Gate(tree) => Gate(tree)'
      /\ References(loaded, Artifacts(without)) => References(loaded, Artifacts(without))'
      /\ plan = Operations => plan' = Operations'
  BY DEF Gate, Operations
<1> QED  BY <1>1, <1>2 DEF CommitInv

LEMMA OthersCommit ==
  ASSUME PackageInv, TreeInv, CommitInv,
         Export \/ ExportStops \/ Import \/ ImportCrash \/ UNCHANGED vars
  PROVE  CommitInv'
<1>1. CASE Export \/ ExportStops \/ UNCHANGED vars
  <2>1. UNCHANGED <<importVars, treeVars>>
    BY <1>1 DEF Export, ExportStops, ExportWrite, ExportBegin, vars
  <2> QED  BY <2>1, ElsewhereCommits DEF importVars, treeVars, historyVars
<1>2. CASE ImportLoad \/ ImportClassify \/ ImportPlan
  BY <1>2, ClassifyCommits
<1>3. CASE ImportWrite
  BY <1>3, WriteCommits
<1>4. CASE ImportWriteFails
  BY <1>4, ElsewhereCommits DEF ImportWriteFails, historyVars
<1>5. CASE ImportValidate
  BY <1>5, ElsewhereCommits DEF ImportValidate, treeVars, historyVars
<1>6. CASE RollbackFile
  <2>1. pc' = "rollback"
    BY <1>6 DEF RollbackFile
  <2> QED  BY <2>1 DEF CommitInv
<1>7. CASE RollbackFolders
  <2>1. pc' \in {"dirty", "failed"}
    BY <1>7 DEF RollbackFolders
  <2> QED  BY <2>1 DEF CommitInv
<1>8. CASE ImportCrash
  BY <1>8, ElsewhereCommits DEF ImportCrash, treeVars, historyVars
<1> QED  BY <1>1, <1>2, <1>3, <1>4, <1>5, <1>6, <1>7, <1>8 DEF Import

LEMMA GateCommits ==
  ASSUME ImportGate
  PROVE  CommitInv'
<1>1. pc' \in {"load", "refused"} /\ (pc' = "load" => Gate(tree)) /\ without' = tree
  BY DEF ImportGate
<1> QED  BY <1>1 DEF CommitInv, Gate

\* While nobody else touches the tree.
QuietInv == IsMap(tree) /\ (quiet => TreeInv /\ CommitInv)

LEMMA QuietStep ==
  ASSUME PackageInv, QuietInv, [Next]_vars
  PROVE  QuietInv'
<1>1. ASSUME NEW edit \in Edits, AuthorEdit(edit)  PROVE QuietInv'
  <2>1. tree' = After(tree, edit) /\ quiet' = FALSE
    BY <1>1 DEF AuthorEdit
  <2> QED  BY <2>1, AfterEdit DEF QuietInv
<1>2. CASE ImportGate
  <2>1. TreeInv' /\ CommitInv'
    BY <1>2, GateGivesTree, GateCommits DEF QuietInv
  <2> QED  BY <2>1 DEF QuietInv, TreeInv
<1>3. CASE Export \/ ExportStops \/ Import \/ ImportCrash \/ UNCHANGED vars
  <2>1. quiet' = quiet
    BY <1>3 DEF Export, ExportBegin, ExportWrite, ExportStops, Import, ImportLoad,
       ImportClassify, ImportPlan, ImportWrite, ImportWriteFails, ImportValidate,
       RollbackFile, RollbackFolders, ImportCrash, vars, treeVars, historyVars
  <2>2. IsMap(tree')
    <3>1. CASE ImportWrite \/ RollbackFile
      BY <3>1 DEF ImportWrite, RollbackFile, Restrict, IsMap
    <3>2. CASE ~(ImportWrite \/ RollbackFile)
      <4>1. tree' = tree
        BY <1>3, <3>2 DEF Export, ExportBegin, ExportWrite, ExportStops, Import, ImportLoad,
           ImportClassify, ImportPlan, ImportWriteFails, ImportValidate,
           RollbackFolders, ImportCrash, vars, treeVars
      <4> QED  BY <4>1 DEF QuietInv, IsMap
    <3> QED  BY <3>1, <3>2
  <2>3. quiet => TreeInv' /\ CommitInv'
    BY <1>3, OthersKeepTree, OthersCommit DEF QuietInv
  <2> QED  BY <2>1, <2>2, <2>3 DEF QuietInv
<1> QED  BY <1>1, <1>2, <1>3 DEF Next

LEMMA QuietInvHolds == Spec => [](PackageInv /\ QuietInv)
<1>1. Init => PackageInv /\ QuietInv
  <2>1. Init => CommitInv
    BY DEF Init, CommitInv
  <2> QED  BY <2>1, PackageInit, TreeInit DEF QuietInv, TreeInv
<1>2. PackageInv /\ QuietInv /\ [Next]_vars => (PackageInv /\ QuietInv)'
  BY PackageStep, QuietStep
<1> QED  BY <1>1, <1>2, PTL DEF Spec

----------------------------------------------------------------------------
(* The round trip *)

\* The forms a genuine unit refers to are well-formed, and none of them, pinned
\* or not, is what does not parse.
LEMMA TargetForms ==
  ASSUME NEW p, Genuine(p), NEW u \in p.units, NEW f \in Field, NEW t \in u.rel[f]
  PROVE  /\ t = [ns |-> t.ns, type |-> t.type, id |-> t.id, version |-> t.version]
         /\ t.version \in Nat /\ t.version >= 1
         /\ \A ns : ToReference(t, ns) # Malformed
<1>1. PICK set \in Origins : Refusals(set) = {} /\ \E a \in set : u = ToUnit(set, a)
  BY GenuineUnits
<1>2. PICK a \in set : u = ToUnit(set, a)
  BY <1>1
<1>3. u.rel[f] = Forms(UNION {Resolve(set, ref) : ref \in Parsed(a, f)})
  BY <1>2 DEF ToUnit
<1>4. PICK b \in set : t = Form(b)
  BY <1>3 DEF Forms, Resolve
<1>5. b.version \in Nat /\ b.version >= 1 /\ t.version = b.version
  BY <1>1, <1>4, GateAsks DEF KeepsRules, R0, Form
<1>6. \A v \in {0, b.version} : Malformed # [Form(b) EXCEPT !.version = v]
  BY <1>4, ExchangeAssumption
<1>7. [t EXCEPT !.version = b.version] = t
  BY <1>4 DEF Form
<1>8. \A ns : ToReference(t, ns) \in {t, [t EXCEPT !.version = 0]}
  BY DEF ToReference
<1>9. \A ns : ToReference(t, ns) # Malformed
  BY <1>4, <1>6, <1>7, <1>8
<1> QED  BY <1>4, <1>5, <1>9 DEF Form

\* The reference written for a form names it, and where the form can be
\* expressed and is there, leads to it.
LEMMA ReferenceNames ==
  ASSUME NEW t, t = [ns |-> t.ns, type |-> t.type, id |-> t.id, version |-> t.version],
         NEW ns, NEW c, Form(c) = t
  PROVE  /\ LineOf(ToReference(t, ns)) = LineOf(t) /\ LineOf(t) = LineOf(c)
         /\ ToReference(t, ns).version \in {0, t.version}
         /\ Names(ToReference(t, ns), c)
<1>1. LineOf(ToReference(t, ns)) = LineOf(t) /\ ToReference(t, ns).version \in {0, t.version}
  BY DEF ToReference, LineOf
<1>2. LineOf(t) = LineOf(c) /\ t.version = c.version
  BY DEF Form, LineOf
<1> QED  BY <1>1, <1>2 DEF Names

LEMMA ReferenceLeads ==
  ASSUME NEW set, Refusals(set) = {}, NEW c \in set,
         NEW t, t = [ns |-> t.ns, type |-> t.type, id |-> t.id, version |-> t.version],
         Form(c) = t, NEW ns, t.ns = ns \/ t.version = 1
  PROVE  Resolve(set, ToReference(t, ns)) = {c}
<1> DEFINE ref == ToReference(t, ns)
<1>1. Names(ref, c) /\ LineOf(ref) = LineOf(c) /\ ref.version \in {0, t.version}
  BY ReferenceNames
<1>2. \A a \in set : a.version \in Nat /\ a.version >= 1
  BY GateAsks DEF KeepsRules, R0
<1>3. c.version = t.version
  BY DEF Form
<1>4. \A a, b \in set : LineOf(a) = LineOf(b) /\ a.version = b.version => a = b
  BY GateAsks DEF R1, Repository
<1>5. ref.version = 0 => t.version = 1
  BY <1>2, <1>3 DEF ToReference
<1> HIDE DEF ref
<1>6. \A d \in set : Names(ref, d) => c.version <= d.version
  <2> SUFFICES ASSUME NEW d \in set, Names(ref, d)  PROVE c.version <= d.version
    OBVIOUS
  <2>1. ref.version \in {0, d.version}
    BY DEF Names
  <2>2. CASE ref.version = 0
    BY <1>2, <1>3, <1>5, <2>2
  <2>3. CASE ref.version # 0
    BY <1>1, <1>2, <1>3, <2>1, <2>3
  <2> QED  BY <2>2, <2>3
<1>7. c \in Resolve(set, ref)
  BY <1>1, <1>6 DEF Resolve
<1>8. ASSUME NEW d \in Resolve(set, ref)  PROVE d = c
  <2>1. d \in set /\ Names(ref, d) /\ d.version <= c.version
    BY <1>1 DEF Resolve
  <2>2. d.version = c.version
    BY <1>2, <1>6, <2>1
  <2>3. LineOf(d) = LineOf(c)
    BY <1>1, <2>1 DEF Names
  <2> QED  BY <1>4, <2>1, <2>2, <2>3
<1>9. Resolve(set, ref) = {c}
  BY <1>7, <1>8
<1> QED  BY <1>9 DEF ref

\* What the artifact of a unit has of it.
LEMMA ArtifactOfUnit ==
  ASSUME NEW u
  PROVE  LET a == ArtifactFrom(u)
         IN  /\ a.type = u.type /\ a.version = u.version /\ Form(a) = Form(u)
             /\ \A f \in Field : a.rel[f] = {ToReference(t, u.ns) : t \in u.rel[f]}
             /\ a.states = Restrict(u.states, DOMAIN u.states \ {"note-state"})
BY DEF ArtifactFrom, Form

\* Reading back the file of a unit gives the unit, when its references lead
\* to what they led to.
LEMMA UnitSurvives ==
  ASSUME NEW p, Genuine(p), NEW u \in p.units, Serializable(u), Expressible(u),
         NEW set, Refusals(set) = {}, TargetsOf(u) \subseteq Forms(set)
  PROVE  ToUnit(set, ArtifactFrom(u)) = u
<1>1. PICK from \in Origins : Refusals(from) = {} /\ \E a \in from : u = ToUnit(from, a)
  BY GenuineUnits
<1>2. PICK b \in from : u = ToUnit(from, b)
  BY <1>1
<1> DEFINE a == ArtifactFrom(u)
<1>3. a.states = u.states
  <2>1. u.states = b.states /\ u.type = b.type
    BY <1>2 DEF ToUnit
  <2>2. IsMap(b.states)
    BY <1>2, ExchangeAssumption
  <2>3. DOMAIN b.states = Owned(b.type)
    BY <1>1, GateAsks DEF KeepsRules, R4
  <2>4. u.type # "cmt"
    <3>1. Folder("cmt") = ""
      BY DEF Folder, WorkItem, Projection
    <3> QED  BY <3>1 DEF Serializable
  <2>5. "note-state" \notin Owned(u.type)
    BY <2>4 DEF Owned, OwnersOf
  <2>6. a.states = [d \in DOMAIN u.states \ {"note-state"} |-> u.states[d]]
    BY ArtifactOfUnit DEF Restrict
  <2>7. DOMAIN u.states \ {"note-state"} = DOMAIN u.states
    BY <2>1, <2>3, <2>5
  <2> QED  BY <2>1, <2>2, <2>6, <2>7 DEF IsMap
<1>4. \A f \in Field : Forms(UNION {Resolve(set, ref) : ref \in Parsed(a, f)}) = u.rel[f]
  <2> SUFFICES ASSUME NEW f \in Field
               PROVE  Forms(UNION {Resolve(set, ref) : ref \in Parsed(a, f)}) = u.rel[f]
    OBVIOUS
  <2>1. Parsed(a, f) = {ToReference(t, u.ns) : t \in u.rel[f]}
    <3>1. a.rel[f] = {ToReference(t, u.ns) : t \in u.rel[f]}
      BY ArtifactOfUnit
    <3>2. Malformed \notin a.rel[f]
      BY <3>1, TargetForms
    <3> QED  BY <3>1, <3>2 DEF Parsed
  <2>2. \A t \in u.rel[f] : \E c \in set : Form(c) = t /\ Resolve(set, ToReference(t, u.ns)) = {c}
    <3> SUFFICES ASSUME NEW t \in u.rel[f]
                 PROVE  \E c \in set : Form(c) = t /\ Resolve(set, ToReference(t, u.ns)) = {c}
      OBVIOUS
    <3>1. t \in TargetsOf(u)
      BY DEF TargetsOf
    <3>2. PICK c \in set : Form(c) = t
      BY <3>1 DEF Forms
    <3>3. t.ns = u.ns \/ t.version = 1
      BY <3>1 DEF Expressible
    <3>4. t = [ns |-> t.ns, type |-> t.type, id |-> t.id, version |-> t.version]
      BY TargetForms
    <3> QED  BY <3>2, <3>3, <3>4, ReferenceLeads
  <2> HIDE DEF a
  <2> QED  BY <2>1, <2>2 DEF Forms
<1>5. u.rel = [f \in Field |-> u.rel[f]] /\ u.domain = DomainForToken(u.type)
  BY <1>2 DEF ToUnit
<1>6. [f \in Field |-> Forms(UNION {Resolve(set, ref) : ref \in Parsed(a, f)})] = u.rel
  BY <1>4, <1>5
<1>7. /\ a.ns = u.ns /\ a.type = u.type /\ a.id = u.id /\ a.version = u.version
      /\ a.phase = u.phase /\ a.dimension = u.dimension /\ a.secondary = u.secondary
      /\ a.log = u.log /\ a.sections = u.sections /\ a.header = u.header /\ a.table = u.table
      /\ a.role = u.role /\ a.text = u.text
  BY DEF ArtifactFrom
<1>8. u = [ns |-> u.ns, type |-> u.type, id |-> u.id, version |-> u.version,
           states |-> u.states, phase |-> u.phase, dimension |-> u.dimension,
           secondary |-> u.secondary, domain |-> u.domain, rel |-> u.rel,
           log |-> u.log, sections |-> u.sections, header |-> u.header, table |-> u.table,
           role |-> u.role, text |-> u.text]
  BY <1>2 DEF ToUnit
<1> HIDE DEF a
<1>9. ToUnit(set, a) = u
  BY <1>3, <1>5, <1>6, <1>7, <1>8 DEF ToUnit
<1> QED  BY <1>9 DEF a

\* Every unit of the package is in a tree to which its commit was carried out.
LEMMA AllArrived ==
  ASSUME PackageInv, TreeInv, Committed, plan = {}, DistinctPaths(loaded),
         NEW u \in NewUnits(loaded, Artifacts(without))
  PROVE  ArtifactFrom(u) \in Artifacts(tree) /\ Serializable(u) /\ Expressible(u)
<1> DEFINE op == [path |-> PathOf(u), unit |-> u]
<1>1. op \in Operations /\ u \in loaded.units
  BY DEF Operations, NewUnits
<1>2. ~IsAttachment(op.path)
  BY <1>1, LoadedGenuine
<1>3. op.path \in DOMAIN tree /\ tree[op.path] = ArtifactFrom(u)
  BY <1>1, <1>2 DEF Committed, FileFor
<1>4. Writable(op)
  BY <1>1 DEF Committed
<1> QED  BY <1>2, <1>3, <1>4 DEF Artifacts, Writable

LEMMA ArtifactsKept ==
  ASSUME AuthorKept
  PROVE  Artifacts(without) \subseteq Artifacts(tree)
BY DEF AuthorKept, Artifacts

LEMMA FormsThere ==
  ASSUME PackageInv, TreeInv, Committed, plan = {}, DistinctPaths(loaded)
  PROVE  Forms(loaded.units) \subseteq Forms(Artifacts(tree))
<1> SUFFICES ASSUME NEW u \in loaded.units  PROVE Form(u) \in Forms(Artifacts(tree))
  BY DEF Forms
<1>1. CASE u \in NewUnits(loaded, Artifacts(without))
  BY <1>1, AllArrived, ArtifactOfUnit DEF Forms
<1>2. CASE u \notin NewUnits(loaded, Artifacts(without))
  <2>1. PICK a \in Artifacts(without) : Form(a) = Form(u)
    BY <1>2 DEF NewUnits, Forms
  <2>2. a \in Artifacts(tree)
    BY <2>1, ArtifactsKept DEF TreeInv
  <2> QED  BY <2>1, <2>2 DEF Forms
<1> QED  BY <1>1, <1>2

\* "lossless" (import.go, writer.go): a package imported into a repository that
\* nobody else writes is there, unit for unit, and a unit exported from it again
\* is the unit that was imported, its references included.
THEOREM RoundTripIsLossless == Spec => []RoundTrip
<1>1. PackageInv /\ QuietInv => RoundTrip
  <2> SUFFICES ASSUME PackageInv, TreeInv, CommitInv, pc = "done", DistinctPaths(loaded),
                      NEW u \in NewUnits(loaded, Artifacts(without))
               PROVE  \E a \in Artifacts(tree) :
                        /\ Form(a) = Form(u)
                        /\ Unresolved(loaded, Artifacts(tree), u) = {} =>
                             Same(u, ToUnit(Artifacts(tree), a))
    BY DEF QuietInv, RoundTrip
  <2>1. Committed /\ plan = {} /\ Refusals(Artifacts(tree)) = {}
    BY DEF CommitInv, Gate
  <2>2. ArtifactFrom(u) \in Artifacts(tree) /\ Serializable(u) /\ Expressible(u)
    BY <2>1, AllArrived
  <2>3. Form(ArtifactFrom(u)) = Form(u)
    BY ArtifactOfUnit
  <2>4. ASSUME Unresolved(loaded, Artifacts(tree), u) = {}
        PROVE  Same(u, ToUnit(Artifacts(tree), ArtifactFrom(u)))
    <3>1. u \in loaded.units
      BY DEF NewUnits
    <3>2. Genuine(loaded)
      <4>1. loaded # NoPackage
        BY <3>1 DEF NoPackage
      <4> QED  BY <4>1, LoadedGenuine
    <3>3. TargetsOf(u) \subseteq Forms(Artifacts(tree))
      BY <2>1, <2>4, FormsThere DEF Unresolved
    <3>4. ToUnit(Artifacts(tree), ArtifactFrom(u)) = u
      BY <2>1, <2>2, <3>1, <3>2, <3>3, UnitSurvives
    <3> QED  BY <3>4 DEF Same
  <2> QED  BY <2>2, <2>3, <2>4
<1> QED  BY <1>1, QuietInvHolds, PTL

----------------------------------------------------------------------------
(* Half a commit *)

(* A set of artifacts between two that the gate accepts: what it has more     *)
(* than the smaller one is no note and no superseded decision, what the       *)
(* larger one has more is no note, and a reference of an artifact that is new *)
(* leads to what the larger one has only by way of what is there.             *)
Between(small, set, large) ==
  /\ small \subseteq set /\ set \subseteq large
  /\ \A a \in large \ small : a.type # "cmt"
  /\ \A a \in set \ small : a.type = "adr" => a.states["content-state"] # "superseded"
  /\ \A a \in set \ small : ~IsDraft(a) =>
       \A f \in Field : \A ref \in Parsed(a, f) : Resolve(set, ref) # {}
  /\ \A a \in set \ small : \A f \in Field : \A ref \in Parsed(a, f) :
       ref.version = 0 /\ LineOf(ref) = LineOf(a) =>
         \A d \in large : LineOf(d) = LineOf(a) => d \in set

LEMMA ResolvedStays ==
  ASSUME NEW small, NEW set, small \subseteq set, \A a \in set : R0(a), NEW ref,
         Resolve(small, ref) # {}
  PROVE  Resolve(set, ref) # {}
<1>1. PICK a \in small : Names(ref, a)
  BY DEF Resolve
<1> QED  BY <1>1, ResolveFinds

LEMMA BetweenReferences ==
  ASSUME NEW small, NEW set, NEW large, Between(small, set, large),
         Refusals(small) = {}, Refusals(large) = {}, NEW a \in set
  PROVE  R5(Repository(set), a)
<1>0. /\ \A b \in large : R0(b) /\ R5(Repository(large), b) /\ b.version \in Nat
      /\ \A b \in small : R5(Repository(small), b)
      /\ \A b, c \in large : LineOf(b) = LineOf(c) /\ b.version = c.version => b = c
      /\ small \subseteq set /\ set \subseteq large
  BY GateAsks DEF KeepsRules, Between, R0, R1, Repository
<1> SUFFICES ASSUME NEW f \in Field
             PROVE  /\ Malformed \notin a.rel[f]
                    /\ \A ref \in a.rel[f] : /\ Resolve(set, ref) # {a}
                                             /\ Resolve(set, ref) # {} \/ IsDraft(a)
  BY DEF R5, SelfReference, Resolves, Repository
<1>1. Malformed \notin a.rel[f]
  BY <1>0 DEF R5
<1> SUFFICES ASSUME NEW ref \in a.rel[f]
             PROVE  Resolve(set, ref) # {a} /\ (Resolve(set, ref) # {} \/ IsDraft(a))
  BY <1>1
<1>2. ref \in Parsed(a, f)
  BY <1>1 DEF Parsed
<1>3. Resolve(set, ref) # {} \/ IsDraft(a)
  <2>1. CASE a \in small
    <3>1. Resolve(small, ref) # {} \/ IsDraft(a)
      BY <1>0, <2>1 DEF R5, Resolves, DraftTarget, Repository
    <3> QED  BY <1>0, <3>1, ResolvedStays
  <2>2. CASE a \notin small
    BY <1>2, <2>2 DEF Between
  <2> QED  BY <2>1, <2>2
<1>4. ASSUME Resolve(set, ref) = {a}  PROVE FALSE
  <2>1. Names(ref, a) /\ \A b \in set : Names(ref, b) => a.version <= b.version
    BY <1>4 DEF Resolve
  <2>2. CASE a \in small
    <3>1. a \in Resolve(small, ref)
      BY <1>0, <2>1, <2>2 DEF Resolve
    <3>2. ASSUME NEW b \in Resolve(small, ref)  PROVE b = a
      <4>1. b \in set /\ Names(ref, b) /\ b.version <= a.version
        BY <1>0, <2>1, <2>2 DEF Resolve
      <4>2. a.version <= b.version /\ a.version \in Nat /\ b.version \in Nat
        BY <1>0, <2>1, <4>1
      <4>3. LineOf(a) = LineOf(b)
        BY <2>1, <4>1 DEF Names
      <4>4. a.version = b.version
        BY <4>1, <4>2
      <4> QED  BY <1>0, <4>1, <4>3, <4>4
    <3>3. Resolve(small, ref) = {a}
      BY <3>1, <3>2
    <3> QED  BY <1>0, <2>2, <3>3 DEF R5, SelfReference, Repository
  <2>3. CASE a \notin small
    <3>1. Resolve(large, ref) # {a}
      BY <1>0 DEF R5, SelfReference, Repository
    <3>2. ~(\A d \in large : Names(ref, d) => a.version <= d.version)
      <4> SUFFICES ASSUME \A d \in large : Names(ref, d) => a.version <= d.version
                   PROVE  FALSE
        OBVIOUS
      <4>1. a \in Resolve(large, ref)
        BY <1>0, <2>1 DEF Resolve
      <4>2. ASSUME NEW b \in Resolve(large, ref)  PROVE b = a
        <5>1. b \in large /\ Names(ref, b) /\ b.version <= a.version
          BY <1>0, <2>1 DEF Resolve
        <5>2. a.version <= b.version /\ a.version \in Nat /\ b.version \in Nat
          BY <1>0, <5>1
        <5>3. LineOf(a) = LineOf(b)
          BY <2>1, <5>1 DEF Names
        <5>4. a.version = b.version
          BY <5>1, <5>2
        <5> QED  BY <1>0, <5>1, <5>3, <5>4
      <4> QED  BY <3>1, <4>1, <4>2
    <3>3. PICK d \in large : Names(ref, d) /\ ~(a.version <= d.version)
      BY <3>2
    <3>4. d \notin set /\ LineOf(d) = LineOf(a) /\ LineOf(ref) = LineOf(a)
      BY <2>1, <3>3 DEF Names
    <3>5. ref.version = 0
      BY <1>0, <2>1, <3>3 DEF Names
    <3> QED  BY <1>2, <2>3, <3>4, <3>5 DEF Between
  <2> QED  BY <2>2, <2>3
<1> QED  BY <1>3, <1>4

LEMMA BetweenNotes ==
  ASSUME NEW small, NEW set, NEW large, Between(small, set, large),
         Refusals(small) = {}, Refusals(large) = {}, NEW a \in set
  PROVE  R13(Repository(set), a)
<1>0. /\ \A b \in large : R0(b) /\ R4(b) /\ R13(Repository(large), b)
      /\ \A b \in small : R13(Repository(small), b)
      /\ small \subseteq set /\ set \subseteq large
  BY GateAsks DEF KeepsRules, Between
<1>1. \A ref : Resolves(Repository(small), ref) => Resolves(Repository(set), ref)
  BY <1>0, ResolvedStays DEF Resolves, Repository
<1>2. R13Note(Repository(set), a)
  <2>1. CASE a.type = "cmt"
    <3>1. a \in small
      BY <1>0, <2>1 DEF Between
    <3>2. R13Note(Repository(small), a)
      BY <1>0, <3>1 DEF R13
    <3> QED  BY <1>1, <3>2 DEF R13Note
  <2>2. CASE a.type # "cmt"
    BY <2>2 DEF R13Note
  <2> QED  BY <2>1, <2>2
<1>3. ASSUME a.type \in WorkItem, a.states["execution-state"] \in {"in-review", "done"}
      PROVE  Gates(Repository(set), a)
  <2>1. Gates(Repository(large), a)
    BY <1>0, <1>3 DEF R13, Repository
  <2>2. NotesDiscussing(Repository(set), a) = NotesDiscussing(Repository(large), a)
    BY <1>0 DEF Between, NotesDiscussing, Repository
  <2> QED  BY <2>1, <2>2 DEF Gates
<1>4. ASSUME a.type \in WorkItem, a.states["execution-state"] \in {"in-review", "done"}
      PROVE  Assignment(Repository(set), a)
  <2>1. Assignment(Repository(large), a)
    BY <1>0, <1>3, <1>4 DEF R13, Repository
  <2>2. \A ref \in Parsed(a, "assigned-to") : Resolves(Repository(set), ref)
    <3>1. CASE a \in small
      <4>1. Assignment(Repository(small), a)
        BY <1>0, <1>4, <3>1 DEF R13, Repository
      <4> QED  BY <1>1, <4>1 DEF Assignment
    <3>2. CASE a \notin small
      <4>1. ~IsDraft(a)
        <5>1. a.type \notin OwnersOf("content-state")
          BY <1>4 DEF WorkItem, OwnersOf, Knowledge
        <5>2. DOMAIN a.states = Owned(a.type)
          BY <1>0 DEF R4
        <5> QED  BY <5>1, <5>2 DEF IsDraft, Owned
      <4>2. "assigned-to" \in Field
        BY DEF Field
      <4> QED  BY <3>2, <4>1, <4>2 DEF Between, Resolves, Repository
    <3> QED  BY <3>1, <3>2
  <2> QED  BY <2>1, <2>2 DEF Assignment
<1> QED  BY <1>2, <1>3, <1>4 DEF R13

LEMMA BetweenGates ==
  ASSUME NEW small, NEW set, NEW large, Between(small, set, large),
         Refusals(small) = {}, Refusals(large) = {}
  PROVE  Refusals(set) = {}
<1> DEFINE env == Repository(set)
<1>0. /\ \A b \in large : KeepsRules(Repository(large), b)
      /\ \A b \in small : KeepsRules(Repository(small), b)
      /\ R1(Repository(large))
      /\ small \subseteq set /\ set \subseteq large
  BY GateAsks DEF Between
<1>1. R1(env)
  BY <1>0 DEF R1, Repository
<1>2. \A ref : Resolves(Repository(small), ref) => Resolves(env, ref)
  BY <1>0, ResolvedStays DEF Resolves, Repository, KeepsRules
<1>3. ASSUME NEW a \in set  PROVE KeepsRules(env, a)
  <2>1. /\ R0(a) /\ R3(a) /\ R4(a) /\ R7(a) /\ R11(a)
    BY <1>0, <1>3 DEF KeepsRules
  <2>2. R2(env, a) /\ R6(env, a)
    <3>1. R2(Repository(large), a) /\ R6(Repository(large), a)
      BY <1>0, <1>3 DEF KeepsRules
    <3>2. R2(env, a)
      BY <3>1 DEF R2, Repository
    <3>3. R6(env, a)
      BY <3>1 DEF R6, Repository
    <3> QED  BY <3>2, <3>3
  <2>3. R5(env, a)
    BY <1>3, BetweenReferences
  <2>4. R8(env, a)
    <3>1. R8(Repository(large), a)
      BY <1>0, <1>3 DEF KeepsRules
    <3>2. ASSUME a.type = "tkt"
          PROVE  \E ref \in Parsed(a, "derives-from") : ref.type = "ctr" /\ Resolves(env, ref)
      <4>1. CASE a \in small
        <5>1. R8(Repository(small), a)
          BY <1>0, <4>1 DEF KeepsRules
        <5> QED  BY <1>2, <3>2, <5>1 DEF R8
      <4>2. CASE a \notin small
        <5>1. PICK ref \in Parsed(a, "derives-from") : ref.type = "ctr"
          BY <3>1, <3>2 DEF R8
        <5>2. ~IsDraft(a)
          <6>1. a.type \notin OwnersOf("content-state")
            BY <3>2 DEF OwnersOf, Knowledge
          <6>2. DOMAIN a.states = Owned(a.type)
            BY <2>1 DEF R4
          <6> QED  BY <6>1, <6>2 DEF IsDraft, Owned
        <5>3. "derives-from" \in Field
          BY DEF Field
        <5>4. Resolve(set, ref) # {}
          BY <1>3, <4>2, <5>1, <5>2, <5>3 DEF Between
        <5> QED  BY <5>1, <5>4 DEF Resolves, Repository
      <4> QED  BY <4>1, <4>2
    <3> QED  BY <3>1, <3>2 DEF R8
  <2>5. R9(env, a)
    <3>1. R9(Repository(large), a)
      BY <1>0, <1>3 DEF KeepsRules
    <3>2. ASSUME a.type = "adr", a.states["content-state"] = "superseded"
          PROVE  Replaced(env, a)
      <4>1. a \in small
        BY <1>3, <3>2 DEF Between
      <4>2. Replaced(Repository(small), a)
        BY <1>0, <3>2, <4>1 DEF KeepsRules, R9
      <4>3. PICK b \in small \ {a} : \E ref \in Parsed(b, "supersedes") :
              Resolves(Repository(small), ref) /\ Names(ref, a)
        BY <4>2 DEF Replaced, Repository
      <4>4. b \in env.set \ {a}
        BY <1>0 DEF Repository
      <4> QED  BY <1>2, <4>3, <4>4 DEF Replaced
    <3> QED  BY <3>1, <3>2 DEF R9
  <2>6. R12(env, a)
    <3> SUFFICES ASSUME NEW f \in {"supersedes", "amends"}, NEW ref \in Parsed(a, f),
                        NEW b \in Resolve(set, ref)
                 PROVE  StratumOf(b.type) >= StratumOf(a.type)
      BY DEF R12, Repository
    <3>1. R12(Repository(large), a)
      BY <1>0, <1>3 DEF KeepsRules
    <3>2. b \in large /\ Names(ref, b)
      BY <1>0 DEF Resolve
    <3>3. PICK c \in large : c \in Resolve(large, ref)
      <4>1. \A d \in large : R0(d)
        BY <1>0 DEF KeepsRules
      <4>2. Resolve(large, ref) # {}
        BY <3>2, <4>1, ResolveFinds
      <4> QED  BY <4>2 DEF Resolve
    <3>4. StratumOf(c.type) >= StratumOf(a.type)
      BY <3>1, <3>3 DEF R12, Repository
    <3>5. c.type = b.type
      BY <3>2, <3>3 DEF Resolve, Names, LineOf
    <3> QED  BY <3>4, <3>5
  <2>7. R13(env, a)
    BY <1>3, BetweenNotes
  <2> QED  BY <2>1, <2>2, <2>3, <2>4, <2>5, <2>6, <2>7 DEF KeepsRules
<1> QED  BY <1>1, <1>3, GateAsks

LEMMA CompletedTree ==
  ASSUME NEW p
  PROVE  /\ DOMAIN Completed = DOMAIN tree \cup Planned
         /\ p \in Planned => \E op \in plan : op.path = p /\ Completed[p] = FileFor(op)
         /\ p \in DOMAIN tree \ Planned => Completed[p] = tree[p]
<1>1. DOMAIN Completed = DOMAIN tree \cup Planned
  BY DEF Completed, Planned
<1>2. p \in Planned => \E op \in plan : op.path = p /\ Completed[p] = FileFor(op)
  <2> SUFFICES ASSUME p \in Planned
               PROVE  \E op \in plan : op.path = p /\ Completed[p] = FileFor(op)
    OBVIOUS
  <2>1. \E op \in plan : op.path = p
    BY DEF Planned
  <2> DEFINE o == CHOOSE op \in plan : op.path = p
  <2>2. o \in plan /\ o.path = p
    BY <2>1
  <2>3. Completed[p] = FileFor(o)
    BY <2>1 DEF Completed
  <2> HIDE DEF o
  <2> QED  BY <2>2, <2>3
<1>3. p \in DOMAIN tree \ Planned => Completed[p] = tree[p]
  BY DEF Completed, Planned
<1> QED  BY <1>1, <1>2, <1>3

\* Where what is new in the tree, and in the completed one, comes from.
LEMMA NewArtifacts ==
  ASSUME PackageInv, TreeInv, Committed, DistinctPaths(loaded), pc = "write"
  PROVE  /\ Artifacts(without) \subseteq Artifacts(tree)
         /\ Artifacts(tree) \subseteq Artifacts(Completed)
         /\ \A a \in Artifacts(tree) \ Artifacts(without) :
              \E op \in Operations \ plan : ~IsAttachment(op.path) /\ a = ArtifactFrom(op.unit)
         /\ \A a \in Artifacts(Completed) \ Artifacts(tree) :
              \E op \in plan : ~IsAttachment(op.path) /\ a = ArtifactFrom(op.unit)
         /\ \A op \in Operations \ plan : ~IsAttachment(op.path) =>
              ArtifactFrom(op.unit) \in Artifacts(tree)
<1>0. /\ plan \subseteq Operations
      /\ DOMAIN tree \subseteq DOMAIN without \cup {op.path : op \in Operations \ plan}
      /\ \A op \in Operations \ plan : op.path \in DOMAIN tree /\ tree[op.path] = FileFor(op)
      /\ DOMAIN without \cap Planned = {}
      /\ AuthorKept
  BY DEF Committed, TreeInv
<1>1. Artifacts(without) \subseteq Artifacts(tree)
  BY <1>0, ArtifactsKept
<1>2. \A a \in Artifacts(tree) \ Artifacts(without) :
        \E op \in Operations \ plan : ~IsAttachment(op.path) /\ a = ArtifactFrom(op.unit)
  <2> SUFFICES ASSUME NEW p \in DOMAIN tree, ~IsAttachment(p), tree[p] \notin Artifacts(without)
               PROVE  \E op \in Operations \ plan :
                        ~IsAttachment(op.path) /\ tree[p] = ArtifactFrom(op.unit)
    BY DEF Artifacts
  <2>1. p \notin DOMAIN without
    BY <1>0 DEF AuthorKept, Artifacts
  <2>2. PICK op \in Operations \ plan : op.path = p
    BY <1>0, <2>1
  <2> QED  BY <1>0, <2>2 DEF FileFor
<1>3. \A op \in Operations \ plan : ~IsAttachment(op.path) =>
        ArtifactFrom(op.unit) \in Artifacts(tree)
  BY <1>0 DEF Artifacts, FileFor
<1>4. \A op \in Operations \ plan : op.path \notin Planned
  BY <1>0, OperationsApart DEF Planned
<1>5. DOMAIN tree \cap Planned = {}
  BY <1>0, <1>4
<1>6. Artifacts(tree) \subseteq Artifacts(Completed)
  <2> SUFFICES ASSUME NEW p \in DOMAIN tree, ~IsAttachment(p)
               PROVE  tree[p] \in Artifacts(Completed)
    BY DEF Artifacts
  <2>1. p \in DOMAIN Completed /\ Completed[p] = tree[p]
    BY <1>5, CompletedTree
  <2> QED  BY <2>1 DEF Artifacts
<1>7. \A a \in Artifacts(Completed) \ Artifacts(tree) :
        \E op \in plan : ~IsAttachment(op.path) /\ a = ArtifactFrom(op.unit)
  <2> SUFFICES ASSUME NEW p \in DOMAIN Completed, ~IsAttachment(p),
                      Completed[p] \notin Artifacts(tree)
               PROVE  \E op \in plan :
                        ~IsAttachment(op.path) /\ Completed[p] = ArtifactFrom(op.unit)
    BY DEF Artifacts
  <2>1. p \in Planned
    <3> SUFFICES ASSUME p \notin Planned  PROVE FALSE
      OBVIOUS
    <3>1. p \in DOMAIN tree /\ Completed[p] = tree[p]
      BY CompletedTree
    <3> QED  BY <3>1 DEF Artifacts
  <2>2. PICK op \in plan : op.path = p /\ Completed[p] = FileFor(op)
    BY <2>1, CompletedTree
  <2> QED  BY <2>2 DEF FileFor
<1> QED  BY <1>1, <1>2, <1>3, <1>6, <1>7

LEMMA TreeIsBetween ==
  ASSUME PackageInv, TreeInv, CommitInv, pc = "write", Orderly(loaded), DistinctPaths(loaded),
         Refusals(Artifacts(Completed)) = {}
  PROVE  Between(Artifacts(without), Artifacts(tree), Artifacts(Completed))
<1> DEFINE small == Artifacts(without)
<1> DEFINE set   == Artifacts(tree)
<1> DEFINE large == Artifacts(Completed)
<1>0. /\ Committed /\ Ordered /\ plan \subseteq Operations
      /\ References(loaded, small)
  BY DEF CommitInv, Committed
<1>1. /\ small \subseteq set /\ set \subseteq large
      /\ \A a \in set \ small :
           \E op \in Operations \ plan : ~IsAttachment(op.path) /\ a = ArtifactFrom(op.unit)
      /\ \A a \in large \ set :
           \E op \in plan : ~IsAttachment(op.path) /\ a = ArtifactFrom(op.unit)
      /\ \A op \in Operations \ plan : ~IsAttachment(op.path) => ArtifactFrom(op.unit) \in set
  BY <1>0, NewArtifacts
<1>2. /\ \A a \in large : R0(a) /\ R4(a)
      /\ \A a \in large : a.version \in Nat /\ a.version >= 1
      /\ \A b, c \in large : LineOf(b) = LineOf(c) /\ b.version = c.version => b = c
  BY GateAsks DEF KeepsRules, R0, R1, Repository
<1> HIDE DEF small, set, large
<1>3. \A a \in set : R0(a)
  BY <1>1, <1>2
\* What a unit operation is of.
<1>4. ASSUME NEW op \in Operations, ~IsAttachment(op.path)
      PROVE  /\ op.unit \in loaded.units /\ op.path = PathOf(op.unit)
             /\ Genuine(loaded) /\ Serializable(op.unit) /\ Expressible(op.unit)
  <2>1. op.unit \in loaded.units /\ op.path = PathOf(op.unit)
    BY <1>4, OperationKinds
  <2>2. loaded # NoPackage
    BY <2>1 DEF NoPackage
  <2>3. Writable(op)
    BY <1>0, <1>4 DEF Committed
  <2> QED  BY <1>4, <2>1, <2>2, <2>3, LoadedGenuine DEF Writable
<1>5. \A a \in large \ small : a.type # "cmt"
  <2> SUFFICES ASSUME NEW a \in large \ small  PROVE a.type # "cmt"
    OBVIOUS
  <2>1. PICK op \in Operations : ~IsAttachment(op.path) /\ a = ArtifactFrom(op.unit)
    BY <1>0, <1>1
  <2>2. Folder("cmt") = ""
    BY DEF Folder, WorkItem, Projection
  <2>3. Folder(op.unit.type) # ""
    BY <1>4, <2>1 DEF Serializable
  <2>4. a.type = op.unit.type
    BY <2>1, ArtifactOfUnit
  <2> QED  BY <2>2, <2>3, <2>4
<1>6. ASSUME NEW a \in set \ small, a.type = "adr"
      PROVE  a.states["content-state"] # "superseded"
  <2>1. PICK op \in Operations \ plan : ~IsAttachment(op.path) /\ a = ArtifactFrom(op.unit)
    BY <1>1
  <2>2. op.unit \in loaded.units /\ op.unit.type = "adr"
    BY <1>4, <1>6, <2>1, ArtifactOfUnit
  <2>3. op.unit.states["content-state"] # "superseded"
    BY <2>2 DEF Orderly
  <2>4. "content-state" \in DOMAIN a.states
    <3>1. DOMAIN a.states = Owned(a.type)
      BY <1>1, <1>2 DEF R4
    <3>2. "content-state" \in Owned("adr")
      BY DEF Owned, StateDomain, OwnersOf, Knowledge
    <3> QED  BY <1>6, <3>1, <3>2
  <2>5. a.states = Restrict(op.unit.states, DOMAIN op.unit.states \ {"note-state"})
    BY <2>1, ArtifactOfUnit
  <2>6. a.states["content-state"] = op.unit.states["content-state"]
    BY <2>4, <2>5 DEF Restrict
  <2> QED  BY <2>3, <2>6
\* A reference of a new artifact: the form of the unit it was written for.
<1>7. ASSUME NEW op \in Operations \ plan, ~IsAttachment(op.path), NEW f \in Field,
             NEW ref \in Parsed(ArtifactFrom(op.unit), f)
      PROVE  \E t \in TargetsOf(op.unit) :
               /\ t \in op.unit.rel[f] /\ ref = ToReference(t, op.unit.ns)
               /\ t = [ns |-> t.ns, type |-> t.type, id |-> t.id, version |-> t.version]
               /\ t.version \in Nat /\ t.version >= 1 /\ (t.ns = op.unit.ns \/ t.version = 1)
               /\ \A other \in plan : /\ ~IsAttachment(other.path) /\ Form(other.unit) # t
  <2>1. ref \in ArtifactFrom(op.unit).rel[f]
    BY <1>7 DEF Parsed
  <2>7. ArtifactFrom(op.unit).rel[f] = {ToReference(t, op.unit.ns) : t \in op.unit.rel[f]}
    BY <1>7, ArtifactOfUnit
  <2>2. PICK t \in op.unit.rel[f] : ref = ToReference(t, op.unit.ns)
    BY <2>1, <2>7
  <2>3. t \in TargetsOf(op.unit)
    BY DEF TargetsOf
  <2>4. /\ t = [ns |-> t.ns, type |-> t.type, id |-> t.id, version |-> t.version]
        /\ t.version \in Nat /\ t.version >= 1
    BY <1>4, <1>7, TargetForms
  <2>5. t.ns = op.unit.ns \/ t.version = 1
    BY <1>4, <1>7, <2>3 DEF Expressible
  <2>6. \A other \in plan : ~IsAttachment(other.path) /\ Form(other.unit) # t
    BY <1>0, <1>7, <2>3 DEF Ordered
  <2> QED  BY <2>2, <2>3, <2>4, <2>5, <2>6
<1>8. ASSUME NEW a \in set \ small, ~IsDraft(a), NEW f \in Field, NEW ref \in Parsed(a, f)
      PROVE  Resolve(set, ref) # {}
  <2>1. PICK op \in Operations \ plan : ~IsAttachment(op.path) /\ a = ArtifactFrom(op.unit)
    BY <1>1
  <2>2. PICK t \in op.unit.rel[f] :
          /\ ref = ToReference(t, op.unit.ns)
          /\ t = [ns |-> t.ns, type |-> t.type, id |-> t.id, version |-> t.version]
          /\ \A other \in plan : Form(other.unit) # t
    BY <1>7, <1>8, <2>1
  <2>3. ~IsDraft(op.unit)
    <3>1. a.states = Restrict(op.unit.states, DOMAIN op.unit.states \ {"note-state"})
      BY <2>1, ArtifactOfUnit
    <3> QED  BY <1>8, <3>1 DEF IsDraft, Restrict
  <2>4. op.unit \in loaded.units
    BY <1>4, <2>1
  <2>5. t \in Forms(loaded.units) \cup Forms(small)
    BY <1>0, <2>3, <2>4 DEF References, Unresolved, TargetsOf
  <2>6. ASSUME NEW c \in set, Form(c) = t  PROVE Resolve(set, ref) # {}
    <3>1. Names(ref, c)
      BY <2>2, <2>6, ReferenceNames
    <3> QED  BY <1>3, <3>1, ResolveFinds
  <2>7. CASE t \in Forms(small)
    <3>1. PICK c \in small : Form(c) = t
      BY <2>7 DEF Forms
    <3> QED  BY <1>1, <2>6, <3>1
  <2>8. CASE t \in Forms(loaded.units) \ Forms(small)
    <3>1. PICK w \in loaded.units : Form(w) = t
      BY <2>8 DEF Forms
    <3>2. w \in NewUnits(loaded, small)
      BY <2>8, <3>1 DEF NewUnits
    <3> DEFINE o == [path |-> PathOf(w), unit |-> w]
    <3>3. o \in Operations /\ o.unit = w /\ o.path = PathOf(w)
      BY <3>2 DEF Operations, small
    <3> HIDE DEF o
    <3>4. o \notin plan /\ ~IsAttachment(o.path)
      BY <2>2, <3>1, <3>3, LoadedGenuine
    <3>5. ArtifactFrom(w) \in set
      BY <1>1, <3>3, <3>4
    <3>6. Form(ArtifactFrom(w)) = t
      BY <3>1, ArtifactOfUnit
    <3> QED  BY <2>6, <3>5, <3>6
  <2> QED  BY <2>5, <2>7, <2>8
<1>9. ASSUME NEW a \in set \ small, NEW f \in Field, NEW ref \in Parsed(a, f),
             ref.version = 0, LineOf(ref) = LineOf(a),
             NEW d \in large, LineOf(d) = LineOf(a), d \notin set
      PROVE  FALSE
  <2>1. PICK op \in Operations \ plan : ~IsAttachment(op.path) /\ a = ArtifactFrom(op.unit)
    BY <1>1
  <2>2. PICK t \in op.unit.rel[f] :
          /\ ref = ToReference(t, op.unit.ns)
          /\ t = [ns |-> t.ns, type |-> t.type, id |-> t.id, version |-> t.version]
          /\ t.version \in Nat /\ t.version >= 1
    BY <1>7, <1>9, <2>1
  <2>3. PICK other \in plan : ~IsAttachment(other.path) /\ d = ArtifactFrom(other.unit)
    BY <1>1, <1>9
  <2>4. LineOf(ref) = LineOf(t)
    BY <2>2 DEF ToReference, LineOf
  <2>5. LineOf(a) = LineOf(op.unit) /\ LineOf(d) = LineOf(other.unit)
    BY <2>1, <2>3 DEF ArtifactFrom, LineOf
  <2>6. t.ns = op.unit.ns /\ t.type = op.unit.type
    BY <1>9, <2>4, <2>5 DEF LineOf
  <2>7. op.unit.type \notin Versioned
    <3>1. t.type \notin Versioned
      BY <1>9, <2>2, <2>6 DEF ToReference
    <3> QED  BY <2>6, <3>1
  <2>8. op.unit.type = other.unit.type /\ op.unit.id = other.unit.id
    BY <1>9, <2>5 DEF LineOf
  <2>9. PathOf(op.unit) = PathOf(other.unit)
    BY <2>7, <2>8 DEF PathOf, FileOf
  <2>10. op.path = other.path
    BY <1>0, <1>4, <2>1, <2>3, <2>9
  <2>11. op = other
    BY <1>0, <2>10, OperationsApart
  <2> QED  BY <2>11
<1>10. \A a \in set \ small : a.type = "adr" => a.states["content-state"] # "superseded"
  BY <1>6
<1>11. \A a \in set \ small : ~IsDraft(a) =>
         \A f \in Field : \A ref \in Parsed(a, f) : Resolve(set, ref) # {}
  BY <1>8
<1>12. \A a \in set \ small : \A f \in Field : \A ref \in Parsed(a, f) :
         ref.version = 0 /\ LineOf(ref) = LineOf(a) =>
           \A d \in large : LineOf(d) = LineOf(a) => d \in set
  BY <1>9
<1>13. Between(small, set, large)
  BY <1>1, <1>5, <1>10, <1>11, <1>12 DEF Between
<1> QED  BY <1>13 DEF small, set, large

\* commitOrder: a commit that is cut off anywhere leaves a tree that the next
\* import's gate accepts, whatever the package holds, as long as it holds no
\* circle, no superseded decision and no two units of one file.
THEOREM CommitCanBeResumed == Spec => []CommitKeepsGate
<1>1. PackageInv /\ QuietInv => CommitKeepsGate
  <2> SUFFICES ASSUME PackageInv, TreeInv, CommitInv, pc = "write", Orderly(loaded),
                      DistinctPaths(loaded), Refusals(Artifacts(Completed)) = {}
               PROVE  Refusals(Artifacts(tree)) = {}
    BY DEF QuietInv, CommitKeepsGate, Gate
  <2>1. Refusals(Artifacts(without)) = {}
    BY DEF CommitInv, Gate
  <2> QED  BY <2>1, TreeIsBetween, BetweenGates
<1> QED  BY <1>1, QuietInvHolds, PTL

=============================================================================
