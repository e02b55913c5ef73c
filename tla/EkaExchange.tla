---------------------------- MODULE EkaExchange -----------------------------
(***************************************************************************)
(* The exchange package: a repository exports a package, another one       *)
(* imports it.  The package lies in a directory (or a ZIP container) that  *)
(* an export writes entry by entry; the import validates the target tree,  *)
(* loads and checks the package, plans one file for every unit the target  *)
(* does not have, writes the files, validates again, and rolls the files   *)
(* it created back when that fails.  The author of the target goes on      *)
(* writing meanwhile, and either process may be killed.                    *)
(*                                                                         *)
(* The tree is validated by the rules of EkaConformance.  An artifact      *)
(* carries beside what they read a text, which stands for the content,     *)
(* the revision and the authorship.  A unit is an artifact whose references*)
(* are forms (they name an instance), and a digest is the data it is of.   *)
(***************************************************************************)
EXTENDS EkaConformance, Functions

CONSTANTS
  Repositories,      \* the states of the exporting repository: sets of artifacts
  Attached,     \* its attachments: a function from path to data
  Received,     \* packages that may be there: [set, request] of earlier exports
  Requests,     \* export targets: sets of references, {} for the repository
  Trees,        \* initial states of the target tree: functions from path to file
  Edits,        \* what the author writes: [path, file], file = NoFile removes
  NoFile,
  MaxExports, MaxImports, MaxEdits, MaxCrashes   \* bounds of the instance

VARIABLES
  package,      \* the entries at the package path: a function from name to data
  unwritten,    \* entries the running export has still to write
  tree,         \* the target's files: a function from path to file
  folders,      \* the target's folders
  pc,           \* where the import stands
  loaded,       \* the package it has loaded
  plan,         \* the operations it has still to commit: [path, unit]
  created,      \* repoWriter.createdFiles, oldest first
  createdDirs,  \* repoWriter.createdDirs
  failures,     \* a rollback step has failed
  counts,       \* exports, imports, edits and crashes so far
  exported,     \* history: every package an export has assembled
  quiet,        \* history: no author's step since the import began
  without,      \* history: the tree as it would be had the import not begun
  foldersWithout  \* history: its folders, likewise

exportVars == <<package, unwritten, exported>>
importVars == <<pc, loaded, plan, created, createdDirs, failures>>
historyVars == <<quiet, without, foldersWithout>>
treeVars   == <<tree, folders, historyVars>>
vars       == <<exportVars, importVars, treeVars, counts>>

Count(what) == counts' = [counts EXCEPT ![what] = @ + 1]

----------------------------------------------------------------------------
(* Units *)

\* The canonical identity form.
Form(a) == [ns |-> a.ns, type |-> a.type, id |-> a.id, version |-> a.version]

Forms(units) == {Form(u) : u \in units}

\* toUnit: references become the forms they resolve to, the others are left out.
ToUnit(set, a) ==
  [ns |-> a.ns, type |-> a.type, id |-> a.id, version |-> a.version,
   states |-> a.states, phase |-> a.phase, dimension |-> a.dimension,
   secondary |-> a.secondary, domain |-> DomainForToken(a.type),
   rel |-> [f \in Field |-> Forms(UNION {Resolve(set, ref) : ref \in Parsed(a, f)})],
   log |-> a.log, sections |-> a.sections, header |-> a.header, table |-> a.table,
   role |-> a.role, text |-> a.text]

TargetsOf(u) == UNION {u.rel[f] : f \in Field}

\* resolveScope: a line target selects its instances; an unknown one is refused.
Selected(set, request) ==
  IF request = {} THEN set ELSE {a \in set : \E ref \in request : Names(ref, a)}

Selectable(set, request) == \A ref \in request : \E a \in set : Names(ref, a)

\* External Reference detection.
Externals(units) ==
  UNION {{[source |-> Form(u), field |-> f, target |-> t] : t \in u.rel[f] \ Forms(units)} :
           u \in units, f \in Field}

\* What an export asks before it builds: the gate, and targets that are there.
Exportable(set, request) == Refusals(set) = {} /\ Selectable(set, request)

\* build: what an export of the request carries.
Build(set, request) ==
  LET units == {ToUnit(set, a) : a \in Selected(set, request)}
  IN  [units |-> units, externals |-> Externals(units), attachments |-> Attached]

----------------------------------------------------------------------------
(* Entries *)

Header       == <<"header">>
Declarations == <<"declarations">>
Manifest     == <<"manifest">>
Integrity    == <<"integrity">>

UnitEntry(form)    == <<"unit", form>>
ContentEntry(form) == <<"content", form>>
AttachmentEntry(p) == <<"attachment", p>>

\* A unit.json holds all of the unit but its content.
Metadata(u) == [u EXCEPT !.text = "", !.sections = {}]
Content(u)  == [text |-> u.text, sections |-> u.sections]

UnitOf(entries, form) ==
  [entries[UnitEntry(form)] EXCEPT !.text = entries[ContentEntry(form)].text,
                                   !.sections = entries[ContentEntry(form)].sections]

\* Two aggregates are no part of the package digest.
Digest(entries) == Restrict(entries, DOMAIN entries \ {Manifest, Integrity})

\* The entries of a package that its digest is of.
EntryNames(p) ==
  {Header, Declarations}
    \cup {UnitEntry(form) : form \in Forms(p.units)}
    \cup {ContentEntry(form) : form \in Forms(p.units)}
    \cup {AttachmentEntry(a) : a \in DOMAIN p.attachments}

Body(p) ==
  LET unit(form) == CHOOSE u \in p.units : Form(u) = form
  IN  [n \in EntryNames(p) |->
         CASE n = Header          -> "rsf"
           [] n = Declarations    -> p.externals
           [] n[1] = "unit"       -> Metadata(unit(n[2]))
           [] n[1] = "content"    -> Content(unit(n[2]))
           [] n[1] = "attachment" -> p.attachments[n[2]]]

\* assemble: the entries of a package; the two aggregates come last.
Assemble(p) ==
  [n \in EntryNames(p) \cup {Manifest, Integrity} |->
     CASE n = Manifest  -> [units |-> Forms(p.units), digest |-> Body(p),
                            attachments |-> Cardinality(DOMAIN p.attachments)]
       [] n = Integrity -> [digest |-> Body(p)]
       [] OTHER -> Body(p)[n]]

\* The order of the entry names: aggregates before the units they describe.
Rank(name) ==
  CASE name[1] = "attachment"   -> 1
    [] name[1] = "declarations" -> 2
    [] name[1] = "header"       -> 3
    [] name[1] = "integrity"    -> 4
    [] name[1] = "manifest"     -> 5
    [] OTHER -> 6

\* The forms the unit entries of a package are of.
UnitForms(entries) ==
  {n[2] : n \in {m \in DOMAIN entries : m[1] \in {"unit", "content"}}}

AttachmentPaths(entries) ==
  {n[2] : n \in {m \in DOMAIN entries : m[1] = "attachment"}}

\* loadPackage's structure and self-consistency.
Consistent(entries) ==
  /\ {Header, Declarations, Manifest, Integrity} \subseteq DOMAIN entries
  /\ UnitForms(entries) = entries[Manifest].units
  /\ \A form \in UnitForms(entries) :
       {UnitEntry(form), ContentEntry(form)} \subseteq DOMAIN entries
  /\ Cardinality(AttachmentPaths(entries)) = entries[Manifest].attachments
  /\ entries[Manifest].digest = entries[Integrity].digest

\* Faulty variant: the digests are not recomputed.
ReadableUnverified(entries) == Consistent(entries)

\* The recorded digest is the one recomputed over the entries.
Readable(entries) ==
  Consistent(entries) /\ entries[Integrity].digest = Digest(entries)

\* What loadPackage returns.
Contents(entries) ==
  [units |-> {UnitOf(entries, form) : form \in UnitForms(entries)},
   externals |-> entries[Declarations],
   attachments |-> [p \in AttachmentPaths(entries) |-> entries[AttachmentEntry(p)]]]

----------------------------------------------------------------------------
(* Export *)

(* Export: gate, scope, model, entries, of the repository as it is by then.  *)
(* A container is truncated first, a directory keeps what an earlier export  *)
(* has left in it.                                                           *)
ExportBegin(source, request) ==
  /\ unwritten = <<>>
  /\ counts.exports < MaxExports
  /\ Exportable(source, request)
  /\ LET p == Build(source, request)
     IN  /\ unwritten' = Assemble(p)
         /\ exported' = exported \cup {p}
  /\ package' \in {package, <<>>}
  /\ Count("exports")
  /\ UNCHANGED <<importVars, treeVars>>

\* writeDir, writeZIP: the next entry in the order of the names.
ExportWrite ==
  /\ unwritten # <<>>
  /\ LET name == CHOOSE n \in DOMAIN unwritten :
                   \A other \in DOMAIN unwritten : Rank(n) <= Rank(other)
     IN  /\ package' = [n \in DOMAIN package \cup {name} |->
                          IF n = name THEN unwritten[n] ELSE package[n]]
         /\ unwritten' = Restrict(unwritten, DOMAIN unwritten \ {name})
  /\ UNCHANGED <<exported, importVars, treeVars, counts>>

\* The export fails or is killed: what it has written stays.
ExportStops ==
  /\ unwritten # <<>>
  /\ counts.crashes < MaxCrashes
  /\ unwritten' = <<>>
  /\ Count("crashes")
  /\ UNCHANGED <<package, exported, importVars, treeVars>>

----------------------------------------------------------------------------
(* The serialization of a unit in the repository *)

\* folderForType: knowledge lies in a dimension's folder; notes and members in none.
Folder(type) ==
  CASE type \in {"vis", "str"} -> "intent"
    [] type = "req"  -> "requirements"
    [] type = "arc"  -> "architecture"
    [] type \in {"adr", "dec"} -> "decisions"
    [] type = "spec" -> "specifications"
    [] type = "std"  -> "standards"
    [] type = "run"  -> "operations"
    [] type = "rvw"  -> "quality"
    [] type \in {"scp", "epc", "plan", "trc"} -> "planning"
    [] type \in {"rel", "shr"} -> "records"
    [] type = "fnd"  -> "research"
    [] type = "gls"  -> "vocabulary"
    [] type \in WorkItem \cup Projection -> type
    [] OTHER -> ""

\* unitFileName: the version only of a type that has it in its file names.
FileOf(u) ==
  [token |-> u.type, version |-> IF u.type \in Versioned THEN u.version ELSE 0,
   folder |-> Folder(u.type)]

\* unitFilePath; the namespace is no part of it.
PathOf(u) == [file |-> FileOf(u), id |-> u.id]

Serializable(u) ==
  Folder(u.type) # "" /\ (u.type \in Knowledge => u.dimension = Folder(u.type))

\* Faulty variant: a line reference for every target.
ToLineReference(form, ns) == [form EXCEPT !.version = 0]

\* canonicalToRepoReference: the line when that means the same instance.
ToReference(form, ns) ==
  IF form.ns = ns /\ (form.type \in Versioned \/ form.version > 1)
    THEN form ELSE [form EXCEPT !.version = 0]

\* Another namespace's instances cannot be named but for the first.
Expressible(u) == \A t \in TargetsOf(u) : t.ns = u.ns \/ t.version = 1

\* buildJSONAuthoring: the artifact that is written for a unit.
ArtifactFrom(u) ==
  [ns |-> u.ns, type |-> u.type, id |-> u.id, version |-> u.version,
   states |-> Restrict(u.states, DOMAIN u.states \ {"note-state"}),
   phase |-> u.phase, dimension |-> u.dimension, secondary |-> u.secondary,
   domain |-> u.domain, rel |-> [f \in Field |-> {ToReference(t, u.ns) : t \in u.rel[f]}],
   log |-> u.log, sections |-> u.sections, header |-> u.header, table |-> u.table,
   role |-> u.role, text |-> u.text, file |-> FileOf(u)]

IsAttachment(path) == path.file.token = ""

\* conformance.Scan: the artifacts of a tree.
Artifacts(t) == {t[p] : p \in {q \in DOMAIN t : ~IsAttachment(q)}}

FoldersOf(t) == {p.file.folder : p \in DOMAIN t}

----------------------------------------------------------------------------
(* The checks of an import *)

\* Phase 3: the mirror of R3, R4, R6, R7 and R11 over five state domains.
ImportDomain == StateDomain \ {"note-state"}

CheckStates(u) ==
  LET current(d) == IF d = "phase" THEN u.phase ELSE u.states[d]
      needed == (Owned(u.type) \cap ImportDomain) \cup (IF u.phase = "" THEN {} ELSE {"phase"})
  IN  /\ DOMAIN u.states \cap ImportDomain = Owned(u.type) \cap ImportDomain
      /\ \A d \in DOMAIN u.states \cap ImportDomain : ValidStateValue(d, u.type, u.states[d])
      /\ u.phase # "" => u.type \in Versioned /\ Member(Phases, u.phase)
      /\ u.type \in Knowledge => u.dimension \in Dimension
      /\ u.type \in Projection => u.dimension = "" /\ u.secondary = {}
      /\ u.domain \in {"", DomainForToken(u.type)}
      /\ \A d \in needed : LET own == Entries(u, d)
                           IN  own # <<>> /\ own[Len(own)].to = current(d)
      /\ \A i \in DOMAIN u.log :
           /\ u.log[i].domain # "note-state"
           /\ WellFormedEntry(u, u.log[i])

\* Phases 2 to 4 of a package: identities, states, required sections.
Importable(p) ==
  \A u \in p.units : /\ u.version >= 1
                     /\ CheckStates(u)
                     /\ RequiredSections(u.type) \subseteq u.sections

\* The forms a reference of the package finds: its own units, then the target's.
Unresolved(p, set, u) == TargetsOf(u) \ (Forms(p.units) \cup Forms(set))

\* Phase 5: an unresolved reference is declared, and tolerated of a draft only.
References(p, set) ==
  \A u \in p.units : \A f \in Field : \A t \in u.rel[f] \cap Unresolved(p, set, u) :
    /\ [source |-> Form(u), field |-> f, target |-> t] \in p.externals
    /\ IsDraft(u)

\* unitDifferences: everything but the domain, which follows from the type.
Same(u, v) == [u EXCEPT !.domain = ""] = [v EXCEPT !.domain = ""]

\* Phases 6 and 7: the units the target has, differently or not at all.
Conflicts(p, set) ==
  \E u \in p.units, a \in set : Form(a) = Form(u) /\ ~Same(u, ToUnit(set, a))

NewUnits(p, set) == {u \in p.units : Form(u) \notin Forms(set)}

----------------------------------------------------------------------------
(* Import *)

Gate(t) == Refusals(Artifacts(t)) = {}

Ended == {"idle", "refused", "failed", "dirty", "done"}

NoPackage == [units |-> {}, externals |-> {}, attachments |-> <<>>]

\* A refusal before the commit: nothing was written.
Refuse == pc' = "refused" /\ UNCHANGED <<loaded, plan, created, createdDirs, failures>>

\* Import, phase 0: the target validates as it stands.
ImportGate ==
  /\ pc \in Ended
  /\ counts.imports < MaxImports
  /\ Count("imports")
  /\ loaded' = NoPackage
  /\ plan' = {} /\ created' = <<>> /\ createdDirs' = {} /\ failures' = FALSE
  /\ pc' = IF Gate(tree) THEN "load" ELSE "refused"
  /\ quiet' = TRUE /\ without' = tree /\ foldersWithout' = folders
  /\ UNCHANGED <<exportVars, tree, folders>>

\* loadPackage and the phases that look at the package alone.
ImportLoad ==
  /\ pc = "load"
  /\ \/ /\ Readable(package) /\ Importable(Contents(package))
        /\ loaded' = Contents(package)
        /\ pc' = "index"
        /\ UNCHANGED <<plan, created, createdDirs, failures>>
     \/ /\ ~(Readable(package) /\ Importable(Contents(package)))
        /\ Refuse
  /\ UNCHANGED <<exportVars, treeVars, counts>>

(* newIdentityResolver and phases 5 to 7: the target is read once, what is   *)
(* new is what it did not have then.                                         *)
ImportClassify ==
  /\ pc = "index"
  /\ LET set == Artifacts(tree)
         taken == DOMAIN tree \cap DOMAIN loaded.attachments
         fits  == /\ References(loaded, set)
                  /\ ~Conflicts(loaded, set)
                  /\ \A p \in taken : tree[p] = loaded.attachments[p]
     IN  IF fits
           THEN /\ plan' = {[path |-> PathOf(u), unit |-> u] : u \in NewUnits(loaded, set)}
                            \cup {[path |-> p, unit |-> loaded.attachments[p]] :
                                    p \in DOMAIN loaded.attachments \ taken}
                /\ pc' = "plan"
                /\ UNCHANGED <<loaded, created, createdDirs, failures>>
           ELSE Refuse
  /\ UNCHANGED <<exportVars, treeVars, counts>>

Writable(op) ==
  IsAttachment(op.path) \/ (Serializable(op.unit) /\ Expressible(op.unit))

\* Faulty variant: existing files are left to be overwritten.
UncheckedTargets(ops) == \A op \in ops : Writable(op)

\* buildWritePlan: every operation can be expressed and has a free path.
FreeTargets(ops) == \A op \in ops : Writable(op) /\ op.path \notin DOMAIN tree

ImportPlan ==
  /\ pc = "plan"
  /\ IF FreeTargets(plan)
       THEN pc' = "write" /\ UNCHANGED <<loaded, plan, created, createdDirs, failures>>
       ELSE Refuse
  /\ UNCHANGED <<exportVars, treeVars, counts>>

\* Attachments first, then the units none of whose targets is still to come.
Free(ops) ==
  LET attachments == {op \in ops : IsAttachment(op.path)}
  IN  IF attachments # {} THEN attachments
      ELSE {op \in ops : \A other \in ops : Form(other.unit) \notin TargetsOf(op.unit)}

\* Faulty variant: a cycle leaves nothing to write.
ReadyAcyclic(ops) == Free(ops)

\* Faulty variant: the order of the package.
ReadyAny(ops) == ops

\* commitOrder: the next operation; a cycle is broken anywhere.
Ready(ops) == IF Free(ops) # {} THEN Free(ops) ELSE ops

FileFor(op) == IF IsAttachment(op.path) THEN op.unit ELSE ArtifactFrom(op.unit)

\* repoWriter.write: folders, a staged file, a rename that overwrites.
ImportWrite ==
  /\ pc = "write" /\ plan # {}
  /\ \E op \in Ready(plan) :
       LET folder == op.path.file.folder
       IN  /\ tree' = [p \in DOMAIN tree \cup {op.path} |->
                         IF p = op.path THEN FileFor(op) ELSE tree[p]]
           /\ folders' = folders \cup {folder}
           /\ createdDirs' = createdDirs \cup ({folder} \ folders)
           /\ created' = Append(created, op.path)
           /\ plan' = plan \ {op}
  /\ UNCHANGED <<exportVars, pc, loaded, failures, historyVars, counts>>

\* A write fails once its folder is there: roll back.
ImportWriteFails ==
  /\ pc = "write" /\ plan # {}
  /\ counts.crashes < MaxCrashes
  /\ \E op \in Ready(plan) :
       LET folder == op.path.file.folder
       IN  /\ folders' = folders \cup {folder}
           /\ createdDirs' = createdDirs \cup ({folder} \ folders)
  /\ pc' = "rollback"
  /\ Count("crashes")
  /\ UNCHANGED <<exportVars, loaded, plan, created, failures, tree, historyVars>>

\* Phase 10: the tree as it stands now.
ImportValidate ==
  /\ pc = "write" /\ plan = {}
  /\ pc' = IF Gate(tree) THEN "done" ELSE "rollback"
  /\ UNCHANGED <<exportVars, treeVars, loaded, plan, created, createdDirs, failures, counts>>

\* repoWriter.rollback: the created files, oldest first.
RollbackFile ==
  /\ pc = "rollback" /\ created # <<>>
  /\ LET path == Head(created)
     IN  /\ tree' = Restrict(tree, DOMAIN tree \ {path})
         /\ failures' = (failures \/ path \notin DOMAIN tree)
  /\ created' = Tail(created)
  /\ UNCHANGED <<exportVars, pc, loaded, plan, createdDirs, folders, historyVars, counts>>

\* Faulty variant: the folders stay.
RollbackNoFolders ==
  /\ pc = "rollback" /\ created = <<>>
  /\ pc' = IF failures THEN "dirty" ELSE "failed"
  /\ UNCHANGED <<exportVars, loaded, plan, created, createdDirs, failures, treeVars, counts>>

\* ... then the created folders, those that are empty.
RollbackFolders ==
  /\ pc = "rollback" /\ created = <<>>
  /\ folders' = folders \ (createdDirs \ FoldersOf(tree))
  /\ failures' = (failures \/ createdDirs \cap FoldersOf(tree) # {})
  /\ pc' = IF failures' THEN "dirty" ELSE "failed"
  /\ UNCHANGED <<exportVars, loaded, plan, created, createdDirs, tree, historyVars, counts>>

\* The process is killed; its files stay.
ImportCrash ==
  /\ pc \notin Ended
  /\ counts.crashes < MaxCrashes
  /\ pc' = "idle"
  /\ Count("crashes")
  /\ UNCHANGED <<exportVars, treeVars, loaded, plan, created, createdDirs, failures>>

----------------------------------------------------------------------------
(* The author of the target, and the whole *)

After(t, edit) ==
  IF edit.file = NoFile THEN Restrict(t, DOMAIN t \ {edit.path})
  ELSE [p \in DOMAIN t \cup {edit.path} |-> IF p = edit.path THEN edit.file ELSE t[p]]

\* A file is written or removed by hand, whatever an import is doing.
AuthorEdit(edit) ==
  /\ counts.edits < MaxEdits
  /\ tree' = After(tree, edit) /\ tree' # tree
  /\ without' = After(without, edit)
  /\ folders' = folders \cup {edit.path.file.folder}
  /\ foldersWithout' = foldersWithout \cup {edit.path.file.folder}
  /\ quiet' = FALSE
  /\ Count("edits")
  /\ UNCHANGED <<exportVars, importVars>>

\* What the exporter holds at one time or another.
Origins == Repositories \cup {r.set : r \in Received}

IsMap(f) == f = [x \in DOMAIN f |-> f[x]]

ASSUME ExchangeAssumption ==
  /\ IsMap(Attached) /\ \A p \in DOMAIN Attached : IsAttachment(p)
  /\ \A t \in Trees : IsMap(t)
  /\ \A a \in UNION Origins :
       /\ IsMap(a.states)
       /\ \A v \in {0, a.version} : Malformed # [Form(a) EXCEPT !.version = v]

Init ==
  /\ \E r \in Received :
       LET p == Build(r.set, r.request)
       IN  Exportable(r.set, r.request) /\ package = Assemble(p) /\ exported = {p}
  /\ unwritten = <<>>
  /\ tree \in Trees
  /\ folders = FoldersOf(tree)
  /\ quiet = TRUE /\ without = tree /\ foldersWithout = folders
  /\ pc = "idle" /\ loaded = NoPackage /\ plan = {} /\ created = <<>>
  /\ createdDirs = {} /\ failures = FALSE
  /\ counts = [exports |-> 0, imports |-> 0, edits |-> 0, crashes |-> 0]

Export ==
  ExportWrite \/ \E source \in Repositories, request \in Requests : ExportBegin(source, request)

Import ==
  \/ ImportLoad \/ ImportClassify \/ ImportPlan \/ ImportWrite \/ ImportWriteFails
  \/ ImportValidate \/ RollbackFile \/ RollbackFolders

Next ==
  \/ Export \/ ExportStops
  \/ ImportGate \/ Import \/ ImportCrash
  \/ \E edit \in Edits : AuthorEdit(edit)

\* A process that runs is scheduled until it ends or is killed.
Spec == Init /\ [][Next]_vars /\ WF_vars(Import)

----------------------------------------------------------------------------
(* Properties *)

\* Type correctness of the variables that are not themselves functions of data.
ExchangeTypeOK ==
  /\ pc \in Ended \cup {"load", "index", "plan", "write", "rollback"}
  /\ \A op \in plan : op.path \notin {created[i] : i \in DOMAIN created}
  /\ createdDirs \subseteq STRING /\ FoldersOf(tree) \subseteq folders
  /\ failures \in BOOLEAN
  /\ counts \in [exports : 0..MaxExports, imports : 0..MaxImports,
                  edits : 0..MaxEdits, crashes : 0..MaxCrashes]

(* A package that an import accepts is one that some export assembled, whole: *)
(* no mixture of two exports into one directory, no half of one, whenever the *)
(* exporter stopped and whenever the importer read (loadPackage).             *)
LoadedIsExported == loaded # NoPackage => loaded \in exported

(* Whatever the import does, the author's files are there as the author left  *)
(* them: "no overwrite, no delete" (classify, buildWritePlan, rollback).      *)
AuthorKept == \A p \in DOMAIN without : p \in DOMAIN tree /\ tree[p] = without[p]

(* An import that says it was refused or rolled back has left the tree, its   *)
(* files and its folders, as it would be without it (repoWriter.rollback).    *)
CleanRefusal ==
  pc \in {"refused", "failed"} =>
    tree = without /\ folders \subseteq foldersWithout

DistinctPaths(p) == \A u, v \in p.units : PathOf(u) = PathOf(v) => u = v

(* The lossless round trip: what an import reports imported is in the tree,   *)
(* and exporting it again gives the unit the package carried, its references  *)
(* leading to the same instances (ToReference against resolveRef).  A draft   *)
(* with references the target cannot resolve is excepted, and a package two   *)
(* units of which have one file.                                              *)
RoundTrip ==
  pc = "done" /\ quiet /\ DistinctPaths(loaded) =>
    LET set == Artifacts(tree)
    IN  \A u \in NewUnits(loaded, Artifacts(without)) :
          \E a \in set :
            Form(a) = Form(u) /\ (Unresolved(loaded, set, u) = {} => Same(u, ToUnit(set, a)))

Completed ==
  [p \in DOMAIN tree \cup {op.path : op \in plan} |->
     IF \E op \in plan : op.path = p
       THEN FileFor(CHOOSE op \in plan : op.path = p) ELSE tree[p]]

\* No references in a circle, no decision whose replacement must be there first.
Orderly(p) ==
  /\ \A some \in (SUBSET p.units) \ {{}} : \E u \in some : TargetsOf(u) \cap Forms(some) = {}
  /\ \A u \in p.units : u.type = "adr" => u.states["content-state"] # "superseded"

(* A crash in the middle of the commit leaves a tree that the next import's   *)
(* gate accepts, so that it can be completed: the commit order is more than   *)
(* a matter of determinism (commitOrder).                                     *)
CommitKeepsGate ==
  /\ pc = "write" /\ quiet /\ Orderly(loaded) /\ DistinctPaths(loaded)
  /\ Gate(Completed)
  => Gate(tree)

\* Every import that has passed the gate comes to an end (commitOrder, rollback).
ImportEnds == pc = "load" ~> pc \in Ended

----------------------------------------------------------------------------
(* What fails *)

(* Every unit an import reports imported is in the tree: false when two units *)
(* of the package have one file (unitFilePath leaves out the namespace, and   *)
(* the version of most types).                                                *)
ImportedIsThere ==
  pc = "done" /\ quiet => Forms(loaded.units) \subseteq Forms(Artifacts(tree))

\* Any commit can be completed: false of superseded decisions and of circles.
AnyCommitKeepsGate == pc = "write" /\ quiet /\ Gate(Completed) => Gate(tree)

=============================================================================
