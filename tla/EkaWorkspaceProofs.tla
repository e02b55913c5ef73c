------------------------- MODULE EkaWorkspaceProofs -------------------------
(***************************************************************************)
(* Proofs about EkaWorkspace for any number of processes, directories and  *)
(* repositories: what holds although registrations are several statements  *)
(* and processes end between any two of them.                              *)
(*                                                                         *)
(* The registry stays sound because of what the database itself refuses    *)
(* (the foreign key, the unique paths) and of one thing it does not: no    *)
(* process gets past the check of the reserved name with that name in its  *)
(* memory, and no step changes the key it has checked.                     *)
(*                                                                         *)
(* The second part is about a process that nobody has interfered with:     *)
(* what it has read of its tree and of the registry is still so            *)
(* (AloneInv), from whatever state it began in.                            *)
(***************************************************************************)
EXTENDS EkaWorkspace, EkaLemmas

PC == Over \cup
  {"idle", "meta", "create", "write", "open", "migrate", "gate", "detect", "align", "alignWrite",
   "resolve", "name", "path", "owner", "project", "repo", "pull", "push", "pushed", "done",
   "delete", "count", "deleteAll", "dropProject"}

Record == [key : Key, path : Dir, ns : Namespace \cup {Unset}]

Process ==
  [pc : PC, cmd : Commands \cup {NoFile}, root : Dir \cup {NoFile}, m : Identity \cup {NoFile},
   aligned : BOOLEAN, file : Identity \cup {NoFile}, repo : Record \cup {NoRow},
   clean : BOOLEAN, empty : SUBSET Project]

Opening   == {"meta", "create", "write", "open", "migrate"}
InTree    == {"detect", "align", "alignWrite", "resolve", "name", "path"}
WithRepo  == {"name", "path", "owner", "project", "repo", "pull", "push", "pushed"}
Removing  == {"delete", "count", "deleteAll", "dropProject"}

\* What a process that is at a step has in memory.
ProcessOK(p) ==
  /\ p \in Process
  /\ p.pc \notin Over \cup {"idle"} => p.cmd \in Commands
  /\ p.pc \in {"gate"} \cup InTree \cup WithRepo => p.cmd.do \in {"sync", "adopt", "register"}
  /\ p.pc \in InTree => p.root \in Dir /\ p.m \in Identity
  /\ p.pc = "alignWrite" => p.file \in Identity
  /\ p.pc \in WithRepo => p.repo \in Record
  /\ p.pc \in {"project", "repo"} => p.repo.key[2] # Reserved
  /\ p.pc \in Removing => p.cmd.do \in {"unregister", "drop"}

\* A version that has units has no objects.
Migrated(d) == d.version > 1 => ~ HasObjects(d)

MemoryOK == run \in [Run -> Process] /\ \A r \in Run : ProcessOK(run[r])

TreesOK ==
  /\ eka \in [Dir -> Identity \cup {Torn, NoFile}]
  /\ content \in [Dir -> SUBSET Namespace]

Inv ==
  /\ metaFile \in {"absent", Torn, "written"}
  /\ db \in Database /\ TreesOK /\ MemoryOK
  /\ RegistryIntact /\ Migrated(db) /\ OpenedIsCurrent

----------------------------------------------------------------------------
(* Reading the tree *)

\* Find in the identity files e.
FindIn(e, d) ==
  LET i == SelectInSeq(Above[d], LAMBDA l : e[l] # NoFile)
  IN  IF i = 0 THEN NoFile ELSE Above[d][i]

LEMMA FindRead ==
  \A d : Find(d) = FindIn(eka, d)
BY DEF Find, FindIn

\* The search takes the first of the directories that have an identity file.
LEMMA FirstFound ==
  ASSUME NEW e, NEW d \in Dir
  PROVE  LET I  == {i \in 1..Len(Above[d]) : e[Above[d][i]] # NoFile}
             at == SelectInSeq(Above[d], LAMBDA l : e[l] # NoFile)
         IN  IF I = {} THEN at = 0 ELSE at \in I /\ \A i \in I : at <= i
<1> DEFINE I == {i \in 1..Len(Above[d]) : e[Above[d][i]] # NoFile}
           at == SelectInSeq(Above[d], LAMBDA l : e[l] # NoFile)
<1>1. Len(Above[d]) \in Nat
  BY PathAssumption
<1>2. at = IF I # {} THEN Min(I) ELSE 0
  BY DEF SelectInSeq
<1>3. I # {} => Min(I) \in I /\ \A i \in I : Min(I) <= i
  <2>1. I # {} => \E i \in I : \A j \in I : i <= j
    <3>1. I \subseteq 1..Len(Above[d])
      OBVIOUS
    <3> HIDE DEF I
    <3> QED  BY <1>1, <3>1, LeastElement
  <2> HIDE DEF I
  <2> QED  BY <2>1 DEF Min
<1> HIDE DEF I, at
<1>4. IF I = {} THEN at = 0 ELSE at \in I /\ \A i \in I : at <= i
  BY <1>2, <1>3
<1> QED  BY <1>4 DEF I, at

\* It ends at a directory that has one, or nowhere; at the first, if that has one.
LEMMA FindEnds ==
  ASSUME NEW e, NEW d \in Dir
  PROVE  /\ FindIn(e, d) # NoFile => FindIn(e, d) \in Dir /\ e[FindIn(e, d)] # NoFile
         /\ e[d] # NoFile => FindIn(e, d) = d
<1> DEFINE I == {i \in 1..Len(Above[d]) : e[Above[d][i]] # NoFile}
           at == SelectInSeq(Above[d], LAMBDA l : e[l] # NoFile)
<1>1. Above[d] \in Seq(Dir) /\ Len(Above[d]) \in Nat /\ Len(Above[d]) > 0 /\ Above[d][1] = d
  BY PathAssumption
<1>2. IF I = {} THEN at = 0 ELSE at \in I /\ \A i \in I : at <= i
  BY FirstFound
<1>3. FindIn(e, d) = IF at = 0 THEN NoFile ELSE Above[d][at]
  BY DEF FindIn
<1>4. \A i : i \in I <=> i \in 1..Len(Above[d]) /\ e[Above[d][i]] # NoFile
  OBVIOUS
<1> HIDE DEF I, at
<1>5. at # 0 => Above[d][at] \in Dir /\ e[Above[d][at]] # NoFile
  BY <1>1, <1>2, <1>4
<1>6. ASSUME e[d] # NoFile  PROVE at = 1
  <2>1. 1 \in I
    BY <1>1, <1>4, <1>6
  <2>2. at \in Nat /\ at >= 1 /\ at <= 1
    BY <1>1, <1>2, <1>4, <2>1
  <2> QED  BY <2>2
<1> QED  BY <1>1, <1>3, <1>5, <1>6

\* It ends at the same place in trees that have their files in the same places.
LEMMA FindSame ==
  ASSUME NEW e, NEW e2, NEW d \in Dir, \A l \in Dir : e[l] = NoFile <=> e2[l] = NoFile
  PROVE  FindIn(e2, d) = FindIn(e, d)
<1> DEFINE I == {i \in 1..Len(Above[d]) : e[Above[d][i]] # NoFile}
           J == {i \in 1..Len(Above[d]) : e2[Above[d][i]] # NoFile}
           at == SelectInSeq(Above[d], LAMBDA l : e[l] # NoFile)
           to == SelectInSeq(Above[d], LAMBDA l : e2[l] # NoFile)
<1>1. Above[d] \in Seq(Dir) /\ Len(Above[d]) \in Nat
  BY PathAssumption
<1>2. I = J
  BY <1>1
<1>3. IF I = {} THEN at = 0 ELSE at \in I /\ \A i \in I : at <= i
  BY FirstFound
<1>4. IF J = {} THEN to = 0 ELSE to \in J /\ \A i \in J : to <= i
  BY FirstFound
<1>5. /\ FindIn(e, d) = IF at = 0 THEN NoFile ELSE Above[d][at]
      /\ FindIn(e2, d) = IF to = 0 THEN NoFile ELSE Above[d][to]
  BY DEF FindIn
<1>6. I \subseteq Nat
  BY <1>1
<1> HIDE DEF I, J, at, to
<1>7. at = to
  <2>1. CASE I = {}
    BY <1>2, <1>3, <1>4, <2>1
  <2>2. CASE I # {}
    <3>1. at \in I /\ to \in I /\ at <= to /\ to <= at
      BY <1>2, <1>3, <1>4, <2>2
    <3>2. at \in Nat /\ to \in Nat
      BY <1>6, <3>1
    <3> QED  BY <3>1, <3>2
  <2> QED  BY <2>1, <2>2
<1> QED  BY <1>5, <1>7

LEMMA FindFinds ==
  ASSUME NEW d \in Dir
  PROVE  Find(d) # NoFile => Find(d) \in Dir /\ eka[Find(d)] # NoFile
BY FindRead, FindEnds

----------------------------------------------------------------------------
(* The memory of the processes *)

\* A step of one process gives the others at most a cleared flag.
LEMMA MemoryKept ==
  ASSUME MemoryOK, NEW r \in Run, NEW self, ProcessOK(self), Becomes(r, self)
  PROVE  MemoryOK' /\ run'[r] = self
         /\ \A q \in Run \ {r} : run'[q].pc = run[q].pc
<1>1. run' \in [Run -> Process] /\ run'[r] = self
  <2>1. ASSUME NEW q \in Run  PROVE [run[q] EXCEPT !.clean = FALSE] \in Process
    BY DEF MemoryOK, Process
  <2> QED  BY <2>1 DEF MemoryOK, Becomes, ProcessOK
<1>2. ASSUME NEW q \in Run, q # r  PROVE ProcessOK(run'[q]) /\ run'[q].pc = run[q].pc
  <2>1. CASE run'[q] = run[q]
    BY <2>1 DEF MemoryOK
  <2>2. CASE run'[q] = [run[q] EXCEPT !.clean = FALSE]
    <3>1. run[q] \in Process /\ ProcessOK(run[q])
      BY DEF MemoryOK
    <3>2. /\ run'[q].pc = run[q].pc /\ run'[q].cmd = run[q].cmd
          /\ run'[q].root = run[q].root /\ run'[q].m = run[q].m
          /\ run'[q].file = run[q].file /\ run'[q].repo = run[q].repo
      BY <2>2, <3>1 DEF Process
    <3> QED  BY <1>1, <3>1, <3>2 DEF ProcessOK
  <2> QED  BY <1>2, <2>1, <2>2 DEF Becomes
<1> QED  BY <1>1, <1>2 DEF MemoryOK

\* A process that goes on to another step remembers what it did.
LEMMA AtStep ==
  ASSUME NEW p \in Process, NEW pc \in PC
  PROVE  LET s == [p EXCEPT !.pc = pc]
         IN  /\ s \in Process /\ s.pc = pc /\ s.cmd = p.cmd /\ s.root = p.root
             /\ s.m = p.m /\ s.file = p.file /\ s.repo = p.repo
BY DEF Process

\* A process that has ended remembers nothing.
LEMMA EndedOK ==
  ASSUME NEW how \in Over
  PROVE  ProcessOK([Idle EXCEPT !.pc = how]) /\ [Idle EXCEPT !.pc = how].pc = how
<1>1. Idle \in Process
  BY DEF Idle, Process, PC
<1>2. how \in PC /\ how \notin {"gate"} \cup InTree \cup WithRepo \cup Removing
  BY DEF PC, Over, InTree, WithRepo, Removing
<1>3. [Idle EXCEPT !.pc = how] \in Process /\ [Idle EXCEPT !.pc = how].pc = how
  BY <1>1, <1>2, AtStep
<1> QED  BY <1>2, <1>3 DEF ProcessOK, InTree, WithRepo, Removing

LEMMA EndKeepsMemory ==
  ASSUME MemoryOK, NEW r \in Run, NEW how \in Over, End(r, how)
  PROVE  MemoryOK' /\ run'[r].pc = how /\ \A q \in Run \ {r} : run'[q].pc = run[q].pc
BY EndedOK, MemoryKept DEF End

\* The namespaces of a tree and of the units of its repository.
LEMMA SourcesAreNamespaces ==
  ASSUME Inv, NEW r \in Run, run[r].root \in Dir, run[r].m \in Identity
  PROVE  SourceNamespaces(r) \subseteq Namespace
BY DEF Inv, TreesOK, Database, SourceNamespaces, Identity

----------------------------------------------------------------------------
(* What each step leaves in memory *)

LEMMA OpenMemory ==
  ASSUME Inv, NEW r \in Run, Open(r)
  PROVE  MemoryOK'
<1> DEFINE p == run[r]
<1>1. MemoryOK /\ p \in Process /\ ProcessOK(p)
  BY DEF Inv, MemoryOK
<1>2. p.pc \in Opening /\ p.cmd \in Commands
  BY <1>1 DEF Open, MetaRead, MetaCreate, MetaWrite, OpenStore, Migrate, Opening, ProcessOK, Over
<1>3. ASSUME NEW pc \in {"create", "write", "open", "migrate"}
      PROVE  ProcessOK([p EXCEPT !.pc = pc])
  BY <1>1, <1>2, AtStep DEF ProcessOK, PC, InTree, WithRepo, Removing
<1>4. ProcessOK([p EXCEPT !.pc = FirstStep(r)])
  <2>1. FirstStep(r) \in {"delete", "deleteAll", "gate"}
    BY DEF FirstStep
  <2>2. FirstStep(r) = "gate" => p.cmd.do \in {"sync", "adopt", "register"}
    BY <1>2, WorkspaceAssumption DEF FirstStep, Removal
  <2>3. FirstStep(r) # "gate" => p.cmd.do \in {"unregister", "drop"}
    BY DEF FirstStep
  <2> QED  BY <1>1, <1>2, <2>1, <2>2, <2>3, AtStep DEF ProcessOK, PC, InTree, WithRepo, Removing
<1>5. CASE MetaRead(r)
  BY <1>1, <1>3, <1>5, MemoryKept, EndKeepsMemory DEF MetaRead, Goto, Fail, Over
<1>6. CASE MetaCreate(r)
  BY <1>1, <1>3, <1>6, MemoryKept DEF MetaCreate, Goto
<1>7. CASE MetaWrite(r)
  BY <1>1, <1>3, <1>7, MemoryKept DEF MetaWrite, Goto
<1>8. CASE OpenStore(r)
  BY <1>1, <1>3, <1>4, <1>8, MemoryKept DEF OpenStore, Goto
<1>9. CASE Migrate(r)
  BY <1>1, <1>4, <1>9, MemoryKept DEF Migrate, Goto
<1> QED  BY <1>5, <1>6, <1>7, <1>8, <1>9 DEF Open

LEMMA GateMemory ==
  ASSUME Inv, NEW r \in Run, GateLegacy(r) \/ Gate(r)
  PROVE  MemoryOK'
<1> DEFINE p == run[r]
           dir == p.cmd.dir
           root == Find(dir)
<1>1. MemoryOK /\ p \in Process /\ ProcessOK(p) /\ p.pc = "gate"
  BY DEF Inv, MemoryOK, GateLegacy, Gate
<1>2. p.cmd \in Commands /\ p.cmd.do \in {"sync", "adopt", "register"}
  BY <1>1 DEF ProcessOK, Over
<1>3. dir \in Dir /\ p.cmd.project \in Project \cup {NoFile}
  BY <1>2, WorkspaceAssumption DEF Removal
<1>4. CASE GateLegacy(r)
  <2> DEFINE project == IF p.cmd.project = NoFile THEN Base[dir] ELSE p.cmd.project
             repo == [key |-> <<project, Base[dir]>>, path |-> dir, ns |-> Unset]
             self == [p EXCEPT !.pc = "owner", !.repo = repo]
  <2>1. CASE Fail(r)
    BY <1>1, <2>1, EndKeepsMemory DEF Fail, Over
  <2>2. CASE Base[dir] # Reserved /\ Becomes(r, self)
    <3>1. project \in Project /\ Base[dir] \in Name
      BY <1>3, <2>2, WorkspaceAssumption
    <3>2. repo \in Record
      <4> HIDE DEF project, dir
      <4> QED  BY <1>3, <3>1 DEF Record, Key
    <3>3. self \in Process /\ self.pc = "owner" /\ self.repo = repo /\ self.cmd = p.cmd
      <4> HIDE DEF repo
      <4> QED  BY <1>1, <3>2 DEF Process, PC
    <3>4. ProcessOK(self)
      <4> HIDE DEF self, repo
      <4> QED  BY <1>2, <3>2, <3>3 DEF ProcessOK, InTree, WithRepo, Removing
    <3> QED  BY <1>1, <2>2, <3>4, MemoryKept
  <2> QED  BY <1>4, <2>1, <2>2 DEF GateLegacy
<1>5. CASE Gate(r)
  <2> DEFINE next == CASE p.cmd.do = "sync"  -> "detect"
                       [] p.cmd.do = "adopt" -> "resolve"
                       [] OTHER              -> "owner"
             repo == IF p.cmd.do = "register" THEN RecordOf(eka[root], root) ELSE NoRow
             self == [p EXCEPT !.root = root, !.m = eka[root], !.pc = next, !.repo = repo]
  <2>1. CASE Fail(r)
    BY <1>1, <2>1, EndKeepsMemory DEF Fail, Over
  <2>2. CASE root # NoFile /\ eka[root] # Torn /\ Becomes(r, self)
    <3>1. root \in Dir /\ eka[root] \in Identity
      BY <1>3, <2>2, FindFinds DEF Inv, TreesOK
    <3>2. p.cmd.do = "register" => repo \in Record
      BY <3>1 DEF RecordOf, Record, Identity
    <3>3. next \in {"detect", "resolve", "owner"} /\ (next = "owner" => p.cmd.do = "register")
      BY <1>2
    <3>4. self \in Process /\ self.pc = next /\ self.repo = repo /\ self.cmd = p.cmd
          /\ self.root = root /\ self.m = eka[root]
      <4>1. repo \in Record \cup {NoRow} /\ next \in PC
        BY <3>2, <3>3 DEF PC
      <4> HIDE DEF repo, next, root
      <4> QED  BY <1>1, <3>1, <4>1 DEF Process
    <3>5. ProcessOK(self)
      <4> HIDE DEF self, next, repo, root
      <4> QED  BY <1>2, <3>1, <3>2, <3>3, <3>4 DEF ProcessOK, InTree, WithRepo, Removing
    <3> QED  BY <1>1, <2>2, <3>5, MemoryKept
  <2> QED  BY <1>5, <2>1, <2>2 DEF Gate
<1> QED  BY <1>4, <1>5

LEMMA AlignMemory ==
  ASSUME Inv, NEW r \in Run, Detect(r) \/ AlignBegin(r) \/ AlignWrite(r)
  PROVE  MemoryOK'
<1> DEFINE p == run[r]
           found == SourceNamespaces(r)
<1>1. MemoryOK /\ p \in Process /\ ProcessOK(p) /\ p.pc \in {"detect", "align", "alignWrite"}
  BY DEF Inv, MemoryOK, Detect, AlignBegin, AlignWrite
<1>2. p.cmd \in Commands /\ p.root \in Dir /\ p.m \in Identity
  BY <1>1 DEF ProcessOK, Over, InTree
<1>3. ProcessOK([p EXCEPT !.pc = "resolve"])
  BY <1>1, <1>2, AtStep DEF ProcessOK, PC, InTree, WithRepo, Removing
<1>4. CASE Detect(r)
  <2>1. CASE Becomes(r, [p EXCEPT !.pc = "resolve"])
    BY <1>1, <1>3, <2>1, MemoryKept
  <2>2. CASE Fail(r)
    BY <1>1, <2>2, EndKeepsMemory DEF Fail, Over
  <2>3. ASSUME NEW ns \in found,
               Becomes(r, [p EXCEPT !.pc = "align", !.aligned = TRUE, !.m.ns = ns])
        PROVE  MemoryOK'
    <3> DEFINE self == [p EXCEPT !.pc = "align", !.aligned = TRUE, !.m.ns = ns]
    <3>1. ns \in Namespace
      BY <1>2, SourcesAreNamespaces
    <3>2. [p.m EXCEPT !.ns = ns] \in Identity
      BY <1>2, <3>1 DEF Identity
    <3>3. self \in Process /\ self.pc = "align" /\ self.cmd = p.cmd /\ self.root = p.root
          /\ self.m \in Identity
      BY <1>1, <3>2 DEF Process, PC
    <3>4. ProcessOK(self)
      <4> HIDE DEF self
      <4> QED  BY <1>1, <1>2, <3>3 DEF ProcessOK, InTree, WithRepo, Removing
    <3> QED  BY <1>1, <2>3, <3>4, MemoryKept
  <2> QED  BY <1>4, <2>1, <2>2, <2>3 DEF Detect, Goto
<1>5. CASE AlignBegin(r)
  <2> DEFINE file == [eka[p.root] EXCEPT !.ns = p.m.ns]
             self == [p EXCEPT !.pc = "alignWrite", !.file = file]
  <2>1. CASE Fail(r)
    BY <1>1, <2>1, EndKeepsMemory DEF Fail, Over
  <2>2. CASE eka[p.root] \notin {Torn, NoFile} /\ Becomes(r, self)
    <3>1. eka[p.root] \in Identity
      BY <1>2, <2>2 DEF Inv, TreesOK
    <3>2. file \in Identity
      BY <1>2, <3>1 DEF Identity
    <3>3. self \in Process /\ self.pc = "alignWrite" /\ self.cmd = p.cmd /\ self.root = p.root
          /\ self.m = p.m /\ self.file = file
      <4> HIDE DEF file
      <4> QED  BY <1>1, <3>2 DEF Process, PC
    <3>4. ProcessOK(self)
      <4> HIDE DEF self, file
      <4> QED  BY <1>1, <1>2, <3>2, <3>3 DEF ProcessOK, InTree, WithRepo, Removing
    <3> QED  BY <1>1, <2>2, <3>4, MemoryKept
  <2> QED  BY <1>5, <2>1, <2>2 DEF AlignBegin
<1>6. CASE AlignWrite(r)
  <2> DEFINE self == [p EXCEPT !.pc = "resolve", !.file = NoFile]
  <2>1. self \in Process /\ self.pc = "resolve" /\ self.cmd = p.cmd /\ self.root = p.root
        /\ self.m = p.m
    BY <1>1 DEF Process, PC
  <2>2. ProcessOK(self)
    <3> HIDE DEF self
    <3> QED  BY <1>1, <1>2, <2>1 DEF ProcessOK, InTree, WithRepo, Removing
  <2> QED  BY <1>1, <1>6, <2>2, MemoryKept DEF AlignWrite
<1> QED  BY <1>4, <1>5, <1>6

\* Once a process has its tree and a registry record it can be at the last
\* steps of the resolution or past them.
LEMMA ResolvedOK ==
  ASSUME NEW p, ProcessOK(p), p.pc \in InTree, p.cmd \in Commands, p.root \in Dir, p.m \in Identity,
         NEW repo \in Record, NEW pc \in {"name", "path", "pull", "done", "owner"}
  PROVE  ProcessOK([p EXCEPT !.pc = pc, !.repo = repo])
<1> DEFINE self == [p EXCEPT !.pc = pc, !.repo = repo]
<1>1. self \in Process /\ self.pc = pc /\ self.cmd = p.cmd /\ self.root = p.root
      /\ self.m = p.m /\ self.repo = repo
  BY DEF ProcessOK, Process, PC
<1> HIDE DEF self
<1>2. ProcessOK(self)
  BY <1>1 DEF ProcessOK, InTree, WithRepo, Removing
<1> QED  BY <1>2 DEF self

LEMMA SettledStep ==
  ASSUME NEW r \in Run, NEW repo
  PROVE  Settled(r, repo) \in {"name", "path", "pull", "done", "owner"}
BY DEF Settled

LEMMA ResolveMemory ==
  ASSUME Inv, NEW r \in Run, Resolve(r) \/ SetNamespace(r) \/ RefreshPath(r)
  PROVE  MemoryOK'
<1> DEFINE p == run[r]
<1>1. MemoryOK /\ p \in Process /\ ProcessOK(p) /\ p.pc \in {"resolve", "name", "path"}
  BY DEF Inv, MemoryOK, Resolve, SetNamespace, RefreshPath
<1>2. p.pc \in InTree /\ p.cmd \in Commands /\ p.root \in Dir /\ p.m \in Identity
  BY <1>1 DEF ProcessOK, Over, InTree
<1>3. ASSUME Fail(r)  PROVE MemoryOK'
  BY <1>1, <1>3, EndKeepsMemory DEF Fail, Over
<1>4. ASSUME NEW repo \in Record, NEW pc \in {"name", "path", "pull", "done", "owner"},
             Becomes(r, [p EXCEPT !.pc = pc, !.repo = repo])
      PROVE  MemoryOK'
  BY <1>1, <1>2, <1>4, ResolvedOK, MemoryKept
<1>5. CASE Resolve(r)
  <2> DEFINE next(k) ==
        LET row  == db.repos[k]
            repo == [key |-> k, path |-> row.path, ns |-> row.ns]
            same == row.ns = p.m.ns
        IN  IF same /\ ~ p.aligned THEN Settled(r, repo) ELSE "name"
             record(k) == [key |-> k, path |-> db.repos[k].path, ns |-> db.repos[k].ns]
  <2>1. CASE Becomes(r, [p EXCEPT !.pc = "owner", !.repo = RecordOf(p.m, p.root)])
    <3>1. RecordOf(p.m, p.root) \in Record
      BY <1>2 DEF RecordOf, Record, Identity
    <3> QED  BY <1>4, <2>1, <3>1
  <2>2. ASSUME NEW k \in FindRepo(p.root),
               Becomes(r, [p EXCEPT !.repo = record(k), !.pc = next(k)])
        PROVE  MemoryOK'
    <3>1. k \in Key /\ Registered(k)
      BY DEF FindRepo, ByPath
    <3>2. record(k) \in Record
      BY <3>1 DEF Registered, Inv, Database, Row, Record
    <3>3. next(k) \in {"name", "path", "pull", "done", "owner"}
      BY SettledStep
    <3>4. [p EXCEPT !.repo = record(k), !.pc = next(k)] = [p EXCEPT !.pc = next(k), !.repo = record(k)]
      <4> HIDE DEF next, record
      <4> QED  BY <1>1 DEF Process
    <3> HIDE DEF next, record
    <3> QED  BY <1>4, <2>2, <3>2, <3>3, <3>4
  <2> QED  BY <1>3, <1>5, <2>1, <2>2 DEF Resolve
<1>6. CASE SetNamespace(r)
  <2> DEFINE repo == [p.repo EXCEPT !.ns = p.m.ns]
  <2>1. repo \in Record
    BY <1>1, <1>2, <1>6 DEF ProcessOK, WithRepo, Record, Identity, SetNamespace
  <2> HIDE DEF repo
  <2> QED  BY <1>3, <1>4, <1>6, <2>1, SettledStep DEF SetNamespace, repo
<1>7. CASE RefreshPath(r)
  <2> DEFINE repo == [p.repo EXCEPT !.path = p.root]
  <2>1. repo \in Record
    BY <1>1, <1>2, <1>7 DEF ProcessOK, WithRepo, Record, RefreshPath
  <2> HIDE DEF repo
  <2> QED  BY <1>3, <1>4, <1>7, <2>1, SettledStep DEF RefreshPath, repo
<1> QED  BY <1>5, <1>6, <1>7

LEMMA PushMemory ==
  ASSUME Inv, NEW r \in Run, PullUnits(r) \/ PushCheck(r) \/ PushNamespace(r) \/ Finish(r)
  PROVE  MemoryOK'
<1> DEFINE p == run[r]
<1>1. MemoryOK /\ p \in Process /\ ProcessOK(p) /\ p.pc \in {"pull", "push", "pushed", "done"}
  BY DEF Inv, MemoryOK, PullUnits, PushCheck, PushNamespace, Finish
<1>2. p.cmd \in Commands /\ (p.pc # "done" => p.repo \in Record)
  BY <1>1 DEF ProcessOK, Over, WithRepo
<1>3. ASSUME NEW how \in Over, End(r, how)  PROVE MemoryOK'
  BY <1>1, <1>3, EndKeepsMemory
<1>4. ASSUME NEW pc \in {"done", "push"}, p.pc # "done", Goto(r, pc)
      PROVE  MemoryOK'
  <2>1. ProcessOK([p EXCEPT !.pc = pc])
    BY <1>1, <1>2, <1>4, AtStep DEF ProcessOK, PC, InTree, WithRepo, Removing
  <2> QED  BY <1>1, <1>4, <2>1, MemoryKept DEF Goto
<1>5. CASE PullUnits(r)
  BY <1>3, <1>4, <1>5 DEF PullUnits, Fail, Over
<1>6. CASE PushCheck(r)
  <2> DEFINE found == IF Find(p.repo.path) = NoFile
                        THEN content[p.repo.path] \cup db.units[p.repo.key] ELSE {p.repo.ns}
  <2>1. found \subseteq Namespace \cup {Unset}
    BY <1>2, <1>6 DEF PushCheck, Record, Inv, TreesOK, Database
  <2>2. ASSUME NEW ns \in found, Becomes(r, [p EXCEPT !.pc = "pushed", !.repo.ns = ns])
        PROVE  MemoryOK'
    <3> DEFINE repo == [p.repo EXCEPT !.ns = ns]
               self == [p EXCEPT !.pc = "pushed", !.repo.ns = ns]
    <3>1. repo \in Record
      BY <1>2, <1>6, <2>1 DEF PushCheck, Record
    <3>2. self \in Process /\ self.pc = "pushed" /\ self.cmd = p.cmd /\ self.repo = repo
      BY <1>1, <3>1 DEF Process, PC
    <3>3. ProcessOK(self)
      <4> HIDE DEF self, repo
      <4> QED  BY <1>1, <1>2, <1>6, <3>1, <3>2 DEF ProcessOK, PushCheck, InTree, WithRepo, Removing
    <3> QED  BY <1>1, <2>2, <3>3, MemoryKept
  <2> QED  BY <1>3, <1>6, <2>2 DEF PushCheck, Fail, Over
<1>7. CASE PushNamespace(r)
  BY <1>3, <1>4, <1>7 DEF PushNamespace, Fail, Over
<1>8. CASE Finish(r)
  BY <1>3, <1>8 DEF Finish, Over
<1> QED  BY <1>5, <1>6, <1>7, <1>8

LEMMA RegisterMemory ==
  ASSUME Inv, NEW r \in Run, Register(r)
  PROVE  MemoryOK'
<1> DEFINE p == run[r]
<1>1. MemoryOK /\ p \in Process /\ ProcessOK(p) /\ p.pc \in {"owner", "project", "repo"}
  BY DEF Inv, MemoryOK, Register, CheckOwner, InsertProject, InsertRepo
<1>2. p.cmd \in Commands /\ p.repo \in Record
  BY <1>1 DEF ProcessOK, Over, WithRepo
<1>3. ASSUME Fail(r)  PROVE MemoryOK'
  BY <1>1, <1>3, EndKeepsMemory DEF Fail, Over
<1>4. ASSUME NEW pc \in {"project", "repo", "pull", "done"}, Goto(r, pc),
             pc \in {"project", "repo"} => p.repo.key[2] # Reserved
      PROVE  MemoryOK'
  <2>1. ProcessOK([p EXCEPT !.pc = pc])
    BY <1>1, <1>2, <1>4, AtStep DEF ProcessOK, PC, InTree, WithRepo, Removing
  <2> QED  BY <1>1, <1>4, <2>1, MemoryKept DEF Goto
<1>5. CASE CheckOwner(r)
  BY <1>3, <1>4, <1>5 DEF CheckOwner
<1>6. CASE InsertProject(r)
  BY <1>1, <1>4, <1>6 DEF InsertProject, ProcessOK
<1>7. CASE InsertRepo(r)
  BY <1>3, <1>4, <1>7 DEF InsertRepo
<1> QED  BY <1>5, <1>6, <1>7 DEF Register

LEMMA UnregisterMemory ==
  ASSUME Inv, NEW r \in Run, Unregister(r)
  PROVE  MemoryOK'
<1> DEFINE p == run[r]
<1>1. MemoryOK /\ p \in Process /\ ProcessOK(p) /\ p.pc \in Removing
  BY DEF Inv, MemoryOK, Unregister, DeleteRepo, CountRepos, DeleteRepos, DropProject, Removing
<1>2. p.cmd \in Commands /\ p.cmd.do \in {"unregister", "drop"}
  BY <1>1 DEF ProcessOK, Over, Removing
<1>3. ASSUME Fail(r)  PROVE MemoryOK'
  BY <1>1, <1>3, EndKeepsMemory DEF Fail, Over
<1>4. ASSUME NEW pc \in {"count", "dropProject", "done"}, Goto(r, pc)
      PROVE  MemoryOK'
  <2>1. ProcessOK([p EXCEPT !.pc = pc])
    BY <1>1, <1>2, AtStep DEF ProcessOK, PC, InTree, WithRepo, Removing
  <2> QED  BY <1>1, <1>4, <2>1, MemoryKept DEF Goto
<1> QED  BY <1>3, <1>4 DEF Unregister, DeleteRepo, CountRepos, DeleteRepos, DropProject

LEMMA BeginMemory ==
  ASSUME Inv, NEW r \in Run, NEW c \in Commands, Begin(r, c)
  PROVE  MemoryOK'
<1> DEFINE self == [Idle EXCEPT !.pc = "meta", !.cmd = c, !.empty = Empty(db)]
<1>1. Empty(db) \subseteq Project
  BY DEF Empty, Inv, Database
<1>2. self \in Process /\ self.pc = "meta" /\ self.cmd = c
  BY <1>1 DEF Idle, Process, PC
<1>3. ProcessOK(self)
  <2> HIDE DEF self
  <2> QED  BY <1>2 DEF ProcessOK, InTree, WithRepo, Removing
<1> QED  BY <1>3, MemoryKept DEF Begin, Inv

\* An edit of a tree clears flags.
LEMMA EditMemory ==
  ASSUME MemoryOK, NEW d \in Dir, NEW e \in Edits, EditTree(d, e)
  PROVE  MemoryOK' /\ \A q \in Run : run'[q].pc = run[q].pc
<1>1. ASSUME NEW q \in Run
      PROVE  /\ [run[q] EXCEPT !.clean = FALSE] \in Process
             /\ [run[q] EXCEPT !.clean = FALSE].pc = run[q].pc
             /\ ProcessOK([run[q] EXCEPT !.clean = FALSE])
  <2> DEFINE p == run[q]
             s == [p EXCEPT !.clean = FALSE]
  <2>1. p \in Process /\ ProcessOK(p)
    BY DEF MemoryOK
  <2>2. s \in Process /\ s.pc = p.pc /\ s.cmd = p.cmd /\ s.root = p.root /\ s.m = p.m
        /\ s.file = p.file /\ s.repo = p.repo
    BY <2>1 DEF Process
  <2>3. ProcessOK(s)
    <3> HIDE DEF s, p
    <3> QED  BY <2>1, <2>2 DEF ProcessOK
  <2> QED  BY <2>2, <2>3
<1> QED  BY <1>1 DEF EditTree, MemoryOK

LEMMA MemoryStep ==
  ASSUME Inv, [Next]_vars
  PROVE  MemoryOK'
<1>1. CASE UNCHANGED vars
  BY <1>1 DEF vars, Inv, MemoryOK
<1>2. ASSUME NEW r \in Run, Sync(r)  PROVE MemoryOK'
  BY <1>2, GateMemory, AlignMemory, ResolveMemory, PushMemory DEF Sync
<1>3. ASSUME NEW r \in Run, Busy(r) \/ Crash(r)  PROVE MemoryOK'
  BY <1>3, EndKeepsMemory DEF Busy, Crash, Inv, Over
<1>4. ASSUME NEW d \in Dir, NEW e \in Edits, EditTree(d, e)  PROVE MemoryOK'
  BY <1>4, EditMemory DEF Inv
<1> QED  BY <1>1, <1>2, <1>3, <1>4, BeginMemory, OpenMemory, RegisterMemory, UnregisterMemory DEF Next

----------------------------------------------------------------------------
(* The tables *)

\* The tables d give no path that is registered to another repository.
OwnersStay(d) ==
  \A k, l \in Key :
    Registered(k) /\ d.repos[l] # NoRow /\ d.repos[l].path = db.repos[k].path => k = l

\* A row that stays at its path, or takes one that no other row has, and a key
\* that has its project and is not the reserved one: the registry stays sound.
LEMMA RowReplaced ==
  ASSUME db \in Database, RegistrySound(db),
         NEW k \in Key, NEW row \in Row, k[1] \in db.projects, k[2] # Reserved,
         ByPath(row.path) \subseteq {k}
  PROVE  LET d == [db EXCEPT !.repos[k] = row]
         IN  /\ d \in Database /\ RegistrySound(d) /\ OwnersStay(d)
             /\ d.version = db.version /\ d.old = db.old /\ d.units = db.units
<1> DEFINE d == [db EXCEPT !.repos[k] = row]
<1>1. /\ d \in Database /\ d.projects = db.projects /\ d.version = db.version
      /\ d.old = db.old /\ d.units = db.units
      /\ d.repos = [db.repos EXCEPT ![k] = row]
  BY DEF Database
<1>2. \A l \in Key : d.repos[l] = IF l = k THEN row ELSE db.repos[l]
  BY <1>1 DEF Database
<1>3. \A l \in Key : l # k /\ db.repos[l] # NoRow => db.repos[l].path # row.path
  BY DEF ByPath, Registered
<1> HIDE DEF d
<1>4. RegistrySound(d)
  BY <1>1, <1>2, <1>3 DEF RegistrySound
<1>5. OwnersStay(d)
  BY <1>2, <1>3 DEF OwnersStay, RegistrySound, Registered
<1> QED  BY <1>1, <1>4, <1>5 DEF d

\* Rows that are removed leave a sound registry.
LEMMA RowsRemoved ==
  ASSUME db \in Database, RegistrySound(db), NEW K \in SUBSET Key
  PROVE  LET d == [db EXCEPT !.repos = [k \in Key |-> IF k \in K THEN NoRow ELSE @[k]]]
         IN  /\ d \in Database /\ RegistrySound(d) /\ OwnersStay(d)
             /\ d.version = db.version /\ d.old = db.old /\ d.units = db.units
<1> DEFINE d == [db EXCEPT !.repos = [k \in Key |-> IF k \in K THEN NoRow ELSE @[k]]]
<1>1. /\ d \in Database /\ d.projects = db.projects /\ d.version = db.version
      /\ d.old = db.old /\ d.units = db.units
      /\ d.repos = [k \in Key |-> IF k \in K THEN NoRow ELSE db.repos[k]]
  BY DEF Database
<1>2. \A l \in Key : d.repos[l] = IF l \in K THEN NoRow ELSE db.repos[l]
  BY <1>1
<1> HIDE DEF d
<1>3. RegistrySound(d)
  BY <1>1, <1>2 DEF RegistrySound
<1>4. OwnersStay(d)
  BY <1>2 DEF OwnersStay, RegistrySound, Registered
<1> QED  BY <1>1, <1>3, <1>4 DEF d

\* What a step may do to the tables, the migration apart.
TablesKept ==
  /\ db' \in Database /\ RegistryIntact' /\ OwnersStay(db')
  /\ db'.version = db.version /\ db'.old = db.old
  /\ \A k \in Key : db.units[k] \subseteq db'.units[k]

LEMMA SoundOwners ==
  ASSUME RegistrySound(db), NEW d, d.repos = db.repos
  PROVE  OwnersStay(d)
BY DEF RegistrySound, OwnersStay, Registered

LEMMA SameTables ==
  ASSUME Inv, UNCHANGED db
  PROVE  TablesKept
BY SoundOwners DEF Inv, RegistryIntact, TablesKept

LEMMA RecordTables ==
  ASSUME Inv, NEW r \in Run, SetNamespace(r) \/ RefreshPath(r) \/ PushNamespace(r)
  PROVE  TablesKept
<1> DEFINE p == run[r]
           k == p.repo.key
<1>1. ProcessOK(p) /\ p \in Process /\ db \in Database /\ RegistrySound(db)
  BY DEF Inv, MemoryOK, RegistryIntact
<1>2. p.repo \in Record /\ k \in Key
  BY <1>1 DEF ProcessOK, WithRepo, Record, SetNamespace, RefreshPath, PushNamespace
<1>3. ASSUME NEW row \in Row, Registered(k), ByPath(row.path) \subseteq {k}, db' = Update(k, row)
      PROVE  TablesKept
  <2>1. k[1] \in db.projects /\ k[2] # Reserved
    BY <1>1, <1>2, <1>3 DEF RegistrySound, Registered
  <2>2. db' = [db EXCEPT !.repos[k] = row]
    BY <1>3 DEF Update
  <2> HIDE DEF k, p
  <2> QED  BY <1>1, <1>2, <1>3, <2>1, <2>2, RowReplaced DEF TablesKept, RegistryIntact
<1>4. ASSUME NEW ns \in Namespace \cup {Unset}, Registered(k),
             db' = Update(k, [db.repos[k] EXCEPT !.ns = ns])
      PROVE  TablesKept
  <2> DEFINE row == [db.repos[k] EXCEPT !.ns = ns]
  <2>1. db.repos[k] \in Row
    BY <1>1, <1>2, <1>4 DEF Registered, Database
  <2>2. row \in Row /\ row.path = db.repos[k].path
    BY <2>1 DEF Row
  <2>3. ByPath(row.path) \subseteq {k}
    BY <1>1, <1>2, <1>4, <2>2 DEF ByPath, RegistrySound, Registered
  <2> HIDE DEF row
  <2> QED  BY <1>3, <1>4, <2>2, <2>3 DEF row
<1>5. CASE SetNamespace(r)
  <2>1. p.m.ns \in Namespace
    BY <1>1, <1>5 DEF SetNamespace, ProcessOK, InTree, Identity
  <2> QED  BY <1>4, <1>5, <2>1, SameTables DEF SetNamespace, Fail, Stays
<1>6. CASE RefreshPath(r)
  <2>1. p.root \in Dir
    BY <1>1, <1>6 DEF RefreshPath, ProcessOK, InTree
  <2>2. CASE ~ Registered(k) /\ db' = Update(k, [db.repos[k] EXCEPT !.path = p.root])
    <3>1. db.repos[k] = NoRow
      BY <2>2 DEF Registered
    <3>2. db' = db
      BY <1>1, <1>2, <2>2, <3>1 DEF Update, Database
    <3> QED  BY <3>2, SameTables
  <2>3. CASE /\ Registered(k) /\ ByPath(p.root) \subseteq {k}
             /\ db' = Update(k, [db.repos[k] EXCEPT !.path = p.root])
    <3>1. db.repos[k] \in Row
      BY <1>1, <1>2, <2>3 DEF Registered, Database
    <3>2. [db.repos[k] EXCEPT !.path = p.root] \in Row
          /\ [db.repos[k] EXCEPT !.path = p.root].path = p.root
      BY <2>1, <3>1 DEF Row
    <3> QED  BY <1>3, <2>3, <3>2
  <2> QED  BY <1>6, <2>2, <2>3, SameTables DEF RefreshPath, Fail, Stays
<1>7. CASE PushNamespace(r)
  <2>1. p.repo.ns \in Namespace \cup {Unset}
    BY <1>2 DEF Record
  <2> QED  BY <1>4, <1>7, <2>1, SameTables DEF PushNamespace, Fail, Stays
<1> QED  BY <1>5, <1>6, <1>7

LEMMA RegisterTables ==
  ASSUME Inv, NEW r \in Run, Register(r)
  PROVE  TablesKept
<1> DEFINE p == run[r]
           repo == p.repo
           k == repo.key
<1>1. ProcessOK(p) /\ p \in Process /\ db \in Database /\ RegistrySound(db)
  BY DEF Inv, MemoryOK, RegistryIntact
<1>2. repo \in Record /\ k \in Key
  BY <1>1 DEF ProcessOK, WithRepo, Record, Register, CheckOwner, InsertProject, InsertRepo
<1>3. CASE CheckOwner(r)
  BY <1>3, SameTables DEF CheckOwner, Fail, Stays
<1>4. CASE InsertProject(r)
  <2>1. k[1] \in Project
    BY <1>2 DEF Key
  <2>2. db' = [db EXCEPT !.projects = @ \cup {k[1]}]
    BY <1>4 DEF InsertProject
  <2> HIDE DEF k
  <2>3. /\ db' \in Database /\ db'.repos = db.repos /\ db.projects \subseteq db'.projects
        /\ db'.version = db.version /\ db'.old = db.old /\ db'.units = db.units
    BY <1>1, <2>1, <2>2 DEF Database
  <2> QED  BY <1>1, <2>3, SoundOwners DEF RegistryIntact, RegistrySound, TablesKept
<1>5. CASE InsertRepo(r)
  <2>1. k[2] # Reserved
    BY <1>1, <1>5 DEF InsertRepo, ProcessOK
  <2>2. CASE Insertable(repo) /\ db' = [db EXCEPT !.repos[k] = Upserted(repo)]
    <3>1. Upserted(repo) \in Row /\ Upserted(repo).path = repo.path
      <4>1. CASE Registered(k)
        <5>1. db.repos[k] \in Row
          BY <1>1, <1>2, <4>1 DEF Registered, Database
        <5> QED  BY <1>2, <4>1, <5>1 DEF Upserted, Row, Record
      <4>2. CASE ~ Registered(k)
        BY <1>2, <4>2 DEF Upserted, Row, Record
      <4> QED  BY <4>1, <4>2
    <3>2. k[1] \in db.projects /\ ByPath(Upserted(repo).path) \subseteq {k}
      BY <2>2, <3>1 DEF Insertable
    <3> HIDE DEF k, repo
    <3> QED  BY <1>1, <1>2, <2>1, <2>2, <3>1, <3>2, RowReplaced DEF TablesKept, RegistryIntact
  <2> QED  BY <1>5, <2>2, SameTables DEF InsertRepo, Fail, Stays
<1> QED  BY <1>3, <1>4, <1>5 DEF Register

LEMMA UnregisterTables ==
  ASSUME Inv, NEW r \in Run, Unregister(r)
  PROVE  TablesKept
<1> DEFINE p == run[r]
           k == p.cmd.key
<1>1. ProcessOK(p) /\ p \in Process /\ db \in Database /\ RegistrySound(db)
  BY DEF Inv, MemoryOK, RegistryIntact
<1>2. k \in Key
  <2>1. p.pc \in Removing
    BY DEF Unregister, DeleteRepo, CountRepos, DeleteRepos, DropProject, Removing
  <2>2. p.cmd \in Commands /\ p.cmd.do \in Removal
    BY <1>1, <2>1 DEF ProcessOK, Removing, Removal, Over
  <2> QED  BY <2>2, WorkspaceAssumption
<1>3. CASE DeleteRepo(r)
  <2>1. CASE db' = [db EXCEPT !.repos[k] = NoRow]
    <3>1. db' = [db EXCEPT !.repos = [l \in Key |-> IF l \in {k} THEN NoRow ELSE @[l]]]
      BY <1>1, <1>2, <2>1 DEF Database
    <3> QED  BY <1>1, <1>2, <3>1, RowsRemoved DEF TablesKept, RegistryIntact
  <2> QED  BY <1>3, <2>1, SameTables DEF DeleteRepo, Fail, Stays
<1>4. CASE CountRepos(r)
  BY <1>4, SameTables DEF CountRepos, Stays
<1>5. CASE DeleteRepos(r)
  <2> DEFINE K == {l \in Key : l[1] = k[1]}
  <2>1. db' = [db EXCEPT !.repos = [l \in Key |-> IF l \in K THEN NoRow ELSE @[l]]]
    BY <1>5 DEF DeleteRepos
  <2>2. K \in SUBSET Key
    OBVIOUS
  <2> HIDE DEF K
  <2> QED  BY <1>1, <2>1, <2>2, RowsRemoved DEF TablesKept, RegistryIntact
<1>6. CASE DropProject(r)
  <2>1. CASE Members(db.repos, k[1]) = {} /\ db' = [db EXCEPT !.projects = @ \ {k[1]}]
    <3>1. /\ db' \in Database /\ db'.repos = db.repos /\ db'.projects = db.projects \ {k[1]}
          /\ db'.version = db.version /\ db'.old = db.old /\ db'.units = db.units
      BY <1>1, <2>1 DEF Database
    <3>2. \A l \in Key : db.repos[l] # NoRow => l[1] # k[1]
      BY <2>1 DEF Members
    <3> QED  BY <1>1, <3>1, <3>2, SoundOwners DEF RegistryIntact, RegistrySound, TablesKept
  <2> QED  BY <1>6, <2>1, SameTables DEF DropProject, Fail, Stays
<1> QED  BY <1>3, <1>4, <1>5, <1>6 DEF Unregister

LEMMA PullTables ==
  ASSUME Inv, NEW r \in Run, PullUnits(r)
  PROVE  TablesKept
<1> DEFINE repo == run[r].repo
           k == repo.key
<1>1. repo \in Record /\ db \in Database
  BY DEF Inv, MemoryOK, ProcessOK, WithRepo, PullUnits
<1>2. CASE db' = [db EXCEPT !.units[k] = @ \cup content[repo.path]]
  <2>1. k \in Key /\ content[repo.path] \subseteq Namespace
    BY <1>1 DEF Record, Inv, TreesOK
  <2> HIDE DEF k, repo
  <2>2. /\ db' \in Database /\ db'.repos = db.repos /\ db'.projects = db.projects
        /\ db'.version = db.version /\ db'.old = db.old
        /\ \A l \in Key : db.units[l] \subseteq db'.units[l]
    BY <1>1, <1>2, <2>1 DEF Database
  <2> QED  BY <2>2, SoundOwners DEF Inv, RegistryIntact, RegistrySound, TablesKept
<1> QED  BY <1>2, SameTables DEF PullUnits, Fail, Stays

LEMMA OtherTables ==
  ASSUME Inv,
         \/ UNCHANGED vars
         \/ \E r \in Run : \/ \E c \in Commands : Begin(r, c)
                           \/ MetaRead(r) \/ MetaCreate(r) \/ MetaWrite(r) \/ OpenStore(r)
                           \/ Busy(r) \/ Crash(r)
                           \/ GateLegacy(r) \/ Gate(r) \/ Detect(r) \/ AlignBegin(r)
                           \/ AlignWrite(r) \/ Resolve(r) \/ PushCheck(r) \/ Finish(r)
         \/ \E d \in Dir, e \in Edits : EditTree(d, e)
  PROVE  TablesKept
<1>1. UNCHANGED db
  <2>1. ASSUME NEW r \in Run, NEW c \in Commands, Begin(r, c)  PROVE UNCHANGED db
    BY <2>1 DEF Begin
  <2>2. ASSUME NEW r \in Run, MetaRead(r) \/ MetaCreate(r) \/ MetaWrite(r) \/ OpenStore(r)
        PROVE  UNCHANGED db
    BY <2>2 DEF MetaRead, MetaCreate, MetaWrite, OpenStore, Fail, Stays
  <2>3. ASSUME NEW r \in Run, Busy(r) \/ Crash(r) \/ GateLegacy(r) \/ Gate(r) \/ Finish(r)
        PROVE  UNCHANGED db
    BY <2>3 DEF Busy, Crash, GateLegacy, Gate, Finish, Fail, Stays
  <2>4. ASSUME NEW r \in Run, Detect(r) \/ AlignBegin(r) \/ AlignWrite(r)
        PROVE  UNCHANGED db
    BY <2>4 DEF Detect, AlignBegin, AlignWrite, Fail, Stays
  <2>5. ASSUME NEW r \in Run, Resolve(r) \/ PushCheck(r)  PROVE UNCHANGED db
    BY <2>5 DEF Resolve, PushCheck, Fail, Stays
  <2>6. ASSUME NEW d \in Dir, NEW e \in Edits, EditTree(d, e)  PROVE UNCHANGED db
    BY <2>6 DEF EditTree
  <2> QED  BY <2>1, <2>2, <2>3, <2>4, <2>5, <2>6 DEF vars
<1> QED  BY <1>1, SameTables

\* The migration leaves no object behind, and loses none.
LEMMA MigrateTables ==
  ASSUME Inv, NEW r \in Run, Migrate(r)
  PROVE  /\ db' \in Database /\ RegistryIntact' /\ OwnersStay(db')
         /\ db'.version = schemaVersion /\ ~ HasObjects(db')
         /\ \A k \in Key : db.old[k] \cup db.units[k] \subseteq db'.old[k] \cup db'.units[k]
<1> DEFINE moved == [db EXCEPT !.units = [k \in Key |-> @[k] \cup db.old[k]],
                               !.old = [k \in Key |-> {}]]
<1>1. db \in Database /\ RegistrySound(db) /\ Migrated(db)
  BY DEF Inv, RegistryIntact
<1>2. /\ moved \in Database /\ moved.repos = db.repos /\ moved.projects = db.projects
      /\ moved.old = [k \in Key |-> {}]
      /\ moved.units = [k \in Key |-> db.units[k] \cup db.old[k]]
  BY <1>1 DEF Database
<1>3. ASSUME NEW d \in Database, d.repos = db.repos, d.projects = db.projects, ~ HasObjects(d),
             db' = [d EXCEPT !.version = schemaVersion],
             \A k \in Key : db.old[k] \cup db.units[k] \subseteq d.old[k] \cup d.units[k]
      PROVE  /\ db' \in Database /\ RegistryIntact' /\ OwnersStay(db')
             /\ db'.version = schemaVersion /\ ~ HasObjects(db')
             /\ \A k \in Key : db.old[k] \cup db.units[k] \subseteq db'.old[k] \cup db'.units[k]
  <2>1. /\ db' \in Database /\ db'.repos = db.repos /\ db'.projects = db.projects
        /\ db'.version = schemaVersion /\ db'.old = d.old /\ db'.units = d.units
    BY <1>3 DEF Database, schemaVersion
  <2>2. RegistryIntact'
    BY <1>1, <2>1 DEF RegistryIntact, RegistrySound
  <2>3. OwnersStay(db')
    BY <1>1, <2>1, SoundOwners
  <2>4. ~ HasObjects(db')
    BY <1>3, <2>1 DEF HasObjects
  <2> QED  BY <1>3, <2>1, <2>2, <2>3, <2>4
<1>4. db' = [ToV2(db) EXCEPT !.version = schemaVersion]
  BY DEF Migrate
<1>5. CASE db.version > 1 \/ (db.version = 0 /\ ~ HasObjects(db))
  <2>1. ToV2(db) = db /\ ~ HasObjects(db)
    BY <1>1, <1>5 DEF ToV2, Migrated
  <2> QED  BY <1>1, <1>3, <1>4, <2>1
<1>6. CASE ~ (db.version > 1 \/ (db.version = 0 /\ ~ HasObjects(db)))
  <2>1. ToV2(db) = moved
    BY <1>6 DEF ToV2
  <2> HIDE DEF moved
  <2>2. ~ HasObjects(moved)
        /\ \A k \in Key : db.old[k] \cup db.units[k] \subseteq moved.old[k] \cup moved.units[k]
    BY <1>2 DEF HasObjects
  <2> QED  BY <1>2, <1>3, <1>4, <2>1, <2>2
<1> QED  BY <1>5, <1>6

LEMMA TablesStep ==
  ASSUME Inv, [Next]_vars
  PROVE  \/ TablesKept
         \/ \E r \in Run : Migrate(r)
<1>1. CASE UNCHANGED vars
  BY <1>1, OtherTables
<1>2. ASSUME NEW r \in Run, Open(r)  PROVE TablesKept \/ Migrate(r)
  BY <1>2, OtherTables DEF Open
<1>3. ASSUME NEW r \in Run, Sync(r)  PROVE TablesKept
  BY <1>3, OtherTables, RecordTables, PullTables DEF Sync
<1>4. ASSUME NEW r \in Run, (\E c \in Commands : Begin(r, c)) \/ Busy(r) \/ Crash(r)
      PROVE  TablesKept
  BY <1>4, OtherTables
<1>5. ASSUME NEW d \in Dir, NEW e \in Edits, EditTree(d, e)  PROVE TablesKept
  BY <1>5, OtherTables
<1> QED  BY <1>1, <1>2, <1>3, <1>4, <1>5, RegisterTables, UnregisterTables DEF Next

\* What holds of the tables after any step.
LEMMA TablesSound ==
  ASSUME Inv, [Next]_vars
  PROVE  /\ db' \in Database /\ RegistryIntact' /\ OwnersStay(db') /\ Migrated(db')
         /\ db.version = schemaVersion => db'.version = schemaVersion
         /\ \A k \in Key : db.old[k] \cup db.units[k] \subseteq db'.old[k] \cup db'.units[k]
<1>1. CASE TablesKept
  BY <1>1 DEF TablesKept, Inv, Migrated, HasObjects
<1>2. ASSUME NEW r \in Run, Migrate(r)
      PROVE  /\ db' \in Database /\ RegistryIntact' /\ OwnersStay(db') /\ Migrated(db')
             /\ db'.version = schemaVersion
             /\ \A k \in Key : db.old[k] \cup db.units[k] \subseteq db'.old[k] \cup db'.units[k]
  BY <1>2, MigrateTables DEF Migrated
<1> QED  BY <1>1, <1>2, TablesStep

----------------------------------------------------------------------------
(* The files *)

LEMMA FilesStep ==
  ASSUME Inv, [Next]_vars
  PROVE  TreesOK' /\ metaFile' \in {"absent", Torn, "written"}
<1> DEFINE File == Identity \cup {Torn, NoFile}
<1>0. TreesOK /\ metaFile \in {"absent", Torn, "written"} /\ MemoryOK
  BY DEF Inv
<1>1. ASSUME UNCHANGED <<eka, content>>  PROVE TreesOK'
  BY <1>0, <1>1 DEF TreesOK
<1>2. ASSUME NEW d, NEW file \in File, eka' = [eka EXCEPT ![d] = file], UNCHANGED content
      PROVE  TreesOK'
  BY <1>0, <1>2 DEF TreesOK
<1>3. ASSUME NEW r \in Run, AlignBegin(r)  PROVE TreesOK' /\ metaFile' = metaFile
  BY <1>1, <1>2, <1>3 DEF AlignBegin, Fail, Stays
<1>4. ASSUME NEW r \in Run, AlignWrite(r)  PROVE TreesOK' /\ metaFile' = metaFile
  <2>1. run[r].file \in Identity
    BY <1>0, <1>4 DEF MemoryOK, ProcessOK, AlignWrite
  <2> QED  BY <1>2, <1>4, <2>1 DEF AlignWrite
<1>5. ASSUME NEW d \in Dir, NEW e \in Edits, EditTree(d, e)
      PROVE  TreesOK' /\ metaFile' = metaFile
  <2>1. e.eka \in File /\ e.content \subseteq Namespace
    BY WorkspaceAssumption
  <2> QED  BY <1>0, <1>5, <2>1 DEF EditTree, TreesOK
<1>6. ASSUME NEW r \in Run, Open(r)
      PROVE  UNCHANGED <<eka, content>> /\ metaFile' \in {metaFile, Torn, "written"}
  BY <1>6 DEF Open, MetaRead, MetaCreate, MetaWrite, OpenStore, Migrate, Fail, Stays, Writes
<1>7. ASSUME NEW r \in Run,
             \/ GateLegacy(r) \/ Gate(r) \/ Detect(r) \/ Resolve(r) \/ SetNamespace(r)
             \/ RefreshPath(r) \/ PullUnits(r) \/ PushCheck(r) \/ PushNamespace(r) \/ Finish(r)
      PROVE  UNCHANGED <<eka, content, metaFile>>
  BY <1>7 DEF GateLegacy, Gate, Detect, Resolve, SetNamespace, RefreshPath, PullUnits, PushCheck,
              PushNamespace, Finish, Fail, Stays, Writes
<1>8. ASSUME NEW r \in Run,
             \/ \E c \in Commands : Begin(r, c)
             \/ Register(r) \/ Unregister(r) \/ Busy(r) \/ Crash(r)
      PROVE  UNCHANGED <<eka, content, metaFile>>
  BY <1>8 DEF Begin, Register, CheckOwner, InsertProject, InsertRepo, Unregister, DeleteRepo,
              CountRepos, DeleteRepos, DropProject, Busy, Crash, Fail, Stays, Writes
<1>9. CASE UNCHANGED vars
  BY <1>0, <1>1, <1>9 DEF vars
<1> QED  BY <1>0, <1>1, <1>3, <1>4, <1>5, <1>6, <1>7, <1>8, <1>9 DEF Next, Sync

----------------------------------------------------------------------------
(* Who has opened the store *)

Opened(pc) == pc \notin Over \cup {"idle"} \cup Opening

\* Whatever a process does, the others stay at their steps.
LEMMA OthersStay ==
  ASSUME MemoryOK, NEW r \in Run, NEW q \in Run, q # r, NEW self, Becomes(r, self)
  PROVE  run'[q].pc = run[q].pc
<1>1. run[q] \in Process
  BY DEF MemoryOK
<1> QED  BY <1>1 DEF Becomes, Process

LEMMA ActingAlone ==
  ASSUME NEW r \in Run,
         \/ \E c \in Commands : Begin(r, c)
         \/ Open(r) \/ Sync(r) \/ Register(r) \/ Unregister(r) \/ Busy(r) \/ Crash(r)
  PROVE  \E self : Becomes(r, self)
<1>1. ASSUME Open(r)  PROVE \E self : Becomes(r, self)
  BY <1>1 DEF Open, MetaRead, MetaCreate, MetaWrite, OpenStore, Migrate, Fail, Goto, End
<1>2. ASSUME GateLegacy(r) \/ Gate(r) \/ Detect(r) \/ AlignBegin(r) \/ AlignWrite(r)
      PROVE  \E self : Becomes(r, self)
  BY <1>2 DEF GateLegacy, Gate, Detect, AlignBegin, AlignWrite, Fail, Goto, End
<1>3. ASSUME Resolve(r) \/ SetNamespace(r) \/ RefreshPath(r)
      PROVE  \E self : Becomes(r, self)
  BY <1>3 DEF Resolve, SetNamespace, RefreshPath, Fail, Goto, End
<1>4. ASSUME PullUnits(r) \/ PushCheck(r) \/ PushNamespace(r) \/ Finish(r)
      PROVE  \E self : Becomes(r, self)
  BY <1>4 DEF PullUnits, PushCheck, PushNamespace, Finish, Fail, Goto, End
<1>5. ASSUME Register(r) \/ Unregister(r)  PROVE \E self : Becomes(r, self)
  BY <1>5 DEF Register, CheckOwner, InsertProject, InsertRepo, Unregister, DeleteRepo, CountRepos,
              DeleteRepos, DropProject, Fail, Goto, End
<1> QED  BY <1>1, <1>2, <1>3, <1>4, <1>5 DEF Sync, Begin, Busy, Crash, End

\* A process gets past the opening of the store only when the schema is current.
LEMMA OpenStep ==
  ASSUME Inv, NEW r \in Run, Open(r), Opened(run'[r].pc)
  PROVE  db'.version = schemaVersion
<1>0. MemoryOK /\ run[r] \in Process
  BY DEF Inv, MemoryOK
<1>1. ASSUME NEW pc, Goto(r, pc)  PROVE run'[r].pc = pc
  BY <1>0, <1>1 DEF Goto, Becomes, Process
<1>2. ASSUME NEW how \in Over, End(r, how)  PROVE ~ Opened(run'[r].pc)
  BY <1>0, <1>2, EndKeepsMemory DEF Opened
<1>3. CASE MetaRead(r)
  <2>1. Goto(r, "create") \/ Goto(r, "open") \/ End(r, "failed")
    BY <1>3 DEF MetaRead, Fail
  <2>2. run'[r].pc = "create" \/ run'[r].pc = "open" \/ ~ Opened(run'[r].pc)
    BY <1>1, <1>2, <2>1 DEF Over
  <2> QED  BY <2>2 DEF Opened, Opening
<1>4. CASE MetaCreate(r) \/ MetaWrite(r)
  <2>1. run'[r].pc = "write" \/ run'[r].pc = "open"
    BY <1>1, <1>4 DEF MetaCreate, MetaWrite
  <2> QED  BY <2>1 DEF Opened, Opening
<1>5. CASE OpenStore(r)
  <2>1. CASE db.version = schemaVersion
    BY <1>5, <2>1 DEF OpenStore, Stays
  <2>2. CASE db.version # schemaVersion
    <3>1. run'[r].pc = "migrate"
      BY <1>1, <1>5, <2>2 DEF OpenStore
    <3> QED  BY <3>1 DEF Opened, Opening
  <2> QED  BY <2>1, <2>2
<1>6. CASE Migrate(r)
  BY <1>6, MigrateTables
<1> QED  BY <1>3, <1>4, <1>5, <1>6 DEF Open

LEMMA OpenedStep ==
  ASSUME Inv, [Next]_vars, NEW q \in Run, Opened(run'[q].pc)
  PROVE  Opened(run[q].pc) \/ db'.version = schemaVersion
<1>0. MemoryOK /\ run[q] \in Process
  BY DEF Inv, MemoryOK
<1>1. CASE UNCHANGED vars
  BY <1>1 DEF vars
<1>2. ASSUME NEW d \in Dir, NEW e \in Edits, EditTree(d, e)  PROVE Opened(run[q].pc)
  BY <1>0, <1>2, EditMemory
<1>3. ASSUME NEW r \in Run, r # q,
             \/ \E c \in Commands : Begin(r, c)
             \/ Open(r) \/ Sync(r) \/ Register(r) \/ Unregister(r) \/ Busy(r) \/ Crash(r)
      PROVE  Opened(run[q].pc)
  BY <1>0, <1>3, ActingAlone, OthersStay
<1>4. ASSUME NEW c \in Commands, Begin(q, c)  PROVE FALSE
  <2>1. run'[q].pc = "meta"
    BY <1>4 DEF Begin, Becomes, Idle
  <2> QED  BY <2>1 DEF Opened, Opening
<1>5. ASSUME Busy(q) \/ Crash(q)  PROVE FALSE
  <2>1. run'[q].pc \in Over
    BY <1>0, <1>5, EndKeepsMemory DEF Busy, Crash, Over
  <2> QED  BY <2>1 DEF Opened
<1>6. ASSUME Sync(q) \/ Register(q) \/ Unregister(q)  PROVE Opened(run[q].pc)
  <2>1. run[q].pc \in {"gate", "detect", "align", "alignWrite", "resolve", "name", "path", "pull",
                       "push", "pushed", "done", "owner", "project", "repo", "delete", "count",
                       "deleteAll", "dropProject"}
    BY <1>6 DEF Sync, GateLegacy, Gate, Detect, AlignBegin, AlignWrite, Resolve, SetNamespace,
                RefreshPath, PullUnits, PushCheck, PushNamespace, Finish, Register, CheckOwner,
                InsertProject, InsertRepo, Unregister, DeleteRepo, CountRepos, DeleteRepos,
                DropProject
  <2> QED  BY <2>1 DEF Opened, Opening, Over
<1> QED  BY <1>1, <1>2, <1>3, <1>4, <1>5, <1>6, OpenStep DEF Next

----------------------------------------------------------------------------
(* The inductive invariant *)

LEMMA InitInv ==
  Init => Inv
<1> SUFFICES ASSUME Init  PROVE Inv
  OBVIOUS
<1>1. db \in Database /\ RegistrySound(db) /\ Migrated(db)
  BY WorkspaceAssumption DEF Init, Migrated
<1>2. TreesOK
  BY WorkspaceAssumption DEF Init, TreesOK
<1>3. ProcessOK(Idle)
  BY DEF ProcessOK, Idle, Process, PC, Over, InTree, WithRepo, Removing
<1>4. MemoryOK
  BY <1>3 DEF Init, MemoryOK, ProcessOK
<1>5. OpenedIsCurrent
  BY DEF Init, OpenedIsCurrent, Live, Idle
<1> QED  BY <1>1, <1>2, <1>4, <1>5 DEF Init, Inv, RegistryIntact

LEMMA InvStep ==
  Inv /\ [Next]_vars => Inv'
<1> SUFFICES ASSUME Inv, [Next]_vars  PROVE Inv'
  OBVIOUS
<1>1. ASSUME NEW q \in Run, Opened(run'[q].pc)
      PROVE  db'.version = schemaVersion /\ ~ HasObjects(db')
  <2>1. Opened(run[q].pc) => db.version = schemaVersion
    BY DEF Inv, OpenedIsCurrent, Live, Opened, Opening
  <2>2. db'.version = schemaVersion
    BY <1>1, <2>1, OpenedStep, TablesSound
  <2> QED  BY <2>2, TablesSound DEF Migrated, schemaVersion
<1>2. OpenedIsCurrent'
  BY <1>1 DEF OpenedIsCurrent, Live, Opened, Opening
<1> QED  BY <1>2, TablesSound, MemoryStep, FilesStep DEF Inv

LEMMA Invariance ==
  Spec => []Inv
BY InitInv, InvStep, PTL DEF Spec

----------------------------------------------------------------------------
(* A process nobody interferes with *)

InRegistry == {"pull", "push", "pushed", "done"}
Inserting  == {"owner", "project", "repo"}

\* What p has read of the tree it works in is what the tree is: a torn eka.yaml
\* is the one p itself is rewriting, with the namespace of the content.
TreeKnown(e, c, p) ==
  LET root == FindIn(e, p.cmd.dir)
  IN  /\ root = NoFile => p.cmd.do = "register" /\ p.pc \notin InTree
      /\ root # NoFile =>
           /\ p.root = root /\ p.m \in Identity
           /\ IF p.pc = "align" THEN e[root] \in Identity /\ e[root].key = p.m.key
              ELSE IF p.pc = "alignWrite" THEN e[root] = Torn /\ p.file = p.m
              ELSE e[root] = p.m
      /\ p.cmd.do = "sync" /\ p.pc # "detect" => c[root] \subseteq {p.m.ns}

\* The row p works with is there, with the path and namespace p remembers.
RowKnown(d, p) ==
  LET k == p.repo.key
  IN  /\ d.repos[k] # NoRow /\ d.repos[k].path = p.repo.path
      /\ p.cmd.do # "register" => d.repos[k].ns = p.repo.ns

\* The registry record of p is the one of its tree.
RecordKnown(d, e, p) ==
  LET root == FindIn(e, p.cmd.dir)
      home == IF root = NoFile THEN p.cmd.dir ELSE root
      k    == p.repo.key
      s    == p.cmd.do
  IN  /\ p.pc \in WithRepo \cup {"done"} /\ root # NoFile => k = p.m.key
      /\ p.pc \in InTree => s # "register"
      /\ p.pc \in {"name", "path"} \cup InRegistry => k \in Key /\ RowKnown(d, p)
      /\ p.pc = "name" => p.aligned \/ p.repo.ns \in {Unset, p.m.ns}
      /\ p.pc \in {"path"} \cup Inserting \cup InRegistry /\ s # "register" => p.repo.ns = p.m.ns
      /\ p.pc \in Inserting \cup InRegistry => p.repo.path = home
      /\ p.pc \in Inserting /\ s # "register" => d.repos[k] = NoRow
      /\ p.pc \in {"project", "repo"} =>
           \A l \in Key : d.repos[l] # NoRow /\ d.repos[l].path = home => l[1] = k[1]
      /\ p.pc = "repo" => k[1] \in d.projects
      /\ p.pc \in {"pull", "push", "pushed"} => s = "sync"

\* The project a process may have left empty so far.
Pending(p) ==
  CASE p.pc = "repo"                    -> {p.repo.key[1]}
    [] p.pc \in {"count", "dropProject"} -> {p.cmd.key[1]}
    [] OTHER                            -> {}

AtWork(p) == p.pc \in InTree \cup WithRepo \cup {"done"} /\ p.cmd.do \notin Removal

Beginning == Opening \cup {"gate"}

\* What a process knows if nobody has interfered with it.
Undisturbed(d, e, c, p) ==
  /\ AtWork(p) => TreeKnown(e, c, p) /\ RecordKnown(d, e, p)
  /\ Empty(d) \subseteq p.empty \cup Pending(p)

\* Only a request makes an alignment.
Requested(p) == p.aligned => p.cmd.override /\ p.pc \notin Beginning

AloneInv ==
  \A r \in Run : Live(r) =>
    Requested(run[r]) /\ (run[r].clean => Undisturbed(db, eka, content, run[r]))

----------------------------------------------------------------------------
(* Steps and those who wait *)

\* What a process that has acted knows of the state it leaves.
Fits(p) ==
  p.pc \notin Over \cup {"idle"} =>
    Requested(p) /\ (p.clean => Undisturbed(db', eka', content', p))

\* The others keep what they know, or have been interfered with.
LEMMA AloneKept ==
  ASSUME MemoryOK, AloneInv, NEW r \in Run, NEW self, Becomes(r, self), Fits(self)
  PROVE  AloneInv'
<1>1. \A q \in Run : run[q] \in Process
  BY DEF MemoryOK
<1>2. ASSUME NEW q \in Run, q # r, run'[q].pc \notin Over \cup {"idle"}
      PROVE  /\ Requested(run'[q])
             /\ run'[q].clean => Undisturbed(db', eka', content', run'[q])
  <2>1. CASE run'[q] = [run[q] EXCEPT !.clean = FALSE]
    <3>1. /\ run'[q].pc = run[q].pc /\ run'[q].aligned = run[q].aligned
          /\ run'[q].cmd = run[q].cmd /\ ~ run'[q].clean
      BY <1>1, <2>1 DEF Process
    <3> QED  BY <1>2, <3>1 DEF AloneInv, Live, Requested
  <2>2. CASE run'[q] = run[q] /\ (~ Live(q) \/ (db' = db /\ eka' = eka /\ content' = content))
    BY <1>2, <2>2 DEF AloneInv, Live
  <2> QED  BY <1>2, <2>1, <2>2 DEF Becomes
<1>3. run'[r] = self
  BY DEF Becomes
<1> QED  BY <1>2, <1>3 DEF AloneInv, Live, Fits

LEMMA EndFits ==
  ASSUME NEW how \in Over
  PROVE  Fits([Idle EXCEPT !.pc = how])
BY DEF Idle, Fits

LEMMA AloneEnd ==
  ASSUME MemoryOK, AloneInv, NEW r \in Run, NEW how \in Over, End(r, how)
  PROVE  AloneInv'
BY EndFits, AloneKept DEF End

\* The fields of a process that goes on.
LEMMA Same ==
  ASSUME NEW p \in Process, NEW pc
  PROVE  LET s == [p EXCEPT !.pc = pc]
         IN  /\ s.pc = pc /\ s.cmd = p.cmd /\ s.root = p.root /\ s.m = p.m
             /\ s.aligned = p.aligned /\ s.file = p.file /\ s.repo = p.repo
             /\ s.clean = p.clean /\ s.empty = p.empty
BY DEF Process

\* Tables with the same projects and the same repositories have the same empty
\* projects.
LEMMA EmptySame ==
  ASSUME NEW d, NEW d2, d2.projects = d.projects,
         \A k \in Key : d2.repos[k] = NoRow <=> d.repos[k] = NoRow
  PROVE  Empty(d2) = Empty(d)
BY DEF Empty, Members

LEMMA AloneBegin ==
  ASSUME Inv, AloneInv, NEW r \in Run, NEW c \in Commands, Begin(r, c)
  PROVE  AloneInv'
<1> DEFINE self == [Idle EXCEPT !.pc = "meta", !.cmd = c, !.empty = Empty(db)]
<1>1. Becomes(r, self) /\ UNCHANGED db
  BY DEF Begin
<1>2. self.pc = "meta" /\ ~ self.aligned /\ self.empty = Empty(db)
  BY DEF Idle
<1> HIDE DEF self
<1>3. Empty(db') = Empty(db)
  BY <1>1
<1>4. Fits(self)
  BY <1>2, <1>3 DEF Fits, Requested, Undisturbed, AtWork, InTree, WithRepo
<1> QED  BY <1>1, <1>4, AloneKept DEF Inv

LEMMA AloneOpen ==
  ASSUME Inv, AloneInv, NEW r \in Run, Open(r)
  PROVE  AloneInv'
<1> DEFINE p == run[r]
<1>1. MemoryOK /\ p \in Process /\ p.pc \in Opening /\ db \in Database
  BY DEF Inv, MemoryOK, Open, MetaRead, MetaCreate, MetaWrite, OpenStore, Migrate, Opening
<1>2. Requested(p) /\ (p.clean => Undisturbed(db, eka, content, p))
  BY <1>1 DEF AloneInv, Live, Opening, Over
<1>3. Empty(db') = Empty(db)
  <2>1. db' = db \/ db' = [ToV2(db) EXCEPT !.version = schemaVersion]
    BY DEF Open, MetaRead, MetaCreate, MetaWrite, OpenStore, Migrate, Fail, Stays
  <2>2. ToV2(db) \in Database /\ ToV2(db).projects = db.projects /\ ToV2(db).repos = db.repos
    BY <1>1 DEF ToV2, Database
  <2>3. [ToV2(db) EXCEPT !.version = schemaVersion].projects = db.projects
        /\ [ToV2(db) EXCEPT !.version = schemaVersion].repos = db.repos
    BY <2>2 DEF Database
  <2> HIDE DEF p
  <2> QED  BY <2>1, <2>3, EmptySame
<1>4. ASSUME NEW pc \in Beginning \cup {"delete", "deleteAll"}, Goto(r, pc)
      PROVE  AloneInv'
  <2> DEFINE s == [p EXCEPT !.pc = pc]
  <2>1. s.pc = pc /\ s.aligned = p.aligned /\ s.empty = p.empty /\ s.clean = p.clean
    BY <1>1, Same
  <2> HIDE DEF s
  <2>2. ~ p.aligned /\ (p.clean => Empty(db) \subseteq p.empty)
    BY <1>1, <1>2 DEF Requested, Undisturbed, Pending, Beginning, Opening
  <2>3. Fits(s)
    BY <1>3, <2>1, <2>2 DEF Fits, Requested, Undisturbed, AtWork, InTree, WithRepo, Beginning, Opening
  <2> QED  BY <1>1, <1>4, <2>3, AloneKept DEF Goto, s
<1>5. FirstStep(r) \in {"gate", "delete", "deleteAll"}
  BY DEF FirstStep
<1>6. CASE MetaRead(r)
  BY <1>1, <1>4, <1>6, AloneEnd DEF MetaRead, Fail, Over, Beginning, Opening
<1>7. CASE MetaCreate(r) \/ MetaWrite(r)
  BY <1>4, <1>7 DEF MetaCreate, MetaWrite, Beginning, Opening
<1>8. CASE OpenStore(r) \/ Migrate(r)
  BY <1>4, <1>5, <1>8 DEF OpenStore, Migrate, Beginning, Opening
<1> QED  BY <1>6, <1>7, <1>8 DEF Open

\* Where a process is at work in the tree, its directory is one.
LEMMA WorksInDir ==
  ASSUME NEW p, ProcessOK(p), AtWork(p)
  PROVE  p.cmd \in Commands /\ p.cmd.dir \in Dir /\ p.cmd.do \in {"sync", "adopt", "register"}
<1>1. p.cmd \in Commands
  BY DEF ProcessOK, AtWork, InTree, WithRepo, Over
<1> QED  BY <1>1, WorkspaceAssumption DEF AtWork

LEMMA AloneGate ==
  ASSUME Inv, AloneInv, NEW r \in Run, GateLegacy(r) \/ Gate(r)
  PROVE  AloneInv'
<1> DEFINE p == run[r]
           dir == p.cmd.dir
           root == Find(dir)
<1>1. MemoryOK /\ p \in Process /\ ProcessOK(p) /\ p.pc = "gate"
  BY DEF Inv, MemoryOK, GateLegacy, Gate
<1>2. Requested(p) /\ (p.clean => Undisturbed(db, eka, content, p))
  BY <1>1 DEF AloneInv, Live, Over
<1>3. ~ p.aligned /\ (p.clean => Empty(db) \subseteq p.empty)
  BY <1>1, <1>2 DEF Requested, Undisturbed, Pending, Beginning
<1>4. p.cmd \in Commands /\ p.cmd.do \in {"sync", "adopt", "register"} /\ dir \in Dir
  BY <1>1, WorkspaceAssumption DEF ProcessOK, Over, Removal
<1>5. root = FindIn(eka, dir)
  BY FindRead
<1>6. CASE GateLegacy(r)
  <2> DEFINE repo == [key |-> <<IF p.cmd.project = NoFile THEN Base[dir] ELSE p.cmd.project, Base[dir]>>,
                      path |-> dir, ns |-> Unset]
             s == [p EXCEPT !.pc = "owner", !.repo = repo]
  <2>1. CASE Fail(r)
    BY <1>1, <2>1, AloneEnd DEF Fail, Over
  <2>2. CASE p.cmd.do = "register" /\ Becomes(r, s) /\ Stays
    <3>1. /\ s.pc = "owner" /\ s.cmd = p.cmd /\ s.aligned = p.aligned /\ s.empty = p.empty
          /\ s.clean = p.clean /\ s.repo = repo
      BY <1>1 DEF Process
    <3>2. repo.path = dir
      OBVIOUS
    <3> HIDE DEF s, repo
    <3>3. FindIn(eka, dir) = NoFile
      BY <1>5, <1>6 DEF GateLegacy
    <3>4. TreeKnown(eka, content, s)
      BY <2>2, <3>1, <3>3 DEF TreeKnown, InTree
    <3>5. RecordKnown(db, eka, s)
      BY <2>2, <3>1, <3>2, <3>3 DEF RecordKnown, Inserting, InRegistry, InTree
    <3>6. p.clean => Undisturbed(db, eka, content, s)
      BY <1>3, <3>1, <3>4, <3>5 DEF Undisturbed, Pending
    <3>7. Fits(s)
      BY <1>3, <2>2, <3>1, <3>6 DEF Fits, Requested, Stays
    <3> QED  BY <1>1, <2>2, <3>7, AloneKept
  <2> QED  BY <1>6, <2>1, <2>2 DEF GateLegacy
<1>7. CASE Gate(r)
  <2> DEFINE next == CASE p.cmd.do = "sync"  -> "detect"
                       [] p.cmd.do = "adopt" -> "resolve"
                       [] OTHER              -> "owner"
             repo == IF p.cmd.do = "register" THEN RecordOf(eka[root], root) ELSE NoRow
             s == [p EXCEPT !.root = root, !.m = eka[root], !.pc = next, !.repo = repo]
  <2>1. CASE Fail(r)
    BY <1>1, <2>1, AloneEnd DEF Fail, Over
  <2>2. CASE root # NoFile /\ eka[root] # Torn /\ Becomes(r, s) /\ Stays
    <3>1. root \in Dir /\ eka[root] \in Identity
      BY <1>4, <2>2, FindFinds DEF Inv, TreesOK
    <3>2. /\ p.cmd.do = "sync" => next = "detect"
          /\ p.cmd.do = "adopt" => next = "resolve"
          /\ p.cmd.do = "register" => next = "owner"
      OBVIOUS
    <3>3. /\ s.pc = next /\ s.cmd = p.cmd /\ s.aligned = p.aligned /\ s.empty = p.empty
          /\ s.clean = p.clean /\ s.repo = repo /\ s.root = root /\ s.m = eka[root]
      <4> HIDE DEF next, repo, root
      <4> QED  BY <1>1 DEF Process
    <3>4. p.cmd.do = "register" => repo.path = root /\ repo.key = eka[root].key
      BY DEF RecordOf
    <3> HIDE DEF s, next, repo, root
    <3>5. TreeKnown(eka, content, s)
      BY <1>4, <1>5, <2>2, <3>1, <3>2, <3>3 DEF TreeKnown
    <3>6. RecordKnown(db, eka, s)
      BY <1>4, <1>5, <2>2, <3>2, <3>3, <3>4 DEF RecordKnown, Inserting, InRegistry, WithRepo, InTree
    <3>7. p.clean => Undisturbed(db, eka, content, s)
      BY <1>3, <1>4, <3>2, <3>3, <3>5, <3>6 DEF Undisturbed, Pending
    <3>8. Fits(s)
      BY <1>3, <2>2, <3>3, <3>7 DEF Fits, Requested, Stays
    <3> QED  BY <1>1, <2>2, <3>8, AloneKept DEF s
  <2> QED  BY <1>7, <2>1, <2>2 DEF Gate
<1> QED  BY <1>6, <1>7

LEMMA AloneDetect ==
  ASSUME Inv, AloneInv, NEW r \in Run, Detect(r)
  PROVE  AloneInv'
<1> DEFINE p == run[r]
           found == SourceNamespaces(r)
<1>1. MemoryOK /\ p \in Process /\ ProcessOK(p) /\ p.pc = "detect"
  BY DEF Inv, MemoryOK, Detect
<1>2. Requested(p) /\ (p.clean => Undisturbed(db, eka, content, p))
  BY <1>1 DEF AloneInv, Live, Over
<1>3. p.root \in Dir /\ p.m \in Identity
  BY <1>1 DEF ProcessOK, InTree
<1>4. content[p.root] = {} \/ content[p.root] = found
  BY DEF SourceNamespaces
<1>5. p.clean /\ AtWork(p) =>
        /\ FindIn(eka, p.cmd.dir) = p.root /\ p.root # NoFile /\ eka[p.root] = p.m
        /\ p.cmd.do # "register"
  BY <1>1, <1>2 DEF Undisturbed, TreeKnown, RecordKnown, InTree
<1>6. p.clean => Empty(db) \subseteq p.empty
  BY <1>1, <1>2 DEF Undisturbed, Pending
<1>7. CASE Fail(r)
  BY <1>1, <1>7, AloneEnd DEF Fail, Over
<1>8. CASE found \subseteq {p.m.ns} /\ Stays /\ Goto(r, "resolve")
  <2> DEFINE s == [p EXCEPT !.pc = "resolve"]
  <2>1. /\ s.pc = "resolve" /\ s.cmd = p.cmd /\ s.root = p.root /\ s.m = p.m
        /\ s.aligned = p.aligned /\ s.repo = p.repo /\ s.clean = p.clean /\ s.empty = p.empty
    BY <1>1, Same
  <2> HIDE DEF s, found
  <2>2. p.clean /\ AtWork(p) => TreeKnown(eka, content, s)
    <3>1. content[p.root] \subseteq {p.m.ns}
      BY <1>4, <1>8
    <3> QED  BY <1>3, <1>5, <2>1, <3>1 DEF TreeKnown
  <2>3. p.clean /\ AtWork(p) => RecordKnown(db, eka, s)
    BY <1>5, <2>1 DEF RecordKnown, WithRepo, InRegistry, Inserting
  <2>4. AtWork(s) => AtWork(p)
    BY <1>1, <2>1 DEF AtWork, InTree
  <2>5. p.clean => Undisturbed(db, eka, content, s)
    BY <1>6, <2>1, <2>2, <2>3, <2>4 DEF Undisturbed, Pending
  <2>6. Fits(s)
    BY <1>2, <1>8, <2>1, <2>5 DEF Fits, Requested, Stays, Beginning, Opening
  <2> QED  BY <1>1, <1>8, <2>6, AloneKept DEF Goto, s
<1>9. ASSUME NEW ns \in found, found = {ns}, p.cmd.override, Stays,
             Becomes(r, [p EXCEPT !.pc = "align", !.aligned = TRUE, !.m.ns = ns])
      PROVE  AloneInv'
  <2> DEFINE m == [p.m EXCEPT !.ns = ns]
             s == [p EXCEPT !.pc = "align", !.aligned = TRUE, !.m.ns = ns]
  <2>1. /\ s.pc = "align" /\ s.cmd = p.cmd /\ s.root = p.root /\ s.m = m
        /\ s.aligned /\ s.repo = p.repo /\ s.clean = p.clean /\ s.empty = p.empty
    BY <1>1 DEF Process
  <2>2. ns \in Namespace
    BY <1>3, <1>9, SourcesAreNamespaces
  <2>3. m \in Identity /\ m.ns = ns /\ m.key = p.m.key
    BY <1>3, <2>2 DEF Identity
  <2> HIDE DEF s, found, m
  <2>4. p.clean /\ AtWork(p) => TreeKnown(eka, content, s)
    <3>1. content[p.root] \subseteq {m.ns}
      BY <1>4, <1>9, <2>3
    <3> QED  BY <1>3, <1>5, <2>1, <2>3, <3>1 DEF TreeKnown
  <2>5. p.clean /\ AtWork(p) => RecordKnown(db, eka, s)
    BY <1>5, <2>1 DEF RecordKnown, WithRepo, InRegistry, Inserting
  <2>6. AtWork(s) => AtWork(p)
    BY <1>1, <2>1 DEF AtWork, InTree
  <2>7. p.clean => Undisturbed(db, eka, content, s)
    BY <1>6, <2>1, <2>4, <2>5, <2>6 DEF Undisturbed, Pending
  <2>8. Fits(s)
    BY <1>9, <2>1, <2>7 DEF Fits, Requested, Stays, Beginning, Opening
  <2> QED  BY <1>1, <1>9, <2>8, AloneKept DEF s
<1> QED  BY <1>7, <1>8, <1>9 DEF Detect

LEMMA AloneAlign ==
  ASSUME Inv, AloneInv, NEW r \in Run, AlignBegin(r) \/ AlignWrite(r)
  PROVE  AloneInv'
<1> DEFINE p == run[r]
           dir == p.cmd.dir
<1>1. MemoryOK /\ p \in Process /\ ProcessOK(p) /\ p.pc \in {"align", "alignWrite"}
  BY DEF Inv, MemoryOK, AlignBegin, AlignWrite
<1>2. Requested(p) /\ (p.clean => Undisturbed(db, eka, content, p))
  BY <1>1 DEF AloneInv, Live, Over
<1>3. p.root \in Dir /\ p.m \in Identity /\ eka \in [Dir -> Identity \cup {Torn, NoFile}]
  BY <1>1 DEF ProcessOK, InTree, Inv, TreesOK
<1>4. p.clean => Empty(db) \subseteq p.empty
  BY <1>1, <1>2 DEF Undisturbed, Pending
<1>5. p.clean /\ AtWork(p) =>
        /\ dir \in Dir /\ FindIn(eka, dir) = p.root /\ p.root # NoFile /\ eka[p.root] # NoFile
        /\ p.pc = "align" => eka[p.root] \in Identity /\ eka[p.root].key = p.m.key
        /\ p.pc = "alignWrite" => p.file = p.m
        /\ p.cmd.do = "sync" => content[p.root] \subseteq {p.m.ns}
        /\ p.cmd.do # "register"
  <2>1. AtWork(p) => dir \in Dir
    BY <1>1, WorksInDir
  <2>2. p.clean /\ AtWork(p) => TreeKnown(eka, content, p) /\ p.cmd.do # "register"
    BY <1>1, <1>2 DEF Undisturbed, RecordKnown, InTree
  <2> QED  BY <1>1, <2>1, <2>2, WorkspaceAssumption DEF TreeKnown, InTree
<1>6. CASE Fail(r)
  BY <1>1, <1>6, AloneEnd DEF Fail, Over
<1>7. ASSUME NEW s, NEW x \in Identity \cup {Torn}, Becomes(r, s),
             s.pc \in {"alignWrite", "resolve"}, s.cmd = p.cmd, s.root = p.root, s.m = p.m,
             s.aligned = p.aligned, s.clean = p.clean, s.empty = p.empty,
             eka' = [eka EXCEPT ![p.root] = x], UNCHANGED <<db, content>>,
             p.clean /\ AtWork(p) =>
               IF s.pc = "alignWrite" THEN x = Torn /\ s.file = p.m ELSE x = p.m
      PROVE  AloneInv'
  <2>1. p.clean /\ AtWork(p) => FindIn(eka', dir) = FindIn(eka, dir)
    <3> SUFFICES ASSUME p.clean, AtWork(p)  PROVE FindIn(eka', dir) = FindIn(eka, dir)
      OBVIOUS
    <3>1. \A l \in Dir : eka[l] = NoFile <=> eka'[l] = NoFile
      BY <1>3, <1>5, <1>7, WorkspaceAssumption
    <3>2. dir \in Dir
      BY <1>5
    <3> HIDE DEF p, dir
    <3> QED  BY <3>1, <3>2, FindSame
  <2>2. p.clean /\ AtWork(p) => TreeKnown(eka', content', s)
    <3>1. eka'[p.root] = x
      BY <1>3, <1>7
    <3> QED  BY <1>3, <1>5, <1>7, <2>1, <3>1 DEF TreeKnown
  <2>3. p.clean /\ AtWork(p) => RecordKnown(db', eka', s)
    BY <1>5, <1>7 DEF RecordKnown, WithRepo, InRegistry, Inserting
  <2>4. AtWork(s) => AtWork(p)
    BY <1>1, <1>7 DEF AtWork, InTree
  <2>5. p.clean => Undisturbed(db', eka', content', s)
    BY <1>4, <1>7, <2>2, <2>3, <2>4 DEF Undisturbed, Pending
  <2>6. Fits(s)
    BY <1>2, <1>7, <2>5 DEF Fits, Requested, Beginning, Opening
  <2> QED  BY <1>1, <1>7, <2>6, AloneKept
<1>8. CASE AlignBegin(r) /\ ~ Fail(r)
  <2> DEFINE file == [eka[p.root] EXCEPT !.ns = p.m.ns]
             s == [p EXCEPT !.pc = "alignWrite", !.file = file]
  <2>1. /\ Becomes(r, s) /\ eka' = [eka EXCEPT ![p.root] = Torn] /\ UNCHANGED <<db, content>>
        /\ p.pc = "align"
    BY <1>8 DEF AlignBegin
  <2>2. /\ s.pc = "alignWrite" /\ s.cmd = p.cmd /\ s.root = p.root /\ s.m = p.m /\ s.file = file
        /\ s.aligned = p.aligned /\ s.clean = p.clean /\ s.empty = p.empty
    BY <1>1 DEF Process
  <2>3. p.clean /\ AtWork(p) => file = p.m
    BY <1>3, <1>5, <2>1 DEF Identity
  <2> HIDE DEF s, file, p
  <2> QED  BY <1>7, <2>1, <2>2, <2>3
<1>9. CASE AlignWrite(r)
  <2> DEFINE s == [p EXCEPT !.pc = "resolve", !.file = NoFile]
  <2>1. /\ Becomes(r, s) /\ eka' = [eka EXCEPT ![p.root] = p.file] /\ UNCHANGED <<db, content>>
        /\ p.pc = "alignWrite"
    BY <1>9 DEF AlignWrite
  <2>2. /\ s.pc = "resolve" /\ s.cmd = p.cmd /\ s.root = p.root /\ s.m = p.m
        /\ s.aligned = p.aligned /\ s.clean = p.clean /\ s.empty = p.empty
    BY <1>1 DEF Process
  <2>3. p.file \in Identity /\ (p.clean /\ AtWork(p) => p.file = p.m)
    BY <1>1, <1>5, <2>1 DEF ProcessOK
  <2> HIDE DEF s, p
  <2> QED  BY <1>7, <2>1, <2>2, <2>3
<1> QED  BY <1>6, <1>8, <1>9

\* From the resolution on a process leaves its tree alone.
Resolved == {"resolve", "name", "path"} \cup Inserting \cup InRegistry

\* Its tree and the registry, as it knows them.
LEMMA KnowsTree ==
  ASSUME Inv, AloneInv, NEW r \in Run, run[r].pc \in Resolved
  PROVE  LET p == run[r]  root == FindIn(eka, p.cmd.dir)
         IN  /\ Requested(p) /\ (p.clean => Empty(db) \subseteq p.empty \cup Pending(p))
             /\ p.clean /\ AtWork(p) =>
                  /\ TreeKnown(eka, content, p) /\ RecordKnown(db, eka, p)
                  /\ root # NoFile =>
                       /\ root \in Dir /\ p.root = root /\ p.m \in Identity
                       /\ eka[root] = p.m /\ Find(root) = root
<1> DEFINE p == run[r]
           root == FindIn(eka, p.cmd.dir)
<1>1. ProcessOK(p)
  BY DEF Inv, MemoryOK
<1>2. Requested(p) /\ (p.clean => Undisturbed(db, eka, content, p))
  BY DEF AloneInv, Live, Over, Resolved, Inserting, InRegistry
<1>3. ASSUME p.clean, AtWork(p), root # NoFile
      PROVE  /\ root \in Dir /\ p.root = root /\ p.m \in Identity
             /\ eka[root] = p.m /\ Find(root) = root
  <2>1. root \in Dir /\ eka[root] # NoFile
    BY <1>1, <1>3, WorksInDir, FindEnds
  <2>2. FindIn(eka, root) = root
    <3> HIDE DEF root
    <3> QED  BY <2>1, FindEnds
  <2>3. Find(root) = root
    BY <2>2, FindRead
  <2>4. p.pc \notin {"align", "alignWrite"}
    BY DEF Resolved, Inserting, InRegistry
  <2>5. TreeKnown(eka, content, p)
    BY <1>2, <1>3 DEF Undisturbed
  <2> QED  BY <1>3, <2>1, <2>3, <2>4, <2>5 DEF TreeKnown
<1> QED  BY <1>2, <1>3 DEF Undisturbed

\* A step from the resolution on, with what it must leave in the tables.
LEMMA AloneGoes ==
  ASSUME Inv, AloneInv, NEW r \in Run, run[r].pc \in Resolved,
         NEW s, Becomes(r, s), s.pc \in Resolved, s.pc \in InTree => run[r].pc \in InTree,
         s.cmd = run[r].cmd, s.root = run[r].root, s.m = run[r].m, s.clean = run[r].clean,
         s.aligned = run[r].aligned, s.empty = run[r].empty, UNCHANGED <<eka, content>>,
         run[r].clean => Empty(db') \subseteq run[r].empty \cup Pending(s),
         run[r].clean /\ AtWork(run[r]) => RecordKnown(db', eka, s)
  PROVE  AloneInv'
<1> DEFINE p == run[r]
<1>1. Requested(p) /\ (p.clean /\ AtWork(p) => TreeKnown(eka, content, p))
  BY KnowsTree
<1>2. AtWork(s) => AtWork(p)
  BY DEF AtWork, Resolved, Inserting, InRegistry, InTree, WithRepo
<1>3. p.clean /\ AtWork(p) => TreeKnown(eka, content, s)
  BY <1>1 DEF TreeKnown, Resolved, Inserting, InRegistry
<1>4. p.clean => Undisturbed(db', eka', content', s)
  BY <1>2, <1>3 DEF Undisturbed
<1>5. Fits(s)
  BY <1>1, <1>4 DEF Fits, Requested, Beginning, Opening, Resolved, Inserting, InRegistry
<1> QED  BY <1>5, AloneKept DEF Inv

\* A row that is replaced.
LEMMA RowKept ==
  ASSUME db \in Database, NEW k \in Key, NEW row \in Row, db' = [db EXCEPT !.repos[k] = row]
  PROVE  /\ db'.repos[k] = row /\ row # NoRow /\ db'.projects = db.projects
         /\ \A l \in Key : l # k => db'.repos[l] = db.repos[l]
         /\ Registered(k) => Empty(db') = Empty(db)
<1>1. /\ db'.repos[k] = row /\ row # NoRow /\ db'.projects = db.projects
      /\ \A l \in Key : l # k => db'.repos[l] = db.repos[l]
  BY WorkspaceAssumption DEF Database
<1>2. Registered(k) => \A l \in Key : db'.repos[l] = NoRow <=> db.repos[l] = NoRow
  BY <1>1 DEF Registered
<1> QED  BY <1>1, <1>2, EmptySame

LEMMA AloneResolve ==
  ASSUME Inv, AloneInv, NEW r \in Run, Resolve(r)
  PROVE  AloneInv'
<1> DEFINE p == run[r]
           root == FindIn(eka, p.cmd.dir)
<1>1. MemoryOK /\ p \in Process /\ ProcessOK(p) /\ p.pc = "resolve" /\ db \in Database
  BY DEF Inv, MemoryOK, Resolve
<1>2. p.pc \in Resolved /\ p.pc \in InTree /\ Pending(p) = {}
  BY <1>1 DEF Resolved, InTree, Pending
<1>3. p.root \in Dir /\ p.m \in Identity /\ p.m.key \in Key
  BY <1>1 DEF ProcessOK, InTree, Identity
<1>4. p.clean => Empty(db) \subseteq p.empty
  BY <1>2, KnowsTree
<1>5. p.clean /\ AtWork(p) =>
        /\ root # NoFile /\ p.root = root /\ p.cmd.do # "register"
        /\ FindRepo(root) = {p.m.key} \cap {k \in Key : Registered(k)}
  <2>1. p.clean /\ AtWork(p) =>
          /\ root # NoFile /\ p.root = root /\ p.cmd.do # "register"
          /\ Find(root) = root /\ eka[root] = p.m
    BY <1>2, KnowsTree DEF TreeKnown, RecordKnown
  <2> HIDE DEF root
  <2> QED  BY <2>1 DEF FindRepo
<1>6. p.clean /\ AtWork(p) => p.cmd.do \in {"sync", "adopt"}
  BY <1>1, <1>5, WorksInDir
<1>7. CASE Fail(r)
  BY <1>1, <1>7, AloneEnd DEF Fail, Over
<1>8. CASE FindRepo(p.root) = {} /\ Stays
           /\ Becomes(r, [p EXCEPT !.pc = "owner", !.repo = RecordOf(p.m, p.root)])
  <2> DEFINE s == [p EXCEPT !.pc = "owner", !.repo = RecordOf(p.m, p.root)]
  <2>1. /\ s.pc = "owner" /\ s.cmd = p.cmd /\ s.root = p.root /\ s.m = p.m /\ s.clean = p.clean
        /\ s.aligned = p.aligned /\ s.empty = p.empty /\ s.repo = RecordOf(p.m, p.root)
    BY <1>1 DEF Process
  <2>2. /\ s.repo.key = p.m.key /\ s.repo.path = p.root /\ s.repo.ns = p.m.ns
    BY <2>1 DEF RecordOf
  <2> HIDE DEF s
  <2>3. p.clean /\ AtWork(p) => db.repos[p.m.key] = NoRow
    BY <1>3, <1>5, <1>8 DEF Registered
  <2>4. p.clean /\ AtWork(p) => RecordKnown(db, eka, s)
    BY <1>5, <2>1, <2>2, <2>3 DEF RecordKnown, Inserting, InRegistry, InTree
  <2>5. s.pc \in Resolved /\ s.pc \notin InTree /\ Pending(s) = {}
    BY <2>1 DEF Resolved, Inserting, InTree, Pending
  <2>6. UNCHANGED <<db, eka, content>>
    BY <1>8 DEF Stays
  <2> HIDE DEF p, root
  <2> QED  BY <1>2, <1>4, <1>8, <2>1, <2>4, <2>5, <2>6, AloneGoes DEF p, s
<1>9. ASSUME NEW k \in FindRepo(p.root), NEW repo, NEW pc, Stays,
             repo = [key |-> k, path |-> db.repos[k].path, ns |-> db.repos[k].ns],
             p.aligned \/ repo.ns = Unset \/ repo.ns = p.m.ns,
             pc = IF repo.ns = p.m.ns /\ ~ p.aligned THEN Settled(r, repo) ELSE "name",
             Becomes(r, [p EXCEPT !.repo = repo, !.pc = pc])
      PROVE  AloneInv'
  <2> DEFINE s == [p EXCEPT !.repo = repo, !.pc = pc]
  <2>1. /\ s.pc = pc /\ s.cmd = p.cmd /\ s.root = p.root /\ s.m = p.m /\ s.clean = p.clean
        /\ s.aligned = p.aligned /\ s.empty = p.empty /\ s.repo = repo
    BY <1>1 DEF Process
  <2> HIDE DEF s
  <2>2. repo.key = k /\ repo.path = db.repos[k].path /\ repo.ns = db.repos[k].ns
    BY <1>9
  <2>3. \/ pc = "name"
        \/ pc = "path" /\ repo.ns = p.m.ns
        \/ pc = "pull" /\ p.cmd.do = "sync" /\ repo.ns = p.m.ns /\ repo.path = p.root
        \/ pc = "done" /\ repo.ns = p.m.ns /\ repo.path = p.root
    BY <1>9 DEF Settled
  <2>4. p.clean /\ AtWork(p) => k = p.m.key /\ db.repos[k] # NoRow
    BY <1>5, <1>9 DEF Registered
  <2>5. p.clean /\ AtWork(p) => RowKnown(db, s)
    BY <2>1, <2>2, <2>4 DEF RowKnown
  <2>6. p.clean /\ AtWork(p) => RecordKnown(db, eka, s)
    BY <1>3, <1>5, <1>9, <2>1, <2>2, <2>3, <2>4, <2>5 DEF RecordKnown, Inserting, InRegistry, InTree
  <2>7. s.pc \in Resolved /\ Pending(s) = {}
    BY <2>1, <2>3 DEF Resolved, InRegistry, Pending
  <2>8. UNCHANGED <<db, eka, content>>
    BY <1>9 DEF Stays
  <2> HIDE DEF p, root
  <2> QED  BY <1>2, <1>4, <1>9, <2>1, <2>6, <2>7, <2>8, AloneGoes DEF p, s
<1> QED  BY <1>7, <1>8, <1>9 DEF Resolve

\* SetNamespace and RefreshPath: the row of a settled record.
LEMMA AloneSettle ==
  ASSUME Inv, AloneInv, NEW r \in Run, SetNamespace(r) \/ RefreshPath(r)
  PROVE  AloneInv'
<1> DEFINE p == run[r]
           k == p.repo.key
           root == FindIn(eka, p.cmd.dir)
<1>1. MemoryOK /\ p \in Process /\ ProcessOK(p) /\ p.pc \in {"name", "path"} /\ db \in Database
  BY DEF Inv, MemoryOK, SetNamespace, RefreshPath
<1>2. p.pc \in Resolved /\ p.pc \in InTree /\ Pending(p) = {}
  BY <1>1 DEF Resolved, InTree, Pending
<1>3. p.root \in Dir /\ p.m \in Identity /\ p.repo \in Record /\ k \in Key
  BY <1>1 DEF ProcessOK, InTree, WithRepo, Record
<1>4. p.clean => Empty(db) \subseteq p.empty
  BY <1>2, KnowsTree
<1>5. p.clean /\ AtWork(p) =>
        /\ root # NoFile /\ p.root = root /\ p.cmd.do # "register" /\ k = p.m.key
        /\ db.repos[k] # NoRow /\ db.repos[k].path = p.repo.path /\ db.repos[k].ns = p.repo.ns
        /\ p.pc = "path" => p.repo.ns = p.m.ns
  BY <1>1, <1>2, KnowsTree DEF TreeKnown, RecordKnown, RowKnown, WithRepo
<1>6. CASE Fail(r)
  BY <1>1, <1>6, AloneEnd DEF Fail, Over
<1>7. Registered(k) => db.repos[k] \in Row
  BY <1>1, <1>3 DEF Registered, Database
<1>8. ASSUME NEW repo \in Record, NEW row, Becomes(r, [p EXCEPT !.pc = Settled(r, repo), !.repo = repo]),
             repo.key = k, Writes, db' = Update(k, row), Registered(k) => row \in Row,
             p.clean /\ AtWork(p) => repo.ns = p.m.ns /\ row.path = repo.path /\ row.ns = repo.ns
      PROVE  AloneInv'
  <2> DEFINE pc == Settled(r, repo)
             s == [p EXCEPT !.pc = pc, !.repo = repo]
  <2>1. \/ pc = "path"
        \/ pc = "pull" /\ p.cmd.do = "sync" /\ repo.path = p.root
        \/ pc = "done" /\ repo.path = p.root
    BY DEF Settled
  <2>2. /\ s.pc = pc /\ s.cmd = p.cmd /\ s.root = p.root /\ s.m = p.m /\ s.clean = p.clean
        /\ s.aligned = p.aligned /\ s.empty = p.empty /\ s.repo = repo
    <3> HIDE DEF pc
    <3> QED  BY <1>1 DEF Process
  <2>3. Becomes(r, s)
    BY <1>8
  <2> HIDE DEF s, pc
  <2>4. CASE Registered(k)
    <3>1. row \in Row /\ db' = [db EXCEPT !.repos[k] = row]
      BY <1>8, <2>4 DEF Update
    <3>2. db'.repos[k] = row /\ row # NoRow /\ Empty(db') = Empty(db)
      <4> HIDE DEF k, p
      <4> QED  BY <1>1, <1>3, <2>4, <3>1, RowKept
    <3>3. p.clean /\ AtWork(p) => RowKnown(db', s)
      BY <1>8, <2>2, <3>2 DEF RowKnown
    <3>4. p.clean /\ AtWork(p) => RecordKnown(db', eka, s)
      BY <1>3, <1>5, <1>8, <2>1, <2>2, <3>3 DEF RecordKnown, Inserting, InRegistry, InTree
    <3>5. s.pc \in Resolved /\ Pending(s) = {}
      BY <2>1, <2>2 DEF Resolved, InRegistry, Pending
    <3>6. UNCHANGED <<eka, content>>
      BY <1>8 DEF Writes
    <3> HIDE DEF p, root, k
    <3> QED  BY <1>2, <1>4, <2>2, <2>3, <3>2, <3>4, <3>5, <3>6, AloneGoes DEF p
  <2>5. CASE ~ Registered(k)
    <3>1. ~ (p.clean /\ AtWork(p))
      BY <1>5, <2>5 DEF Registered
    <3>2. db' = db
      BY <1>1, <1>3, <1>8, <2>5 DEF Update, Registered, Database
    <3>3. s.pc \in Resolved /\ Pending(s) = {} /\ Empty(db') = Empty(db)
      BY <2>1, <2>2, <3>2 DEF Resolved, InRegistry, Pending
    <3>4. UNCHANGED <<eka, content>>
      BY <1>8 DEF Writes
    <3> HIDE DEF p, root, k
    <3> QED  BY <1>2, <1>4, <2>2, <2>3, <3>1, <3>3, <3>4, AloneGoes DEF p
  <2> QED  BY <2>4, <2>5
<1>9. CASE SetNamespace(r)
  <2> DEFINE repo == [p.repo EXCEPT !.ns = p.m.ns]
             row == [db.repos[k] EXCEPT !.ns = p.m.ns]
  <2>1. repo \in Record /\ repo.key = k /\ repo.ns = p.m.ns /\ repo.path = p.repo.path
    BY <1>3 DEF Record, Identity
  <2>2. Registered(k) => row \in Row /\ row.ns = p.m.ns /\ row.path = db.repos[k].path
    BY <1>3, <1>7 DEF Row, Identity
  <2>3. p.clean /\ AtWork(p) => row.path = repo.path /\ row.ns = repo.ns
    BY <1>5, <2>1, <2>2 DEF Registered
  <2>4. CASE Becomes(r, [p EXCEPT !.pc = Settled(r, repo), !.repo = repo])
             /\ Writes /\ db' = Update(k, row)
    <3> HIDE DEF repo, row, k, p
    <3> QED  BY <1>8, <2>1, <2>2, <2>3, <2>4
  <2> QED  BY <1>6, <1>9, <2>4 DEF SetNamespace
<1>10. CASE RefreshPath(r) /\ ~ Fail(r)
  <2> DEFINE repo == [p.repo EXCEPT !.path = p.root]
             row == [db.repos[k] EXCEPT !.path = p.root]
  <2>1. repo \in Record /\ repo.key = k /\ repo.ns = p.repo.ns /\ repo.path = p.root
    BY <1>3 DEF Record
  <2>2. Registered(k) => row \in Row /\ row.path = p.root /\ row.ns = db.repos[k].ns
    BY <1>3, <1>7 DEF Row
  <2>3. p.clean /\ AtWork(p) => repo.ns = p.m.ns /\ row.path = repo.path /\ row.ns = repo.ns
    BY <1>5, <1>10, <2>1, <2>2 DEF Registered, RefreshPath
  <2>4. /\ Becomes(r, [p EXCEPT !.pc = Settled(r, repo), !.repo = repo])
        /\ Writes /\ db' = Update(k, row)
    BY <1>10 DEF RefreshPath
  <2> QED  BY <1>8, <2>1, <2>2, <2>3, <2>4
<1> QED  BY <1>6, <1>9, <1>10

LEMMA AloneRegister ==
  ASSUME Inv, AloneInv, NEW r \in Run, Register(r)
  PROVE  AloneInv'
<1> DEFINE p == run[r]
           repo == p.repo
           k == repo.key
           root == FindIn(eka, p.cmd.dir)
           home == IF root = NoFile THEN p.cmd.dir ELSE root
<1>1. MemoryOK /\ p \in Process /\ ProcessOK(p) /\ p.pc \in Inserting /\ db \in Database
  BY DEF Inv, MemoryOK, Register, CheckOwner, InsertProject, InsertRepo, Inserting
<1>2. p.pc \in Resolved /\ p.pc \notin InTree
  BY <1>1 DEF Resolved, InTree, Inserting
<1>3. repo \in Record /\ k \in Key /\ k[1] \in Project /\ p.cmd \in Commands
  BY <1>1 DEF ProcessOK, WithRepo, Inserting, Record, Key, Over
<1>4. (p.clean => Empty(db) \subseteq p.empty \cup Pending(p))
      /\ (p.clean /\ AtWork(p) => RecordKnown(db, eka, p))
  BY <1>2, KnowsTree
<1>5. p.clean /\ AtWork(p) =>
        /\ root # NoFile => k = p.m.key
        /\ repo.path = home
        /\ p.cmd.do # "register" => db.repos[k] = NoRow /\ repo.ns = p.m.ns
  BY <1>1, <1>4 DEF RecordKnown, WithRepo, Inserting
<1>6. CASE Fail(r)
  BY <1>1, <1>6, AloneEnd DEF Fail, Over
<1>7. ASSUME NEW pc \in {"project", "repo"} \cup InRegistry, Goto(r, pc), UNCHANGED <<eka, content>>,
             p.clean => Empty(db') \subseteq p.empty \cup (IF pc = "repo" THEN {k[1]} ELSE {}),
             p.clean /\ AtWork(p) => RecordKnown(db', eka, [p EXCEPT !.pc = pc])
      PROVE  AloneInv'
  <2> DEFINE s == [p EXCEPT !.pc = pc]
  <2>1. /\ s.pc = pc /\ s.cmd = p.cmd /\ s.root = p.root /\ s.m = p.m /\ s.clean = p.clean
        /\ s.aligned = p.aligned /\ s.empty = p.empty /\ s.repo = p.repo
    BY <1>1, Same
  <2>2. Becomes(r, s) /\ (p.clean /\ AtWork(p) => RecordKnown(db', eka, s))
    BY <1>7 DEF Goto
  <2> HIDE DEF s
  <2>3. s.pc \in Resolved /\ s.pc \notin InTree
    BY <2>1 DEF Resolved, Inserting, InRegistry, InTree
  <2>4. Pending(s) = IF pc = "repo" THEN {k[1]} ELSE {}
    BY <2>1 DEF Pending, InRegistry
  <2> HIDE DEF p, k
  <2> QED  BY <1>2, <1>7, <2>1, <2>2, <2>3, <2>4, AloneGoes DEF p
<1>8. CASE CheckOwner(r) /\ ~ Fail(r)
  <2> DEFINE s == [p EXCEPT !.pc = "project"]
  <2>1. /\ \A l \in ByPath(repo.path) : l[1] = k[1]
        /\ Stays /\ Goto(r, "project") /\ p.pc = "owner"
    BY <1>8 DEF CheckOwner
  <2>2. s.pc = "project" /\ s.cmd = p.cmd /\ s.m = p.m /\ s.repo = p.repo
    BY <1>1, Same
  <2> HIDE DEF s
  <2>3. p.clean /\ AtWork(p) => RecordKnown(db, eka, s)
    BY <1>5, <2>1, <2>2 DEF RecordKnown, Inserting, InRegistry, InTree, ByPath, Registered
  <2>4. p.clean => Empty(db) \subseteq p.empty
    BY <1>4, <2>1 DEF Pending
  <2>5. UNCHANGED <<db, eka, content>>
    BY <2>1 DEF Stays
  <2> QED  BY <1>7, <2>1, <2>3, <2>4, <2>5 DEF s
<1>9. CASE InsertProject(r)
  <2> DEFINE s == [p EXCEPT !.pc = "repo"]
  <2>1. /\ db' = [db EXCEPT !.projects = @ \cup {k[1]}] /\ UNCHANGED <<eka, content>>
        /\ Goto(r, "repo") /\ p.pc = "project"
    BY <1>9 DEF InsertProject, Writes
  <2>2. s.pc = "repo" /\ s.cmd = p.cmd /\ s.m = p.m /\ s.repo = p.repo
    BY <1>1, Same
  <2> HIDE DEF s
  <2>3. db'.repos = db.repos /\ db'.projects = db.projects \cup {k[1]}
    BY <1>1, <2>1 DEF Database
  <2>4. p.clean /\ AtWork(p) =>
          \A l \in Key : db.repos[l] # NoRow /\ db.repos[l].path = home => l[1] = k[1]
    BY <1>4, <2>1 DEF RecordKnown
  <2>5. p.clean /\ AtWork(p) => RecordKnown(db', eka, s)
    BY <1>5, <2>2, <2>3, <2>4 DEF RecordKnown, Inserting, InRegistry, InTree
  <2>6. Empty(db') \subseteq Empty(db) \cup {k[1]}
    BY <2>3 DEF Empty, Members
  <2>7. p.clean => Empty(db') \subseteq p.empty \cup {k[1]}
    BY <1>4, <2>1, <2>6 DEF Pending
  <2> QED  BY <1>7, <2>1, <2>5, <2>7 DEF s
<1>10. CASE InsertRepo(r) /\ ~ Fail(r)
  <2> DEFINE pc == IF p.cmd.do = "sync" THEN "pull" ELSE "done"
             s == [p EXCEPT !.pc = pc]
  <2>1. /\ db' = [db EXCEPT !.repos[k] = Upserted(repo)] /\ UNCHANGED <<eka, content>>
        /\ Goto(r, pc) /\ p.pc = "repo"
    BY <1>10 DEF InsertRepo, Writes
  <2>2. s.pc = pc /\ s.cmd = p.cmd /\ s.m = p.m /\ s.repo = p.repo
    BY <1>1, Same
  <2>3. pc \in {"pull", "done"} /\ (pc = "pull" => p.cmd.do = "sync")
    OBVIOUS
  <2> HIDE DEF s, pc
  <2>4. /\ Upserted(repo) \in Row /\ Upserted(repo).path = repo.path
        /\ db.repos[k] = NoRow => Upserted(repo).ns = repo.ns
    <3>1. CASE Registered(k)
      <4>1. db.repos[k] \in Row
        BY <1>1, <1>3, <3>1 DEF Registered, Database
      <4> QED  BY <1>3, <3>1, <4>1 DEF Upserted, Row, Record, Registered
    <3>2. CASE ~ Registered(k)
      BY <1>3, <3>2 DEF Upserted, Row, Record
    <3> QED  BY <3>1, <3>2
  <2>5. /\ db'.repos[k] = Upserted(repo) /\ Upserted(repo) # NoRow /\ db'.projects = db.projects
        /\ \A l \in Key : l # k => db'.repos[l] = db.repos[l]
    <3> HIDE DEF k, repo
    <3> QED  BY <1>1, <1>3, <2>1, <2>4, RowKept
  <2>6. p.clean /\ AtWork(p) => RowKnown(db', s)
    BY <1>5, <2>2, <2>4, <2>5 DEF RowKnown
  <2>7. p.clean /\ AtWork(p) => RecordKnown(db', eka, s)
    BY <1>3, <1>5, <2>2, <2>3, <2>6 DEF RecordKnown, Inserting, InRegistry, InTree
  <2>8. Empty(db') \subseteq Empty(db) \ {k[1]}
    BY <1>3, <2>5 DEF Empty, Members
  <2>9. p.clean => Empty(db') \subseteq p.empty
    BY <1>4, <2>1, <2>8 DEF Pending
  <2> QED  BY <1>7, <2>1, <2>3, <2>7, <2>9 DEF s, InRegistry
<1> QED  BY <1>6, <1>8, <1>9, <1>10 DEF Register

LEMMA AlonePush ==
  ASSUME Inv, AloneInv, NEW r \in Run, PullUnits(r) \/ PushCheck(r) \/ PushNamespace(r)
  PROVE  AloneInv'
<1> DEFINE p == run[r]
           k == p.repo.key
           root == FindIn(eka, p.cmd.dir)
<1>1. MemoryOK /\ p \in Process /\ ProcessOK(p) /\ p.pc \in {"pull", "push", "pushed"}
      /\ db \in Database
  BY DEF Inv, MemoryOK, PullUnits, PushCheck, PushNamespace
<1>2. p.pc \in Resolved /\ p.pc \notin InTree /\ Pending(p) = {}
  BY <1>1 DEF Resolved, InTree, InRegistry, Pending
<1>3. p.repo \in Record /\ k \in Key
  BY <1>1 DEF ProcessOK, WithRepo, Record
<1>4. p.clean => Empty(db) \subseteq p.empty
  BY <1>2, KnowsTree
<1>5. p.clean /\ AtWork(p) =>
        /\ p.cmd.do = "sync" /\ root # NoFile /\ k = p.m.key /\ p.repo.path = root
        /\ Find(root) = root /\ p.repo.ns = p.m.ns
        /\ db.repos[k] # NoRow /\ db.repos[k].path = root /\ db.repos[k].ns = p.m.ns
  BY <1>1, <1>2, KnowsTree DEF TreeKnown, RecordKnown, RowKnown, WithRepo, InRegistry
<1>6. ASSUME Fail(r)  PROVE AloneInv'
  BY <1>1, <1>6, AloneEnd DEF Fail, Over
<1>7. ASSUME NEW s, Becomes(r, s), s.pc \in InRegistry, s.cmd = p.cmd, s.root = p.root, s.m = p.m,
             s.clean = p.clean, s.aligned = p.aligned, s.empty = p.empty,
             s.repo.key = k, s.repo.path = p.repo.path,
             p.clean /\ AtWork(p) => s.repo.ns = p.m.ns,
             UNCHANGED <<eka, content>>, p.clean => Empty(db') = Empty(db),
             p.clean /\ AtWork(p) => /\ db'.repos[k] # NoRow /\ db'.repos[k].path = root
                                     /\ db'.repos[k].ns = p.m.ns
      PROVE  AloneInv'
  <2>1. p.clean /\ AtWork(p) => RowKnown(db', s)
    BY <1>5, <1>7 DEF RowKnown
  <2>2. p.clean /\ AtWork(p) => RecordKnown(db', eka, s)
    BY <1>3, <1>5, <1>7, <2>1 DEF RecordKnown, Inserting, InRegistry, InTree
  <2>3. s.pc \in Resolved /\ s.pc \notin InTree /\ Pending(s) = {}
    BY <1>7 DEF Resolved, InTree, InRegistry, Pending
  <2>4. p.clean => Empty(db') \subseteq p.empty \cup Pending(s)
    BY <1>4, <1>7, <2>3
  <2> HIDE DEF p, k, root
  <2> QED  BY <1>2, <1>7, <2>2, <2>3, <2>4, AloneGoes DEF p
<1>8. ASSUME NEW pc \in InRegistry, Goto(r, pc), Writes, p.clean => Empty(db') = Empty(db),
             p.clean /\ AtWork(p) => /\ db'.repos[k] # NoRow /\ db'.repos[k].path = root
                                     /\ db'.repos[k].ns = p.m.ns
      PROVE  AloneInv'
  <2> DEFINE s == [p EXCEPT !.pc = pc]
  <2>1. /\ s.pc = pc /\ s.cmd = p.cmd /\ s.root = p.root /\ s.m = p.m /\ s.clean = p.clean
        /\ s.aligned = p.aligned /\ s.empty = p.empty /\ s.repo = p.repo
    BY <1>1, Same
  <2>2. Becomes(r, s) /\ UNCHANGED <<eka, content>>
    BY <1>8 DEF Goto, Writes
  <2> HIDE DEF s
  <2> QED  BY <1>5, <1>7, <1>8, <2>1, <2>2
<1>9. CASE PullUnits(r)
  <2>1. CASE db' = [db EXCEPT !.units[k] = @ \cup content[p.repo.path]] /\ Writes
             /\ Goto(r, IF db'.units[k] = {} THEN "done" ELSE "push")
    <3>1. db'.repos = db.repos /\ db'.projects = db.projects
      BY <1>1, <2>1 DEF Database
    <3>2. Empty(db') = Empty(db)
      BY <3>1, EmptySame
    <3>3. (IF db'.units[k] = {} THEN "done" ELSE "push") \in InRegistry
      BY DEF InRegistry
    <3> QED  BY <1>5, <1>8, <2>1, <3>1, <3>2, <3>3
  <2> QED  BY <1>6, <1>9, <2>1 DEF PullUnits
<1>10. CASE PushCheck(r)
  <2> DEFINE found == IF Find(p.repo.path) = NoFile THEN content[p.repo.path] \cup db.units[k]
                      ELSE {p.repo.ns}
  <2>1. ASSUME NEW ns \in found, Stays, Becomes(r, [p EXCEPT !.pc = "pushed", !.repo.ns = ns])
        PROVE  AloneInv'
    <3> DEFINE s == [p EXCEPT !.pc = "pushed", !.repo.ns = ns]
    <3>1. /\ s.pc = "pushed" /\ s.cmd = p.cmd /\ s.root = p.root /\ s.m = p.m /\ s.clean = p.clean
          /\ s.aligned = p.aligned /\ s.empty = p.empty
          /\ s.repo = [p.repo EXCEPT !.ns = ns]
      BY <1>1 DEF Process
    <3>2. s.repo.key = k /\ s.repo.path = p.repo.path /\ s.repo.ns = ns
      BY <1>3, <3>1 DEF Record
    <3>3. Becomes(r, s) /\ UNCHANGED <<db, eka, content>>
      BY <2>1 DEF Stays
    <3>4. p.clean /\ AtWork(p) => ns = p.m.ns
      BY <1>5, <2>1
    <3> HIDE DEF s, found
    <3> QED  BY <1>5, <1>7, <3>1, <3>2, <3>3, <3>4 DEF InRegistry
  <2> QED  BY <1>6, <1>10, <2>1 DEF PushCheck
<1>11. CASE PushNamespace(r)
  <2> DEFINE row == [db.repos[k] EXCEPT !.ns = p.repo.ns]
  <2>1. CASE Registered(k) /\ db' = Update(k, row) /\ Writes /\ Goto(r, "done")
    <3>1. db.repos[k] \in Row
      BY <1>1, <1>3, <2>1 DEF Registered, Database
    <3>2. row \in Row /\ row.path = db.repos[k].path /\ row.ns = p.repo.ns
      BY <1>3, <3>1 DEF Row, Record
    <3>3. db' = [db EXCEPT !.repos[k] = row]
      BY <2>1 DEF Update
    <3> HIDE DEF row
    <3>4. db'.repos[k] = row /\ row # NoRow /\ Empty(db') = Empty(db)
      <4> HIDE DEF k, p
      <4> QED  BY <1>1, <1>3, <2>1, <3>2, <3>3, RowKept
    <3> QED  BY <1>5, <1>8, <2>1, <3>2, <3>4 DEF InRegistry
  <2> QED  BY <1>6, <1>11, <2>1 DEF PushNamespace
<1> QED  BY <1>9, <1>10, <1>11

LEMMA AloneUnregister ==
  ASSUME Inv, AloneInv, NEW r \in Run, Unregister(r)
  PROVE  AloneInv'
<1> DEFINE p == run[r]
           project == p.cmd.key[1]
<1>1. MemoryOK /\ p \in Process /\ ProcessOK(p) /\ p.pc \in Removing /\ db \in Database
  BY DEF Inv, MemoryOK, Unregister, DeleteRepo, CountRepos, DeleteRepos, DropProject, Removing
<1>2. p.cmd.do \in Removal /\ p.cmd \in Commands
  BY <1>1 DEF ProcessOK, Removing, Removal, Over
<1>3. Requested(p) /\ (p.clean => Empty(db) \subseteq p.empty \cup Pending(p))
  BY <1>1 DEF AloneInv, Live, Over, Removing, Undisturbed
<1>4. p.cmd.key \in Key /\ \A l \in Key : l[1] \in Project
  BY <1>2, WorkspaceAssumption DEF Key
<1>5. CASE Fail(r)
  BY <1>1, <1>5, AloneEnd DEF Fail, Over
<1>6. ASSUME NEW pc \in {"count", "dropProject", "done"}, Goto(r, pc),
             p.clean => Empty(db') \subseteq p.empty \cup (IF pc = "done" THEN {} ELSE {project})
      PROVE  AloneInv'
  <2> DEFINE s == [p EXCEPT !.pc = pc]
  <2>1. /\ s.pc = pc /\ s.cmd = p.cmd /\ s.clean = p.clean
        /\ s.aligned = p.aligned /\ s.empty = p.empty
    BY <1>1, Same
  <2>2. Becomes(r, s)
    BY <1>6 DEF Goto
  <2> HIDE DEF s
  <2>3. Pending(s) = IF pc = "done" THEN {} ELSE {project}
    BY <2>1 DEF Pending
  <2>4. p.clean => Undisturbed(db', eka', content', s)
    BY <1>2, <1>6, <2>1, <2>3 DEF Undisturbed, AtWork
  <2>5. Fits(s)
    BY <1>3, <2>1, <2>4 DEF Fits, Requested, Beginning, Opening
  <2> QED  BY <1>1, <2>2, <2>5, AloneKept
<1>7. ASSUME db'.projects = db.projects, NEW K \in SUBSET Key, \A l \in K : l[1] = project,
             \A l \in Key : db'.repos[l] = IF l \in K THEN NoRow ELSE db.repos[l]
      PROVE  Empty(db') \subseteq Empty(db) \cup {project}
  BY <1>7 DEF Empty, Members
<1>8. CASE DeleteRepo(r) /\ ~ Fail(r)
  <2> DEFINE k == p.cmd.key
  <2>1. /\ db' = [db EXCEPT !.repos[k] = NoRow] /\ p.pc = "delete"
        /\ Goto(r, IF Registered(k) THEN "count" ELSE "done")
    BY <1>8 DEF DeleteRepo
  <2>2. db'.projects = db.projects
        /\ \A l \in Key : db'.repos[l] = IF l \in {k} THEN NoRow ELSE db.repos[l]
    BY <1>1, <1>4, <2>1 DEF Database
  <2>3. p.clean => Empty(db) \subseteq p.empty
    BY <1>3, <2>1 DEF Pending
  <2>4. CASE Registered(k)
    <3>1. Empty(db') \subseteq Empty(db) \cup {project}
      BY <1>4, <1>7, <2>2
    <3> QED  BY <1>6, <2>1, <2>3, <2>4, <3>1
  <2>5. CASE ~ Registered(k)
    <3>1. \A l \in Key : db'.repos[l] = NoRow <=> db.repos[l] = NoRow
      BY <2>2, <2>5 DEF Registered
    <3>2. Empty(db') = Empty(db)
      BY <2>2, <3>1, EmptySame
    <3> QED  BY <1>6, <2>1, <2>3, <2>5, <3>2
  <2> QED  BY <2>4, <2>5
<1>9. CASE CountRepos(r)
  <2>1. UNCHANGED db /\ p.pc = "count"
        /\ Goto(r, IF Members(db.repos, project) = {} THEN "dropProject" ELSE "done")
    BY <1>9 DEF CountRepos, Stays
  <2>2. p.clean => Empty(db) \subseteq p.empty \cup {project}
    BY <1>3, <2>1 DEF Pending
  <2>3. CASE Members(db.repos, project) = {}
    BY <1>6, <2>1, <2>2, <2>3
  <2>4. CASE Members(db.repos, project) # {}
    <3>1. p.clean => Empty(db) \subseteq p.empty
      BY <2>2, <2>4 DEF Empty
    <3> QED  BY <1>6, <2>1, <2>4, <3>1
  <2> QED  BY <2>3, <2>4
<1>10. CASE DeleteRepos(r)
  <2> DEFINE K == {l \in Key : l[1] = project}
  <2>1. /\ db' = [db EXCEPT !.repos = [l \in Key |-> IF l[1] = project THEN NoRow ELSE @[l]]]
        /\ p.pc = "deleteAll" /\ Goto(r, "dropProject")
    BY <1>10 DEF DeleteRepos
  <2>2. db'.projects = db.projects
        /\ \A l \in Key : db'.repos[l] = IF l \in K THEN NoRow ELSE db.repos[l]
    BY <1>1, <2>1 DEF Database
  <2>3. p.clean => Empty(db) \subseteq p.empty
    BY <1>3, <2>1 DEF Pending
  <2>4. Empty(db') \subseteq Empty(db) \cup {project}
    BY <1>7, <2>2
  <2> QED  BY <1>6, <2>1, <2>3, <2>4
<1>11. CASE DropProject(r) /\ ~ Fail(r)
  <2>1. /\ db' = [db EXCEPT !.projects = @ \ {project}]
        /\ p.pc = "dropProject" /\ Goto(r, "done")
    BY <1>11 DEF DropProject
  <2>2. db'.repos = db.repos /\ db'.projects = db.projects \ {project}
    BY <1>1, <2>1 DEF Database
  <2>3. Empty(db') \subseteq Empty(db) \ {project}
    BY <2>2 DEF Empty, Members
  <2>4. p.clean => Empty(db') \subseteq p.empty
    BY <1>3, <2>1, <2>3 DEF Pending
  <2> QED  BY <1>6, <2>1, <2>4
<1> QED  BY <1>5, <1>8, <1>9, <1>10, <1>11 DEF Unregister

LEMMA AloneEdit ==
  ASSUME MemoryOK, AloneInv, NEW d \in Dir, NEW e \in Edits, EditTree(d, e)
  PROVE  AloneInv'
<1>1. ASSUME NEW q \in Run, run'[q].pc \notin Over \cup {"idle"}
      PROVE  Requested(run'[q]) /\ ~ run'[q].clean
  <2>1. run[q] \in Process
    BY DEF MemoryOK
  <2>2. CASE Live(q)
    <3>1. run'[q] = [run[q] EXCEPT !.clean = FALSE]
      BY <2>2 DEF EditTree
    <3>2. /\ run'[q].pc = run[q].pc /\ run'[q].aligned = run[q].aligned
          /\ run'[q].cmd = run[q].cmd /\ ~ run'[q].clean
      BY <2>1, <3>1 DEF Process
    <3> QED  BY <2>2, <3>2 DEF AloneInv, Requested
  <2>3. CASE ~ Live(q)
    BY <1>1, <2>3 DEF EditTree, Live
  <2> QED  BY <2>2, <2>3
<1> QED  BY <1>1 DEF AloneInv, Live

LEMMA AloneStep ==
  Inv /\ AloneInv /\ [Next]_vars => AloneInv'
<1> SUFFICES ASSUME Inv, AloneInv, [Next]_vars  PROVE AloneInv'
  OBVIOUS
<1>1. CASE UNCHANGED vars
  BY <1>1 DEF vars, AloneInv, Live
<1>2. ASSUME NEW r \in Run, Sync(r)  PROVE AloneInv'
  <2>1. CASE Finish(r)
    BY <2>1, AloneEnd DEF Finish, Over, Inv
  <2> QED  BY <1>2, <2>1, AloneGate, AloneDetect, AloneAlign, AloneResolve, AloneSettle, AlonePush
           DEF Sync
<1>3. ASSUME NEW r \in Run, Busy(r) \/ Crash(r)  PROVE AloneInv'
  BY <1>3, AloneEnd DEF Busy, Crash, Inv, Over
<1>4. ASSUME NEW d \in Dir, NEW e \in Edits, EditTree(d, e)  PROVE AloneInv'
  BY <1>4, AloneEdit DEF Inv
<1> QED  BY <1>1, <1>2, <1>3, <1>4, AloneBegin, AloneOpen, AloneRegister, AloneUnregister DEF Next

LEMMA AloneHolds ==
  Spec => []AloneInv
<1>1. Init => AloneInv
  BY DEF Init, AloneInv, Live, Idle
<1> QED  BY <1>1, AloneStep, Invariance, PTL DEF Spec

----------------------------------------------------------------------------
(* Who ends, and how *)

Acts(r) ==
  \/ \E c \in Commands : Begin(r, c)
  \/ Open(r) \/ Sync(r) \/ Register(r) \/ Unregister(r) \/ Busy(r) \/ Crash(r)

\* Only a step of its own takes a process on.
LEMMA OwnStep ==
  ASSUME Inv, [Next]_vars, NEW r \in Run, run'[r].pc # run[r].pc
  PROVE  Acts(r)
<1>1. ASSUME NEW q \in Run, q # r, Acts(q)  PROVE run'[r].pc = run[r].pc
  BY <1>1, ActingAlone, OthersStay DEF Acts, Inv
<1>2. ASSUME NEW d \in Dir, NEW e \in Edits, EditTree(d, e)  PROVE run'[r].pc = run[r].pc
  BY <1>2, EditMemory DEF Inv
<1>3. run' # run
  OBVIOUS
<1> QED  BY <1>1, <1>2, <1>3 DEF Next, vars, Acts

\* A command that has begun reports success at its last step only.
LEMMA EndsAtFinish ==
  ASSUME Inv, NEW r \in Run, Acts(r), Ends(r, "ok")
  PROVE  Finish(r)
<1> DEFINE p == run[r]
<1>1. MemoryOK /\ p \in Process
  BY DEF Inv, MemoryOK
<1>2. \A pc, s : Becomes(r, s) /\ s = [p EXCEPT !.pc = pc] => run'[r].pc = pc
  BY <1>1 DEF Becomes, Process
<1>3. \A how : End(r, how) => run'[r].pc = how
  BY DEF End, Becomes, Idle
<1>4. ~ Fail(r) /\ ~ Busy(r) /\ ~ Crash(r) /\ \A c \in Commands : ~ Begin(r, c)
  BY <1>3 DEF Fail, Busy, Crash, Begin, Ends
<1>5. \A pc : Goto(r, pc) => pc = "ok"
  BY <1>2 DEF Goto, Ends
<1>6. ~ Open(r)
  <2>1. FirstStep(r) # "ok"
    BY DEF FirstStep
  <2> QED  BY <1>4, <1>5, <2>1 DEF Open, MetaRead, MetaCreate, MetaWrite, OpenStore, Migrate
<1>7. ~ Register(r) /\ ~ Unregister(r)
  BY <1>4, <1>5 DEF Register, CheckOwner, InsertProject, InsertRepo, Unregister, DeleteRepo,
                    CountRepos, DeleteRepos, DropProject
<1>8. ~ GateLegacy(r) /\ ~ Gate(r)
  <2>1. ASSUME NEW s, Becomes(r, s), s.pc # "ok"  PROVE FALSE
    BY <2>1 DEF Becomes, Ends
  <2>2. ASSUME GateLegacy(r)  PROVE FALSE
    <3>1. PICK repo : Becomes(r, [p EXCEPT !.pc = "owner", !.repo = repo])
      BY <1>4, <2>2 DEF GateLegacy
    <3>2. [p EXCEPT !.pc = "owner", !.repo = repo].pc = "owner"
      BY <1>1 DEF Process
    <3> QED  BY <2>1, <3>1, <3>2
  <2>3. ASSUME Gate(r)  PROVE FALSE
    <3>1. PICK root, m, pc, repo :
            /\ Becomes(r, [p EXCEPT !.root = root, !.m = m, !.pc = pc, !.repo = repo])
            /\ pc = CASE p.cmd.do = "sync"  -> "detect"
                      [] p.cmd.do = "adopt" -> "resolve"
                      [] OTHER              -> "owner"
      BY <1>4, <2>3 DEF Gate
    <3>2. pc # "ok"
      BY <3>1
    <3>3. [p EXCEPT !.root = root, !.m = m, !.pc = pc, !.repo = repo].pc = pc
      BY <1>1 DEF Process
    <3> QED  BY <2>1, <3>1, <3>2, <3>3
  <2> QED  BY <2>2, <2>3
<1>9. ~ Detect(r) /\ ~ AlignBegin(r) /\ ~ AlignWrite(r)
  <2>1. ASSUME NEW s, Becomes(r, s), s.pc # "ok"  PROVE FALSE
    BY <2>1 DEF Becomes, Ends
  <2>2. ASSUME Detect(r)  PROVE FALSE
    <3>1. PICK ns : Becomes(r, [p EXCEPT !.pc = "align", !.aligned = TRUE, !.m.ns = ns])
      BY <1>4, <1>5, <2>2 DEF Detect
    <3>2. [p EXCEPT !.pc = "align", !.aligned = TRUE, !.m.ns = ns].pc = "align"
      BY <1>1 DEF Process
    <3> QED  BY <2>1, <3>1, <3>2
  <2>3. \A file : /\ [p EXCEPT !.pc = "alignWrite", !.file = file].pc = "alignWrite"
                  /\ [p EXCEPT !.pc = "resolve", !.file = file].pc = "resolve"
    BY <1>1 DEF Process
  <2>4. ASSUME AlignBegin(r) \/ AlignWrite(r)  PROVE FALSE
    BY <1>4, <2>1, <2>3, <2>4 DEF AlignBegin, AlignWrite
  <2> QED  BY <2>2, <2>4
<1>10. ~ Resolve(r) /\ ~ SetNamespace(r) /\ ~ RefreshPath(r)
  <2>1. \A repo : Settled(r, repo) # "ok"
    BY DEF Settled
  <2>2. ASSUME NEW pc, NEW repo,
               \/ Becomes(r, [p EXCEPT !.pc = pc, !.repo = repo])
               \/ Becomes(r, [p EXCEPT !.repo = repo, !.pc = pc])
        PROVE  pc = "ok"
    BY <1>1, <2>2 DEF Becomes, Ends, Process
  <2>3. ASSUME Resolve(r)  PROVE FALSE
    <3>1. \/ \E repo : Becomes(r, [p EXCEPT !.pc = "owner", !.repo = repo])
          \/ \E repo : Becomes(r, [p EXCEPT !.repo = repo, !.pc = Settled(r, repo)])
          \/ \E repo : Becomes(r, [p EXCEPT !.repo = repo, !.pc = "name"])
      BY <1>4, <2>3 DEF Resolve
    <3> QED  BY <2>1, <2>2, <3>1
  <2> QED  BY <1>4, <2>1, <2>2, <2>3 DEF SetNamespace, RefreshPath
<1>11. ~ PullUnits(r) /\ ~ PushCheck(r) /\ ~ PushNamespace(r)
  <2>1. ~ PullUnits(r) /\ ~ PushNamespace(r)
    BY <1>4, <1>5 DEF PullUnits, PushNamespace
  <2>2. ~ PushCheck(r)
    BY <1>1, <1>4 DEF PushCheck, Becomes, Ends, Process
  <2> QED  BY <2>1, <2>2
<1> QED  BY <1>4, <1>6, <1>7, <1>8, <1>9, <1>10, <1>11 DEF Acts, Sync

LEMMA FinishAgrees ==
  ASSUME Inv, AloneInv, NEW r \in Run, Finish(r), run[r].clean,
         run[r].cmd.do \in {"sync", "adopt", "register"}
  PROVE  LET dir  == run[r].cmd.dir
             root == IF Find(dir) = NoFile THEN dir ELSE Find(dir)
         IN  \E k \in Key :
               /\ FindRepo(dir) = {k} /\ db.repos[k].path = root
               /\ run[r].cmd.do # "register" => db.repos[k].ns = eka[root].ns
               /\ run[r].cmd.do = "sync" => content[root] \subseteq {db.repos[k].ns}
<1> DEFINE p == run[r]
           dir == p.cmd.dir
           found == FindIn(eka, dir)
           root == IF found = NoFile THEN dir ELSE found
           k == p.repo.key
<1>1. p.pc = "done" /\ p.pc \in Resolved /\ AtWork(p)
  BY DEF Finish, Resolved, InRegistry, AtWork, Removal
<1>2. /\ TreeKnown(eka, content, p) /\ RecordKnown(db, eka, p)
      /\ found # NoFile => p.m \in Identity /\ eka[found] = p.m
  BY <1>1, KnowsTree
<1>3. Find(dir) = found
  BY FindRead
<1>4. /\ k \in Key /\ db.repos[k] # NoRow /\ db.repos[k].path = root
      /\ found # NoFile => k = eka[found].key
      /\ p.cmd.do # "register" =>
           found # NoFile /\ db.repos[k].ns = eka[found].ns
  BY <1>1, <1>2 DEF TreeKnown, RecordKnown, RowKnown, InRegistry
<1>5. p.cmd.do = "sync" => content[root] \subseteq {db.repos[k].ns}
  BY <1>1, <1>2, <1>4 DEF TreeKnown
<1>6. FindRepo(dir) = {k}
  <2>1. CASE found = NoFile
    <3>1. \A l \in Key : db.repos[l] # NoRow /\ db.repos[l].path = dir => l = k
      BY <1>4, <2>1 DEF Inv, RegistryIntact, RegistrySound
    <3>2. ByPath(dir) = {k}
      BY <1>4, <2>1, <3>1 DEF ByPath, Registered
    <3> QED  BY <1>3, <2>1, <3>2 DEF FindRepo
  <2>2. CASE found # NoFile
    <3>1. eka[Find(dir)].key = k
      BY <1>3, <1>4, <2>2
    <3> QED  BY <1>3, <1>4, <2>2, <3>1 DEF FindRepo, Registered
  <2> QED  BY <2>1, <2>2
<1> HIDE DEF k, p
<1> QED  BY <1>3, <1>4, <1>5, <1>6 DEF p

\* Who replaces a namespace.
LEMMA NamespaceStep ==
  ASSUME Inv, AloneInv, NEW r \in Run, Acts(r), run[r].clean, NEW k \in Key, Registered(k),
         db'.repos[k] # NoRow, db.repos[k].ns # Unset, db'.repos[k].ns # db.repos[k].ns
  PROVE  run[r].aligned /\ run[r].cmd.override
<1> DEFINE p == run[r]
           l == p.repo.key
<1>1. MemoryOK /\ p \in Process /\ ProcessOK(p) /\ db \in Database
  BY DEF Inv, MemoryOK
<1>2. db' # db /\ db'.repos # db.repos
  OBVIOUS
<1>3. ~ Busy(r) /\ ~ Crash(r) /\ ~ Fail(r) /\ ~ Finish(r) /\ ~ CountRepos(r)
      /\ \A c \in Commands : ~ Begin(r, c)
  BY <1>2 DEF Begin, Busy, Crash, Fail, Finish, CountRepos, Stays
<1>4. ~ Open(r)
  <2>1. ASSUME Migrate(r)  PROVE FALSE
    <3>1. ToV2(db) \in Database /\ ToV2(db).repos = db.repos
      BY <1>1 DEF ToV2, Database
    <3>2. db' = [ToV2(db) EXCEPT !.version = schemaVersion]
      BY <2>1 DEF Migrate
    <3> QED  BY <1>2, <3>1, <3>2 DEF Database
  <2> QED  BY <1>2, <1>3, <2>1 DEF Open, MetaRead, MetaCreate, MetaWrite, OpenStore, Stays
<1>5. ~ GateLegacy(r) /\ ~ Gate(r) /\ ~ Detect(r) /\ ~ AlignBegin(r) /\ ~ AlignWrite(r) /\ ~ Resolve(r)
      /\ ~ PushCheck(r) /\ ~ CheckOwner(r)
  BY <1>2, <1>3 DEF GateLegacy, Gate, Detect, AlignBegin, AlignWrite, Resolve, PushCheck, CheckOwner,
                    Stays
<1>6. ~ InsertProject(r) /\ ~ PullUnits(r) /\ ~ DropProject(r)
  BY <1>1, <1>2, <1>3 DEF InsertProject, PullUnits, DropProject, Database
<1>7. ~ DeleteRepo(r) /\ ~ DeleteRepos(r)
  <2>1. ASSUME DeleteRepo(r)  PROVE FALSE
    BY <1>1, <1>3, <2>1 DEF DeleteRepo, Database
  <2>2. ASSUME DeleteRepos(r)  PROVE FALSE
    <3>1. db'.repos[k] = NoRow \/ db'.repos[k] = db.repos[k]
      BY <1>1, <2>2 DEF DeleteRepos, Database
    <3> QED  BY <3>1
  <2> QED  BY <2>1, <2>2
<1>8. db.repos[k] \in Row
  BY <1>1 DEF Registered, Database
<1>9. ASSUME NEW row, db' = [db EXCEPT !.repos[l] = row], l \in Key
      PROVE  l = k /\ db'.repos[k] = row
  BY <1>1, <1>9 DEF Database
<1>10. ASSUME NEW row, db' = Update(l, row), l \in Key
       PROVE  l = k /\ db'.repos[k] = row
  <2>1. db' = [db EXCEPT !.repos[l] = IF Registered(l) THEN row ELSE NoRow]
    BY <1>10 DEF Update
  <2>2. l = k /\ db'.repos[k] = IF Registered(l) THEN row ELSE NoRow
    BY <1>9, <1>10, <2>1
  <2> QED  BY <2>2
<1>11. ~ RefreshPath(r)
  <2> SUFFICES ASSUME RefreshPath(r)  PROVE FALSE
    OBVIOUS
  <2>1. l \in Key /\ db' = Update(l, [db.repos[l] EXCEPT !.path = p.root])
    BY <1>1, <1>3 DEF RefreshPath, ProcessOK, WithRepo, Record
  <2>2. db'.repos[k] = [db.repos[k] EXCEPT !.path = p.root]
    BY <1>10, <2>1
  <2> QED  BY <1>8, <2>2 DEF Row
<1>12. ~ InsertRepo(r)
  <2> SUFFICES ASSUME InsertRepo(r)  PROVE FALSE
    OBVIOUS
  <2>1. l \in Key /\ db' = [db EXCEPT !.repos[l] = Upserted(p.repo)]
    BY <1>1, <1>3 DEF InsertRepo, ProcessOK, WithRepo, Record
  <2>2. l = k /\ db'.repos[k] = Upserted(p.repo)
    <3> HIDE DEF l
    <3> QED  BY <1>9, <2>1
  <2>3. db'.repos[k] = [db.repos[k] EXCEPT !.path = p.repo.path]
    BY <2>2 DEF Upserted
  <2> QED  BY <1>8, <2>3 DEF Row
<1>13. ASSUME p.pc \in {"name", "pushed"}
       PROVE  /\ p.pc \in Resolved /\ AtWork(p) /\ Requested(p) /\ RecordKnown(db, eka, p)
              /\ l \in Key /\ db.repos[l].ns = p.repo.ns
  <2>1. p.cmd.do \in {"sync", "adopt", "register"}
    BY <1>1, <1>13 DEF ProcessOK, InTree, WithRepo
  <2>2. p.pc \in Resolved /\ AtWork(p)
    BY <1>13, <2>1 DEF Resolved, InRegistry, AtWork, InTree, WithRepo, Removal
  <2>3. Requested(p) /\ RecordKnown(db, eka, p)
    BY <2>2, KnowsTree
  <2> QED  BY <1>13, <2>1, <2>2, <2>3 DEF RecordKnown, RowKnown, InTree, InRegistry
<1>14. ~ PushNamespace(r)
  <2> SUFFICES ASSUME PushNamespace(r)  PROVE FALSE
    OBVIOUS
  <2>1. p.pc = "pushed" /\ db' = Update(l, [db.repos[l] EXCEPT !.ns = p.repo.ns])
    BY <1>3 DEF PushNamespace
  <2>2. l = k /\ db'.repos[k] = [db.repos[k] EXCEPT !.ns = p.repo.ns]
    BY <1>10, <1>13, <2>1
  <2>3. db'.repos[k].ns = p.repo.ns
    BY <1>8, <2>2 DEF Row
  <2> QED  BY <1>13, <2>1, <2>2, <2>3
<1>15. SetNamespace(r)
  BY <1>3, <1>4, <1>5, <1>6, <1>7, <1>11, <1>12, <1>14 DEF Acts, Sync, Register, Unregister
<1>16. p.pc = "name" /\ db' = Update(l, [db.repos[l] EXCEPT !.ns = p.m.ns])
  BY <1>3, <1>15 DEF SetNamespace
<1>17. l = k /\ db'.repos[k] = [db.repos[k] EXCEPT !.ns = p.m.ns]
  BY <1>10, <1>13, <1>16
<1>18. db'.repos[k].ns = p.m.ns
  BY <1>8, <1>17 DEF Row
<1>19. p.aligned
  BY <1>13, <1>16, <1>17, <1>18 DEF RecordKnown
<1> QED  BY <1>13, <1>16, <1>19 DEF Requested

----------------------------------------------------------------------------
(* Theorems *)

\* The variables keep their types: in particular a process that works with an
\* identity or a registry record has read a whole one (metadata.Find,
\* Workspace.FindRepo), never a torn file.
THEOREM WorkspaceTypesCorrect ==
  Spec => []WorkspaceTypeOK
<1>1. Inv => WorkspaceTypeOK
  BY DEF Inv, TreesOK, MemoryOK, ProcessOK, Process, Record, WorkspaceTypeOK
<1> QED  BY <1>1, Invariance, PTL

\* However registrations, moves and removals run into each other, and wherever
\* processes end between their statements (registerRepo, UnregisterRepo,
\* UnregisterProject have no transaction), every repository has its project and
\* a path of its own, and none has the reserved name.
THEOREM RegistryStaysIntact ==
  Spec => []RegistryIntact
<1>1. Inv => RegistryIntact
  BY DEF Inv
<1> QED  BY <1>1, Invariance, PTL

\* Every process that is past Open works on the current schema, although the
\* version it decided on was read outside the transaction of migrate.
THEOREM OpenedStoresAreCurrent ==
  Spec => []OpenedIsCurrent
<1>1. Inv => OpenedIsCurrent
  BY DEF Inv
<1> QED  BY <1>1, Invariance, PTL

\* No provenance pair loses a unit: neither to the migration (migrateV1toV2),
\* run by however many processes, nor to a removal from the registry.
THEOREM KnowledgeIsKept ==
  Spec => KnowledgeKept
<1>1. Inv /\ [Next]_vars =>
        [\A k \in Key : db.old[k] \cup db.units[k] \subseteq db'.old[k] \cup db'.units[k]]_vars
  BY TablesSound
<1> QED  BY <1>1, Invariance, PTL DEF Spec, KnowledgeKept

\* A path is owned by the repository that registered it first, until that one
\* moves or is removed: no step of register, RefreshPath or a removal hands a
\* registered path to another repository.
THEOREM OwnersAreKept ==
  Spec => OwnerKept
<1>1. Inv /\ [Next]_vars =>
        [\A k, l \in Key : Registered(k) /\ db'.repos[l] # NoRow
           /\ db'.repos[l].path = db.repos[k].path => k = l]_vars
  BY TablesSound DEF OwnersStay
<1> QED  BY <1>1, Invariance, PTL DEF Spec, OwnerKept

\* A registration, sync or adopt that nobody interfered with has left a registry
\* in which its directory resolves to one repository, at the root of its tree,
\* with the namespace of eka.yaml and of the content (sync.Run, resolveRepo):
\* whatever was registered, moved, torn or half done before it began.
THEOREM SyncsAgree ==
  Spec => SyncAgrees
<1> DEFINE A(r) ==
      LET dir  == run[r].cmd.dir
          root == IF Find(dir) = NoFile THEN dir ELSE Find(dir)
      IN  Ends(r, "ok") /\ run[r].clean /\ run[r].cmd.do \in {"sync", "adopt", "register"} =>
            \E k \in Key :
              /\ FindRepo(dir) = {k} /\ db.repos[k].path = root
              /\ run[r].cmd.do # "register" => db.repos[k].ns = eka[root].ns
              /\ run[r].cmd.do = "sync" => content[root] \subseteq {db.repos[k].ns}
<1>1. ASSUME Inv, AloneInv, [Next]_vars, NEW r \in Run  PROVE A(r)
  <2>1. Ends(r, "ok") => Finish(r)
    <3>1. Ends(r, "ok") => run'[r].pc # run[r].pc
      BY DEF Ends, Live, Over
    <3> QED  BY <1>1, <3>1, OwnStep, EndsAtFinish
  <2> QED  BY <1>1, <2>1, FinishAgrees
<1>2. Inv /\ AloneInv /\ [Next]_vars => [\A r \in Run : A(r)]_vars
  BY <1>1
<1> QED  BY <1>2, Invariance, AloneHolds, PTL DEF Spec, SyncAgrees

\* A process that nobody interfered with replaces a recorded namespace only to
\* align it, on request (resolveRepo, SetRepoNamespace in push): what it
\* compared with eka.yaml is what is in the row.
THEOREM NamespacesAreFrozen ==
  Spec => FrozenAlone
<1> DEFINE A(r, k) ==
      /\ run'[r].pc # run[r].pc /\ run[r].clean
      /\ Registered(k) /\ db'.repos[k] # NoRow
      /\ db.repos[k].ns # Unset /\ db'.repos[k].ns # db.repos[k].ns
      => run[r].aligned /\ run[r].cmd.override
<1>1. ASSUME Inv, AloneInv, [Next]_vars, NEW r \in Run, NEW k \in Key  PROVE A(r, k)
  BY <1>1, OwnStep, NamespaceStep
<1>2. Inv /\ AloneInv /\ [Next]_vars => [\A r \in Run, k \in Key : A(r, k)]_vars
  BY <1>1
<1> QED  BY <1>2, Invariance, AloneHolds, PTL DEF Spec, FrozenAlone

\* A registration, removal or sync that runs to its end, successful or not,
\* and that nobody interfered with, leaves no project without a repository that
\* had one before (registerRepo and UnregisterRepo take several statements).
THEOREM ProjectsStayInhabited ==
  Spec => NoEmptyProject
<1> DEFINE A(r) == (Ends(r, "ok") \/ Ends(r, "failed")) /\ run[r].clean => Empty(db) \subseteq run[r].empty
<1>1. ASSUME Inv, AloneInv, [Next]_vars, NEW r \in Run, Ends(r, "ok") \/ Ends(r, "failed"),
             run[r].clean
      PROVE  Empty(db) \subseteq run[r].empty
  <2> DEFINE p == run[r]
             k == p.repo.key
  <2>1. Acts(r) /\ Live(r)
    <3>1. run'[r].pc # run[r].pc
      BY <1>1 DEF Ends, Live, Over
    <3> QED  BY <1>1, <3>1, OwnStep DEF Ends
  <2>2. /\ MemoryOK /\ p \in Process /\ ProcessOK(p) /\ db \in Database
        /\ Undisturbed(db, eka, content, p)
    BY <1>1, <2>1 DEF Inv, MemoryOK, AloneInv
  <2>3. Empty(db) \subseteq p.empty \cup Pending(p)
    BY <2>2 DEF Undisturbed
  <2>4. ASSUME NEW pc, Goto(r, pc)  PROVE pc \in {"ok", "failed"}
    BY <1>1, <2>2, <2>4 DEF Goto, Becomes, Ends, Process
  <2>5. ASSUME NEW how, End(r, how)  PROVE how \in {"ok", "failed"}
    BY <1>1, <2>5 DEF End, Becomes, Ends, Idle
  <2>6. ~ Busy(r) /\ ~ Crash(r) /\ \A c \in Commands : ~ Begin(r, c)
    BY <2>1, <2>5 DEF Busy, Crash, Begin
  <2>7. CASE p.pc = "repo"
    <3>1. InsertRepo(r)
      BY <2>1, <2>6, <2>7 DEF Acts, Open, MetaRead, MetaCreate, MetaWrite, OpenStore, Migrate, Sync,
         GateLegacy, Gate, Detect, AlignBegin, AlignWrite, Resolve, SetNamespace, RefreshPath,
         PullUnits, PushCheck, PushNamespace, Finish, Register, CheckOwner, InsertProject,
         Unregister, DeleteRepo, CountRepos, DeleteRepos, DropProject
    <3>2. ~ Insertable(p.repo)
      BY <2>4, <3>1 DEF InsertRepo
    <3>3. AtWork(p) /\ RecordKnown(db, eka, p)
      BY <2>2, <2>7 DEF AtWork, ProcessOK, InTree, WithRepo, Removal, Undisturbed
    <3>4. k[1] \in db.projects
      BY <2>7, <3>3 DEF RecordKnown
    <3>5. PICK l \in ByPath(p.repo.path) : l # k
      BY <3>2, <3>4 DEF Insertable
    <3>6. l \in Key /\ db.repos[l] # NoRow /\ l[1] = k[1]
      BY <2>7, <3>3, <3>5 DEF RecordKnown, ByPath, Registered, Inserting
    <3>7. k[1] \notin Empty(db)
      BY <3>6 DEF Empty, Members
    <3> QED  BY <2>3, <2>7, <3>7 DEF Pending
  <2>8. CASE p.pc \in {"count", "dropProject"}
    <3>1. CountRepos(r) \/ DropProject(r)
      BY <2>1, <2>6, <2>8 DEF Acts, Open, MetaRead, MetaCreate, MetaWrite, OpenStore, Migrate, Sync,
         GateLegacy, Gate, Detect, AlignBegin, AlignWrite, Resolve, SetNamespace, RefreshPath,
         PullUnits, PushCheck, PushNamespace, Finish, Register, CheckOwner, InsertProject,
         InsertRepo, Unregister, DeleteRepo, DeleteRepos
    <3>2. Members(db.repos, p.cmd.key[1]) # {}
      BY <2>4, <3>1 DEF CountRepos, DropProject
    <3>3. p.cmd.key[1] \notin Empty(db)
      BY <3>2 DEF Empty
    <3> QED  BY <2>3, <2>8, <3>3 DEF Pending
  <2>9. CASE p.pc \notin {"repo", "count", "dropProject"}
    BY <2>3, <2>9 DEF Pending
  <2> QED  BY <2>7, <2>8, <2>9
<1>2. Inv /\ AloneInv /\ [Next]_vars => [\A r \in Run : A(r)]_vars
  BY <1>1
<1> QED  BY <1>2, Invariance, AloneHolds, PTL DEF Spec, NoEmptyProject
=============================================================================
