--------------------------- MODULE EkaWorkspace ----------------------------
(***************************************************************************)
(* The workspace and its registry: every command opens the workspace       *)
(* (workspace.json, then the database, which it migrates when it is old),  *)
(* finds the repository it is run in by the identity file eka.yaml, and    *)
(* reads and writes the tables projects and repos in single statements,    *)
(* with no transaction around them.  Several processes do this at a time;  *)
(* any of them may be killed, and the user edits and moves the trees.      *)
(*                                                                         *)
(* What a sync does once its repository is resolved (pull, adopt, push) is *)
(* modelled in EkaSync; here it has one step for each use of the registry. *)
(***************************************************************************)
EXTENDS Naturals, SequencesExt

CONSTANTS
  Run,          \* processes
  Dir,          \* directories a repository can be in
  Above,        \* Above[d]: d and the directories above it, nearest first
  Base,         \* Base[d]: the last element of the path of d
  Project, Name, Namespace,
  Reserved,     \* ReservedRepoName, the provenance of workspace-native units
  Databases,    \* eka.db as the first process finds it
  Trees,        \* the trees at that time: [eka, content]
  Commands,     \* what may be run: [do, dir, project, override, key]
  Edits,        \* what a user makes of a directory: [eka, content]
  Unset,        \* a namespace that has not been resolved yet
  NoRow, NoFile,
  Torn,         \* a file that has been truncated and not written again
  MaxActions,   \* bounds of the instance: commands and edits together,
  MaxCrashes    \* and crashes

VARIABLES
  metaFile,     \* workspace.json: "absent", Torn or "written"
  db,           \* the tables, and the schema version they are recorded with
  eka,          \* eka.yaml of every directory: an identity, Torn or NoFile
  content,      \* the namespaces of the content of every directory
  run,          \* the processes
  counts        \* commands, edits and crashes so far

vars == <<metaFile, db, eka, content, run, counts>>

ASSUME PathAssumption ==
  \A d \in Dir : Above[d] \in Seq(Dir) /\ Above[d] # <<>> /\ Above[d][1] = d

----------------------------------------------------------------------------
(* Types *)

schemaVersion == 4

\* The composite key of a repository, its provenance pair.
Key == Project \X Name

Identity == [key : Key, ns : Namespace]

Row == [path : Dir, ns : Namespace \cup {Unset}]

\* old: rows of the v1 objects table, by provenance; units: the v2 tables.
Database ==
  [version : 0..schemaVersion, projects : SUBSET Project, repos : [Key -> Row \cup {NoRow}],
   old : [Key -> SUBSET Namespace], units : [Key -> SUBSET Namespace]]

Registered(k) == db.repos[k] # NoRow

Members(repos, p) == {k \in Key : k[1] = p /\ repos[k] # NoRow}

\* A fresh database has no tables.
NoDatabase ==
  [version |-> 0, projects |-> {}, repos |-> [k \in Key |-> NoRow],
   old |-> [k \in Key |-> {}], units |-> [k \in Key |-> {}]]

Empty(d) == {p \in d.projects : Members(d.repos, p) = {}}

HasObjects(d) == \E k \in Key : d.old[k] # {}

\* What a database file holds for the registry: a repository has its project,
\* a path of its own, and a name that is not the reserved one.
RegistrySound(d) ==
  \A k \in Key : d.repos[k] # NoRow =>
    /\ k[1] \in d.projects /\ k[2] # Reserved
    /\ \A l \in Key : d.repos[l] # NoRow /\ d.repos[l].path = d.repos[k].path => l = k

Removal == {"unregister", "drop"}

\* An older version of the program kept its registry as this one does, and
\* left objects behind in the tables of v1 only.
ASSUME WorkspaceAssumption ==
  /\ NoRow \notin Row /\ NoFile # Torn /\ NoFile \notin Identity /\ Torn \notin Identity
  /\ \A d \in Dir : Base[d] # Reserved => Base[d] \in Name \cap Project
  /\ \A d \in Databases :
       d \in Database /\ RegistrySound(d) /\ (d.version > 1 => ~ HasObjects(d))
  /\ \A t \in Trees : /\ t.eka \in [Dir -> Identity \cup {NoFile}]
                      /\ t.content \in [Dir -> SUBSET Namespace]
  /\ \A e \in Edits : e.eka \in Identity \cup {NoFile} /\ e.content \subseteq Namespace
  /\ \A c \in Commands :
       IF c.do \in Removal THEN c.key \in Key
       ELSE /\ c.do \in {"sync", "adopt", "register"}
            /\ c.dir \in Dir /\ c.project \in Project \cup {NoFile}

Count(what) == counts' = [counts EXCEPT ![what] = @ + 1]

\* metadata.Find: the nearest directory with an eka.yaml, or NoFile.
Find(d) ==
  LET i == SelectInSeq(Above[d], LAMBDA l : eka[l] # NoFile)
  IN  IF i = 0 THEN NoFile ELSE Above[d][i]

\* findRepoByPath
ByPath(d) == {k \in Key : Registered(k) /\ db.repos[k].path = d}

\* FindRepo: by identity when there is one, else by path.
FindRepo(d) ==
  IF Find(d) = NoFile THEN ByPath(d) ELSE {eka[Find(d)].key} \cap {k \in Key : Registered(k)}

----------------------------------------------------------------------------
(* Processes *)

\* What a process has in memory: the tree it works on (root) and its identity
\* as read (m), the file it rewrites, the registry record it works with.
\* clean: nobody else has changed trees or tables since it began; empty: the
\* projects that had no repository then (both history).
Idle == [pc |-> "idle", cmd |-> NoFile, root |-> NoFile, m |-> NoFile, aligned |-> FALSE,
         file |-> NoFile, repo |-> NoRow, clean |-> TRUE, empty |-> {}]

Over == {"ok", "failed", "busy", "crashed"}

Live(r) == run[r].pc \notin Over \cup {"idle"}

\* The step of r that leaves it as `self'; it disturbs the others when it
\* changes what they read.  (To be the last conjunct of an action.)
Becomes(r, self) ==
  run' = [q \in Run |->
            IF q = r THEN self
            ELSE IF Live(q) /\ <<db', eka', content'>> # <<db, eka, content>>
                 THEN [run[q] EXCEPT !.clean = FALSE] ELSE run[q]]

Goto(r, pc) == Becomes(r, [run[r] EXCEPT !.pc = pc])
End(r, how) == Becomes(r, [Idle EXCEPT !.pc = how])

Stays  == UNCHANGED <<metaFile, db, eka, content, counts>>
Writes == UNCHANGED <<metaFile, eka, content, counts>>

\* An attempt that leaves everything as it is.
Fail(r) == Stays /\ End(r, "failed")

Begin(r, c) ==
  /\ ~ Live(r) /\ counts.commands + counts.edits < MaxActions
  /\ Count("commands")
  /\ UNCHANGED <<metaFile, db, eka, content>>
  /\ Becomes(r, [Idle EXCEPT !.pc = "meta", !.cmd = c, !.empty = Empty(db)])

----------------------------------------------------------------------------
(* Opening the workspace *)

\* ensureMetaFile reads workspace.json ...
MetaRead(r) ==
  /\ run[r].pc = "meta"
  /\ \/ metaFile = "absent"  /\ Stays /\ Goto(r, "create")
     \/ metaFile = "written" /\ Stays /\ Goto(r, "open")
     \/ metaFile = Torn      /\ Fail(r)

\* ... and writes it when it was not there: it is truncated first.
MetaCreate(r) ==
  /\ run[r].pc = "create"
  /\ metaFile' = Torn
  /\ UNCHANGED <<db, eka, content, counts>>
  /\ Goto(r, "write")

MetaWrite(r) ==
  /\ run[r].pc = "write"
  /\ metaFile' = "written"
  /\ UNCHANGED <<db, eka, content, counts>>
  /\ Goto(r, "open")

FirstStep(r) ==
  CASE run[r].cmd.do = "unregister" -> "delete"
    [] run[r].cmd.do = "drop"       -> "deleteAll"
    [] OTHER                        -> "gate"

\* migrate: a current database is not written to ...
OpenStore(r) ==
  /\ run[r].pc = "open"
  /\ Stays
  /\ Goto(r, IF db.version = schemaVersion THEN FirstStep(r) ELSE "migrate")

\* Faulty variant: a database with tables and no recorded version is taken for a fresh one.
ToV2Recorded(d) ==
  IF d.version # 1 THEN d
  ELSE [d EXCEPT !.units = [k \in Key |-> @[k] \cup d.old[k]], !.old = [k \in Key |-> {}]]

\* Faulty variant: the tables of v1 are dropped before they are read.
ToV2Dropped(d) ==
  IF d.version > 1 THEN d ELSE [d EXCEPT !.old = [k \in Key |-> {}]]

\* migrateToV2, migrateV1toV2: the objects become payloads and references.
ToV2(d) ==
  IF d.version > 1 \/ (d.version = 0 /\ ~ HasObjects(d)) THEN d
  ELSE [d EXCEPT !.units = [k \in Key |-> @[k] \cup d.old[k]], !.old = [k \in Key |-> {}]]

\* ... an older one is, in a transaction that reads the version again.
Migrate(r) ==
  /\ run[r].pc = "migrate"
  /\ db' = [ToV2(db) EXCEPT !.version = schemaVersion]
  /\ Writes
  /\ Goto(r, FirstStep(r))

----------------------------------------------------------------------------
(* The gate of a command *)

\* RegisterRepo: a tree without an identity is registered by its path.
GateLegacy(r) ==
  LET dir     == run[r].cmd.dir
      project == IF run[r].cmd.project = NoFile THEN Base[dir] ELSE run[r].cmd.project
  IN  /\ run[r].pc = "gate" /\ Find(dir) = NoFile
      /\ IF run[r].cmd.do # "register" \/ Base[dir] = Reserved THEN Fail(r)
         ELSE /\ Stays
              /\ Becomes(r, [run[r] EXCEPT !.pc = "owner",
                   !.repo = [key |-> <<project, Base[dir]>>, path |-> dir, ns |-> Unset]])

\* Faulty variant: the namespace is taken from another column.
RecordSwapped(m, root) == [key |-> m.key, path |-> root, ns |-> m.key[2]]

\* The record a registration makes of an identity.
RecordOf(m, root) == [key |-> m.key, path |-> root, ns |-> m.ns]

Gate(r) ==
  LET root == Find(run[r].cmd.dir) IN
  /\ run[r].pc = "gate" /\ root # NoFile
  /\ IF eka[root] = Torn THEN Fail(r)
     ELSE /\ Stays
          /\ Becomes(r, [run[r] EXCEPT !.root = root, !.m = eka[root],
               !.pc = CASE run[r].cmd.do = "sync"  -> "detect"
                        [] run[r].cmd.do = "adopt" -> "resolve"
                        [] OTHER                   -> "owner",
               !.repo = IF run[r].cmd.do = "register" THEN RecordOf(eka[root], root) ELSE NoRow])

\* sourceContentNamespaces: the stored units count when the tree has no content.
SourceNamespaces(r) ==
  IF content[run[r].root] # {} THEN content[run[r].root] ELSE db.units[run[r].m.key]

\* The namespace of the content is compared with the one of eka.yaml.
Detect(r) ==
  LET found == SourceNamespaces(r) IN
  /\ run[r].pc = "detect"
  /\ \/ found \subseteq {run[r].m.ns} /\ Stays /\ Goto(r, "resolve")
     \/ (\E n1, n2 \in found : n1 # n2) /\ Fail(r)
     \/ \E ns \in found \ {run[r].m.ns} :
          /\ found = {ns}
          /\ IF ~ run[r].cmd.override THEN Fail(r)
             ELSE /\ Stays
                  /\ Becomes(r, [run[r] EXCEPT !.pc = "align", !.aligned = TRUE, !.m.ns = ns])

\* rewriteEKANamespace: eka.yaml is read again, truncated, and written.
AlignBegin(r) ==
  LET file == eka[run[r].root] IN
  /\ run[r].pc = "align"
  /\ IF file \in {Torn, NoFile} THEN Fail(r)
     ELSE /\ eka' = [eka EXCEPT ![run[r].root] = Torn]
          /\ UNCHANGED <<metaFile, db, content, counts>>
          /\ Becomes(r, [run[r] EXCEPT !.pc = "alignWrite",
                                       !.file = [file EXCEPT !.ns = run[r].m.ns]])

AlignWrite(r) ==
  /\ run[r].pc = "alignWrite"
  /\ eka' = [eka EXCEPT ![run[r].root] = run[r].file]
  /\ UNCHANGED <<metaFile, db, content, counts>>
  /\ Becomes(r, [run[r] EXCEPT !.pc = "resolve", !.file = NoFile])

----------------------------------------------------------------------------
(* Run and resolveRepo: the repository is resolved *)

\* Faulty variant: the path is not refreshed.
SettledAnywhere(r, repo) == IF run[r].cmd.do = "sync" THEN "pull" ELSE "done"

\* Where a process goes on once its registry record is settled.
Settled(r, repo) ==
  IF repo.path # run[r].root THEN "path"
  ELSE IF run[r].cmd.do = "sync" THEN "pull" ELSE "done"

\* FindRepo reads eka.yaml once more.
Resolve(r) ==
  LET root  == run[r].root
      found == FindRepo(root)
  IN  /\ run[r].pc = "resolve"
      /\ IF Find(root) # NoFile /\ eka[Find(root)] = Torn THEN Fail(r)
         ELSE \/ /\ found = {} /\ Stays
                 /\ Becomes(r, [run[r] EXCEPT !.pc = "owner", !.repo = RecordOf(run[r].m, root)])
              \/ \E k \in found :
                   LET row  == db.repos[k]
                       repo == [key |-> k, path |-> row.path, ns |-> row.ns]
                       same == row.ns = run[r].m.ns
                   IN  IF run[r].aligned \/ row.ns = Unset \/ same
                       THEN /\ Stays
                            /\ Becomes(r, [run[r] EXCEPT !.repo = repo,
                                 !.pc = IF same /\ ~ run[r].aligned THEN Settled(r, repo) ELSE "name"])
                       ELSE Fail(r)

\* The table repos with the columns of the row of k replaced, when it is there.
Update(k, row) == [db EXCEPT !.repos[k] = IF Registered(k) THEN row ELSE NoRow]

\* SetRepoNamespace
SetNamespace(r) ==
  LET k    == run[r].repo.key
      repo == [run[r].repo EXCEPT !.ns = run[r].m.ns]
  IN  /\ run[r].pc = "name"
      /\ IF ~ Registered(k) THEN Fail(r)
         ELSE /\ db' = Update(k, [db.repos[k] EXCEPT !.ns = run[r].m.ns])
              /\ Writes
              /\ Becomes(r, [run[r] EXCEPT !.pc = Settled(r, repo), !.repo = repo])

\* The path is refreshed; a row that is gone is not missed.
RefreshPath(r) ==
  LET k    == run[r].repo.key
      repo == [run[r].repo EXCEPT !.path = run[r].root]
  IN  /\ run[r].pc = "path"
      /\ IF Registered(k) /\ ByPath(run[r].root) \ {k} # {} THEN Fail(r)
         ELSE /\ db' = Update(k, [db.repos[k] EXCEPT !.path = run[r].root])
              /\ Writes
              /\ Becomes(r, [run[r] EXCEPT !.pc = Settled(r, repo), !.repo = repo])

----------------------------------------------------------------------------
(* register *)

\* A name must not be the reserved one, nor the path another project's.
CheckOwner(r) ==
  LET repo == run[r].repo IN
  /\ run[r].pc = "owner"
  /\ IF repo.key[2] = Reserved \/ \E k \in ByPath(repo.path) : k[1] # repo.key[1] THEN Fail(r)
     ELSE Stays /\ Goto(r, "project")

InsertProject(r) ==
  /\ run[r].pc = "project"
  /\ db' = [db EXCEPT !.projects = @ \cup {run[r].repo.key[1]}]
  /\ Writes
  /\ Goto(r, "repo")

\* Faulty variant: foreign keys are off.
InsertableUnchecked(repo) == ByPath(repo.path) \subseteq {repo.key}

\* The foreign key and the unique paths are the database's.
Insertable(repo) == repo.key[1] \in db.projects /\ ByPath(repo.path) \subseteq {repo.key}

\* A repository that is there gets the path, and keeps its namespace.
Upserted(repo) ==
  IF Registered(repo.key) THEN [db.repos[repo.key] EXCEPT !.path = repo.path]
  ELSE [path |-> repo.path, ns |-> repo.ns]

InsertRepo(r) ==
  /\ run[r].pc = "repo"
  /\ IF ~ Insertable(run[r].repo) THEN Fail(r)
     ELSE /\ db' = [db EXCEPT !.repos[run[r].repo.key] = Upserted(run[r].repo)]
          /\ Writes
          /\ Goto(r, IF run[r].cmd.do = "sync" THEN "pull" ELSE "done")

----------------------------------------------------------------------------
(* The use of the record by pull and push *)

\* The units of the tree are seeded with the provenance of the record, unless
\* they are refused; without units there is nothing to push.
PullUnits(r) ==
  LET k == run[r].repo.key IN
  /\ run[r].pc = "pull"
  /\ \/ Fail(r)
     \/ /\ db' = [db EXCEPT !.units[k] = @ \cup content[run[r].repo.path]]
        /\ Writes
        /\ Goto(r, IF db'.units[k] = {} THEN "done" ELSE "push")

\* Push compares the record with eka.yaml at its path; without an identity the
\* namespace is the one of the snapshot, or the most common one.
PushCheck(r) ==
  LET repo == run[r].repo
      root == Find(repo.path)
      found == IF root = NoFile THEN content[repo.path] \cup db.units[repo.key] ELSE {repo.ns}
  IN  /\ run[r].pc = "push"
      /\ IF root # NoFile /\ (eka[root] = Torn \/ repo.ns = Unset \/ eka[root].ns # repo.ns)
         THEN Fail(r)
         ELSE \E ns \in found :
                Stays /\ Becomes(r, [run[r] EXCEPT !.pc = "pushed", !.repo.ns = ns])

PushNamespace(r) ==
  LET k == run[r].repo.key IN
  /\ run[r].pc = "pushed"
  /\ IF ~ Registered(k) THEN Fail(r)
     ELSE /\ db' = Update(k, [db.repos[k] EXCEPT !.ns = run[r].repo.ns])
          /\ Writes
          /\ Goto(r, "done")

Finish(r) == run[r].pc = "done" /\ Stays /\ End(r, "ok")

----------------------------------------------------------------------------
(* UnregisterRepo, UnregisterProject *)

DeleteRepo(r) ==
  LET k == run[r].cmd.key IN
  /\ run[r].pc = "delete"
  /\ IF k[2] = Reserved THEN Fail(r)
     ELSE /\ db' = [db EXCEPT !.repos[k] = NoRow]
          /\ Writes
          /\ Goto(r, IF Registered(k) THEN "count" ELSE "done")

CountRepos(r) ==
  /\ run[r].pc = "count"
  /\ Stays
  /\ Goto(r, IF Members(db.repos, run[r].cmd.key[1]) = {} THEN "dropProject" ELSE "done")

DeleteRepos(r) ==
  /\ run[r].pc = "deleteAll"
  /\ db' = [db EXCEPT !.repos = [k \in Key |-> IF k[1] = run[r].cmd.key[1] THEN NoRow ELSE @[k]]]
  /\ Writes
  /\ Goto(r, "dropProject")

\* The foreign key refuses to drop a project that has a repository.
DropProject(r) ==
  LET p == run[r].cmd.key[1] IN
  /\ run[r].pc = "dropProject"
  /\ IF Members(db.repos, p) # {} THEN Fail(r)
     ELSE /\ db' = [db EXCEPT !.projects = @ \ {p}]
          /\ Writes
          /\ Goto(r, "done")

----------------------------------------------------------------------------
(* Failures and the user *)

\* A statement fails while another process holds the write lock: at once in the
\* registry, after maxBusyAttempts in SetRepoNamespace and the migration.
Writing == {"migrate", "name", "path", "project", "repo", "pushed", "delete", "deleteAll",
            "dropProject"}

Busy(r) ==
  /\ run[r].pc \in Writing
  /\ \E q \in Run \ {r} : Live(q) /\ run[q].pc \notin {"meta", "create", "write"}
  /\ Stays
  /\ End(r, "busy")

Crash(r) ==
  /\ Live(r) /\ counts.crashes < MaxCrashes
  /\ Count("crashes")
  /\ UNCHANGED <<metaFile, db, eka, content>>
  /\ End(r, "crashed")

\* A tree is edited, checked out, or moved here from elsewhere.
EditTree(d, e) ==
  /\ counts.commands + counts.edits < MaxActions
  /\ eka' = [eka EXCEPT ![d] = e.eka] /\ content' = [content EXCEPT ![d] = e.content]
  /\ Count("edits")
  /\ UNCHANGED <<metaFile, db>>
  /\ run' = [q \in Run |-> IF Live(q) THEN [run[q] EXCEPT !.clean = FALSE] ELSE run[q]]

Open(r) == MetaRead(r) \/ MetaCreate(r) \/ MetaWrite(r) \/ OpenStore(r) \/ Migrate(r)

Sync(r) ==
  \/ GateLegacy(r) \/ Gate(r) \/ Detect(r) \/ AlignBegin(r) \/ AlignWrite(r)
  \/ Resolve(r) \/ SetNamespace(r) \/ RefreshPath(r)
  \/ PullUnits(r) \/ PushCheck(r) \/ PushNamespace(r) \/ Finish(r)

Register(r) ==
  CheckOwner(r) \/ InsertProject(r) \/ InsertRepo(r)

Unregister(r) == DeleteRepo(r) \/ CountRepos(r) \/ DeleteRepos(r) \/ DropProject(r)

Next ==
  \/ \E r \in Run : \/ \E c \in Commands : Begin(r, c)
                    \/ Open(r) \/ Sync(r) \/ Register(r) \/ Unregister(r)
                    \/ Busy(r) \/ Crash(r)
  \/ \E d \in Dir, e \in Edits : EditTree(d, e)

Init ==
  /\ metaFile \in {"absent", "written"}
  /\ db \in Databases
  /\ (metaFile = "absent" => db = NoDatabase)
  /\ \E t \in Trees : eka = t.eka /\ content = t.content
  /\ run = [r \in Run |-> Idle]
  /\ counts = [commands |-> 0, edits |-> 0, crashes |-> 0]

Spec == Init /\ [][Next]_vars

----------------------------------------------------------------------------
(* Properties *)

\* The values of the variables.
WorkspaceTypeOK ==
  /\ metaFile \in {"absent", Torn, "written"}
  /\ db \in Database
  /\ eka \in [Dir -> Identity \cup {Torn, NoFile}]
  /\ content \in [Dir -> SUBSET Namespace]
  /\ \A r \in Run :
       /\ run[r].m \in Identity \cup {NoFile} /\ run[r].root \in Dir \cup {NoFile}
       /\ run[r].repo \in [key : Key, path : Dir, ns : Namespace \cup {Unset}] \cup {NoRow}

\* Whatever registrations and removals run into each other, the integrity
\* report finds nothing in the registry (VerifyIntegrity, level 6), no path is
\* registered twice and the name of workspace-native knowledge never is.
RegistryIntact == RegistrySound(db)

\* A path is owned by the repository that registered it first (project.go): no
\* step hands a registered path to another one.
OwnerKept ==
  [][\A k, l \in Key :
       Registered(k) /\ db'.repos[l] # NoRow /\ db'.repos[l].path = db.repos[k].path => k = l]_vars

\* Whoever has opened the store works on the current schema, with no object
\* left behind in the tables of v1: two processes may find the same old
\* database and both decide to migrate it.
OpenedIsCurrent ==
  \A r \in Run :
    Live(r) /\ run[r].pc \notin {"meta", "create", "write", "open", "migrate"}
      => db.version = schemaVersion /\ ~ HasObjects(db)

\* Canonical knowledge is never taken from a provenance pair: not by the
\* migration, and not by a removal from the registry (UnregisterRepo,
\* UnregisterProject).
KnowledgeKept ==
  [][\A k \in Key : db.old[k] \cup db.units[k] \subseteq db'.old[k] \cup db'.units[k]]_vars

Ends(r, how) == Live(r) /\ run'[r].pc = how

\* A registration, sync or adopt that nobody interferes with leaves a registry
\* in which the directory resolves to one repository, at the root of its tree,
\* with the namespace of eka.yaml and of the content (the reconciliation of
\* Run): whatever crashes, moves and refusals came before it.
SyncAgrees ==
  [][\A r \in Run :
       LET dir  == run[r].cmd.dir
           root == IF Find(dir) = NoFile THEN dir ELSE Find(dir)
       IN  Ends(r, "ok") /\ run[r].clean /\ run[r].cmd.do \in {"sync", "adopt", "register"} =>
             \E k \in Key :
               /\ FindRepo(dir) = {k} /\ db.repos[k].path = root
               /\ run[r].cmd.do # "register" => db.repos[k].ns = eka[root].ns
               /\ run[r].cmd.do = "sync" => content[root] \subseteq {db.repos[k].ns}]_vars

\* The pair (project, namespace) is frozen after the first sync (ADR-017 D5):
\* a process that nobody interferes with replaces a recorded namespace only to
\* align it, on request.
FrozenAlone ==
  [][\A r \in Run, k \in Key :
       /\ run'[r].pc # run[r].pc /\ run[r].clean
       /\ Registered(k) /\ db'.repos[k] # NoRow
       /\ db.repos[k].ns # Unset /\ db'.repos[k].ns # db.repos[k].ns
       => run[r].aligned /\ run[r].cmd.override]_vars

\* A project is a grouping of repositories: a command that runs to its end
\* without interference leaves no project empty that was not empty before,
\* though register and UnregisterRepo take several statements.
NoEmptyProject ==
  [][\A r \in Run :
       (Ends(r, "ok") \/ Ends(r, "failed")) /\ run[r].clean => Empty(db) \subseteq run[r].empty]_vars

----------------------------------------------------------------------------
(* What the documentation says and the code does not do *)

\* "Ensure is idempotent": a workspace can be opened again after a crash.
EnsureIsIdempotent ==
  (\A r \in Run : ~ Live(r)) => metaFile # Torn

\* "The identity pair is frozen": no process but an alignment replaces a
\* recorded namespace, interfered with or not.
Frozen ==
  [][\A k \in Key : Registered(k) /\ db'.repos[k] # NoRow
       /\ db.repos[k].ns # Unset /\ db'.repos[k].ns # db.repos[k].ns
       => \E r \in Run : run[r].aligned]_vars

\* "identity frozen again": a tree whose content and eka.yaml agree, and that
\* nobody has edited, is not refused by its own row.
AlignedAgrees ==
  \A d \in Dir :
    (\A r \in Run : ~ Live(r)) /\ counts.edits = 0 /\ eka[d] \notin {Torn, NoFile}
      /\ content[d] = {eka[d].ns} /\ Registered(eka[d].key)
      => db.repos[eka[d].key].ns \in {Unset, eka[d].ns}
=============================================================================
