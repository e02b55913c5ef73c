-------------------------- MODULE MCEkaWorkspace ---------------------------
(***************************************************************************)
(* An instance of EkaWorkspace for TLC: two processes, two directories and *)
(* one below the first; the second is a worktree of the first, another     *)
(* repository, or a directory of the same name without an identity.        *)
(***************************************************************************)
EXTENDS EkaWorkspace, TLC

MCAbove == "d1" :> <<"d1">> @@ "d2" :> <<"d2">> @@ "sub" :> <<"sub", "d1">>
MCBase  == "d1" :> "a" @@ "d2" :> "a" @@ "sub" :> "runtime"

Id(name, ns) == [key |-> <<"p", name>>, ns |-> ns]

Rows(k, row)  == [l \in Key |-> IF l = k THEN row ELSE NoRow]
UnitsOf(k, n) == [l \in Key |-> IF l = k THEN n ELSE {}]

\* A workspace with one repository, which has units.
OneRepo(version, ns) ==
  [version |-> version, projects |-> {"p"}, repos |-> Rows(<<"p", "a">>, [path |-> "d1", ns |-> ns]),
   old   |-> UnitsOf(<<"p", "a">>, IF version < 2 THEN {"n1"} ELSE {}),
   units |-> UnitsOf(<<"p", "a">>, IF version < 2 THEN {} ELSE {"n1"})]

MCDatabases == {NoDatabase, OneRepo(0, Unset), OneRepo(1, Unset), OneRepo(4, "n1")}
Current     == {OneRepo(4, "n1")}
Fresh       == {NoDatabase}

TreeWith(e1, c1, e2, c2) ==
  [eka |-> "d1" :> e1 @@ "d2" :> e2 @@ "sub" :> NoFile,
   content |-> "d1" :> c1 @@ "d2" :> c2 @@ "sub" :> {}]

Worktrees == TreeWith(Id("a", "n1"), {"n1"}, Id("a", "n1"), {})
Moved     == TreeWith(Id("a", "n1"), {"n2"}, Id("b", "n1"), {"n1"})
Branches  == TreeWith(Id("a", "n1"), {"n1"}, Id("a", "n2"), {"n2"})
Plain     == TreeWith(NoFile, {}, NoFile, {})
MCTrees     == {Worktrees, Moved, Plain}
BranchTrees == {Branches}
MovedTrees  == {Moved}
NoEdits     == {}

Do(what, dir, project, override, key) ==
  [do |-> what, dir |-> dir, project |-> project, override |-> override, key |-> key]

Syncs     == {Do("sync", "sub", NoFile, o, NoRow) : o \in BOOLEAN}
             \cup {Do("sync", "d2", NoFile, FALSE, NoRow)}
Registers == {Do("register", d, NoFile, FALSE, NoRow) : d \in {"sub", "d2"}}
             \cup {Do("register", "d2", "p", FALSE, NoRow)}
Removals  == {Do("unregister", NoFile, NoFile, FALSE, <<"p", "a">>),
              Do("drop", NoFile, NoFile, FALSE, <<"p", "a">>)}
MCCommands == Syncs \cup Registers \cup Removals \cup {Do("adopt", "d1", NoFile, FALSE, NoRow)}

Processes == Permutations(Run)

\* A tree loses its identity file; it is another repository's from now on.
MCEdits == {[eka |-> NoFile, content |-> {}], [eka |-> Id("b", "n2"), content |-> {"n2"}]}
=============================================================================
