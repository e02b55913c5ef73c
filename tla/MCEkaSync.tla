----------------------------- MODULE MCEkaSync ------------------------------
(***************************************************************************)
(* Instances of EkaSync for TLC: trees, what git and docs can hold, and    *)
(* the options of the runs.                                                *)
(***************************************************************************)
EXTENDS EkaSync, TLC

CONSTANTS a1, a2, b1, fa, fb, la, lb, ticket, p1, p2, r1, r2, t1, t2, s1, s2

MCFormOf  == (a1 :> fa) @@ (a2 :> fa) @@ (b1 :> fb)
MCLineOf  == (fa :> la) @@ (fb :> lb)
MCGroupOf == (fa :> ticket) @@ (fb :> ticket)

\* One form alone.
OneFormOf  == (a1 :> fa) @@ (a2 :> fa)
PairFormOf == (a1 :> fa) @@ (b1 :> fb)
OneLineOf  == (fa :> la)
OneGroupOf == (fa :> ticket)

Full        == [adopt |-> FALSE, pull |-> "snapshot", push |-> TRUE]
AdoptPull   == [adopt |-> TRUE,  pull |-> "snapshot", push |-> FALSE]
PullDocsOnly == [adopt |-> FALSE, pull |-> "docs",    push |-> FALSE]
PushOnly    == [adopt |-> FALSE, pull |-> "no",       push |-> TRUE]

FullModes   == {Full}
PullModes   == {AdoptPull, PullDocsOnly}
DocsModes   == {PullDocsOnly}
PushModes   == {PushOnly}

\* One tree; what another device pushed.
OneTreeRepo == (t1 :> r1)
OneTreeProject == (t1 :> p1)
OneRun == (s1 :> t1)
TwoRuns == (s1 :> t1) @@ (s2 :> t1)
DocsA1  == (t1 :> {a1})
RemoteAB == {{a1}, {a2, b1}}
RemoteA  == {{a1}}

\* Two trees, one run in each, with the same identity in both.
TwoTreeRepo == (t1 :> r1) @@ (t2 :> r2)
TwoTreeProject == (t1 :> p1) @@ (t2 :> p1)
EachRun == (s1 :> t1) @@ (s2 :> t2)
DocsBoth == (t1 :> {a1}) @@ (t2 :> {a2})
=============================================================================
