-------------------------- MODULE MCEkaTransition ---------------------------
(***************************************************************************)
(* Instances of EkaTransition for TLC: which container runs which plan,    *)
(* what is published when, and which notes and tickets there are.          *)
(***************************************************************************)
EXTENDS EkaTransition, TLC

CONSTANTS i1, q1, q2, q3, q4, c1, c2, c3, c4, d1, d2, n1, n2, ann, bob, r1, r2

V(line, version) == [line |-> line, version |-> version]

\* Plans q1, q2 and q3 with a container each; q2 depends on q1.
ThreePlanOf == (c1 :> q1) @@ (c2 :> q2) @@ (c3 :> q3)
ThreeDeps   == (q1 :> {}) @@ (q2 :> {q1}) @@ (q3 :> {})
ThreeBorn   == {V(l, 1) : l \in {c1, c2, c3, q1, q2, q3}}

\* The repositories are interchangeable, and so are the authorities.
RepoSymmetry == Permutations({r1, r2})
AuthorSymmetry == Permutations({ann, bob})

\* One container on one plan with one ticket; notes on its work item; two
\* decisions, one of which is published later to supersede the other.
OnePlanOf == (c1 :> q1)
OneDeps   == (q1 :> {})
OneTicket == {<<c1, i1>>}
NotesOn   == (n1 :> i1) @@ (n2 :> i1)
OneNoteOn == (n1 :> i1)
D2OverD1  == {<<d2, d1>>}
WorkBorn     == {V(l, 1) : l \in {c3, q3, i1}}
PlanBorn     == {V(l, 1) : l \in {c4, q4}}
DecisionBorn == {V(d1, 1)}

\* Either the three containers, or the lines of the other gates.
SerialPlanOf == ThreePlanOf @@ (c4 :> q4)
SerialDeps   == ThreeDeps @@ (q4 :> {})
SerialTicket == {<<c3, i1>>}
SerialBirths == {ThreeBorn, WorkBorn, PlanBorn, DecisionBorn}
SerialFresh  == {V(c1, 2), V(q4, 2), V(d2, 1)}

\* Two containers of one plan, or a work item.
SharedPlanOf == (c1 :> q1) @@ (c2 :> q1)
SharedBorn   == {V(l, 1) : l \in {c1, c2, q1}}
ItemBorn     == {V(i1, 1)}
ParallelBirths == {SharedBorn, ItemBorn}

UnreadBorn == {V(l, 1) : l \in {c1, q1, i1}}
NextCtr   == {V(c1, 2)}
OnlyUnreadBorn == {UnreadBorn}
OnlySharedBorn == {SharedBorn}
OnlyItemBorn == {ItemBorn}
AnyRepo  == [l \in Line |-> Repo]
FirstRepo == [l \in Line |-> IF l \in {c1, c2} THEN Repo ELSE {r1}]
Empty     == [x \in {} |-> x]
=============================================================================
