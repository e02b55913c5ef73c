--------------------------- MODULE MCEkaAuthoring ---------------------------
(***************************************************************************)
(* Instances of EkaAuthoring for TLC: a plan, a container that depends on  *)
(* it, a note and the reply to it, and who does what.                      *)
(***************************************************************************)
EXTENDS EkaAuthoring, TLC

CONSTANTS plan, ctr, note, reply, ann, bob

Req(l, rels) == [line |-> l, rels |-> rels]

NewPlan == <<Req(plan, {})>>
NewNote == <<Req(note, {plan})>>
Both    == <<Req(ctr, {plan}), Req(plan, {})>>

PairScaffolds == {NewPlan, Both, NewNote}
PlanScaffolds == {NewPlan}

PlanOverCtr  == {<<plan, ctr>>}
TwoEdges     == {<<plan, ctr>>, <<plan, note>>}
NothingAdded == {}

NoNotes  == [l \in Line |-> <<>>]
PlanNote == [l \in Line |-> IF l = plan THEN <<note>> ELSE <<>>]
WithReply == [l \in Line |-> IF l = plan THEN <<note>> ELSE IF l = note THEN <<reply>> ELSE <<>>]

\* The note is created twice: resolving its published form scaffolds it again.
Tickets == [l \in Line |-> IF l = note THEN 2 ELSE 1]
Thrice  == [l \in Line |-> IF l = note THEN 3 ELSE 1]

Writing    == {"new", "publish", "batch"}
Everything == {"new", "note", "publish", "batch", "inline", "relate", "resolve",
               "discard", "crash"}
Noting     == {"new", "note", "publish", "resolve"}

\* One author who does everything but replying and editing, one who replies,
\* one who edits, one who drafts a note line again, two who publish the same
\* drafts, one of whom relates what is published, and a batch whose drafts are
\* related and discarded by another author.
Alone  == (ann :> Everything) @@ (bob :> {})
Racing == (ann :> Writing \cup {"repoint"}) @@ (bob :> Writing)

RacingOnly == {Racing}
Replying == (ann :> {"new", "note", "publish", "resolve", "reply"}) @@ (bob :> {})
Editing  == (ann :> {"new", "publish", "relate", "discard", "edit"}) @@ (bob :> {})
Redrafting == (ann :> {"new", "cmt", "publish", "resolve"}) @@ (bob :> {})
Batching   == (ann :> {"new", "batch"}) @@ (bob :> {"relate", "discard"})

AloneOrRacing == {Alone, Racing, Replying, Editing, Redrafting, Batching}
RedraftingOnly == {Redrafting}
BatchingOnly   == {Batching}
NotesAlone    == {(ann :> Noting) @@ (bob :> {})}
BothRelate    == {(ann :> {"new", "publish", "repoint"}) @@ (bob :> {"repoint"})}
EditedRace    == {(ann :> {"new", "publish"}) @@ (bob :> {"publish", "edit", "discard"})}
=============================================================================
