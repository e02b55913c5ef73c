--------------------------- MODULE MCEkaExchange ----------------------------
(***************************************************************************)
(* An instance of EkaExchange for TLC: a vision, a decision derived from   *)
(* it, a plan in two instances, drafts, two epics in a circle; targets     *)
(* that are empty or that hold some of it, the same or another way.        *)
(***************************************************************************)
EXTENDS EkaExchange, TLC

To(type, id)     == [ns |-> "n", type |-> type, id |-> id, version |-> 0]
Pin(type, id, v) == [ns |-> "n", type |-> type, id |-> id, version |-> v]

Log(states) ==
  LET at(d) == IF d \in DOMAIN states THEN <<[domain |-> d, from |-> "-", to |-> states[d]]>>
               ELSE <<>>
  IN  at("content-state") \o at("execution-state") \o at("planning-state")
      \o at("existence-state") \o at("note-state")

\* An artifact in its file; references in the field that suits them.
Art(type, id, v, states, field, refs) ==
  [ns |-> "n", type |-> type, id |-> id, version |-> v, states |-> states, phase |-> "",
   dimension |-> IF type \in Knowledge THEN Folder(type) ELSE "", secondary |-> {},
   domain |-> "", rel |-> [f \in Field |-> IF f = field THEN refs ELSE {}],
   log |-> Log(states), sections |-> RequiredSections(type), header |-> TRUE,
   table |-> FALSE, role |-> "", text |-> "t",
   file |-> [token |-> type, version |-> IF type \in Versioned THEN v ELSE 0,
             folder |-> Folder(type)]]

Live(content) == ("content-state" :> content) @@ ("existence-state" :> "active")
PlanAt(state) == Live("approved") @@ ("planning-state" :> state)
Item(state)   == ("execution-state" :> state) @@ ("existence-state" :> "active")

vis   == Art("vis", "v", 1, Live("approved"), "derives-from", {})
adr   == Art("adr", "a", 1, Live("accepted"), "derives-from", {To("vis", "v")})
plan1 == Art("plan", "p", 1, PlanAt("draft"), "depends-on", {To("adr", "a")})
plan2 == Art("plan", "p", 2, PlanAt("draft"), "depends-on", {To("plan", "p")})
std   == Art("std", "x", 1, Live("draft"), "depends-on", {To("vis", "v"), To("spec", "y")})
sto   == Art("sto", "s", 1, Item("todo"), "derives-from", {Pin("plan", "p", 2), To("adr", "a")})
epcE  == Art("epc", "e", 1, Live("review"), "depends-on", {To("epc", "f")})
epcF  == Art("epc", "f", 1, Live("review"), "depends-on", {To("epc", "e")})
old   == [Art("adr", "o", 1, Live("superseded"), "derives-from", {}) EXCEPT !.log = Log(Live("superseded"))]
new   == Art("adr", "w", 1, Live("accepted"), "supersedes", {To("adr", "o")})
note  == [Art("cmt", "n", 1, Live("approved") @@ ("note-state" :> "open"), "discusses", {To("adr", "a")})
            EXCEPT !.role = "review", !.sections = NoteKeys("review")]
hand  == Art("std", "h", 1, Live("draft"), "depends-on", {To("vis", "v")})
wrong == Art("plan", "z", 1, PlanAt("draft"), "depends-on", {To("adr", "q")})
there == [adr EXCEPT !.ns = "m", !.rel["derives-from"] = {}]
text2(a) == [a EXCEPT !.text = "u"]

logo == [file |-> [token |-> "", version |-> 0, folder |-> "assets"], id |-> "logo"]
NoAttachment == <<>>
Logo == logo :> [text |-> "logo"]

At(a)    == [file |-> a.file, id |-> a.id]
TreeOf(set) == [p \in {At(a) : a \in set} |-> CHOOSE a \in set : At(a) = p]

Chain == {vis, adr, plan1, plan2, sto}

\* The runs' repositories: they change, and hold what cannot be imported.
MCRepositories == {{vis, adr}, {text2(vis), adr}}
MCReceived == {[set |-> Chain, request |-> {}], [set |-> Chain, request |-> {To("adr", "a")}],
               [set |-> {vis, epcE, epcF, std}, request |-> {To("epc", "e"), To("epc", "f"), To("std", "x")}],
               [set |-> {vis, adr, note}, request |-> {}]}
MCRequests == {{}, {To("adr", "a")}}
MCTrees == {TreeOf({}), TreeOf({vis}), TreeOf({there})}
\* A package with two units of one file; one with a superseded decision.
TwoUnits == {[set |-> {vis, adr, there}, request |-> {}]}
Replacing == {[set |-> {old, new}, request |-> {}]}
NoRepositories == {}
Clash == {[path |-> At(vis), file |-> text2(vis)]}

\* By hand: a draft, and a plan that breaks the tree.
MCEdits == {[path |-> At(hand), file |-> hand], [path |-> At(wrong), file |-> wrong]}
=============================================================================
