-------------------------- MODULE MCEkaPublication --------------------------
(***************************************************************************)
(* An instance of EkaPublication for TLC: a vision, a decision, a plan in  *)
(* two instances, a container, its ticket, a work item with a note, two    *)
(* epics that depend on each other, and units the gate must refuse.        *)
(***************************************************************************)
EXTENDS EkaPublication, TLC

Line(type, id) == [ns |-> "n", type |-> type, id |-> id]
To(type, id)   == [ns |-> "n", type |-> type, id |-> id, version |-> 0]
Pin(type, id, v) == [ns |-> "n", type |-> type, id |-> id, version |-> v]

NoRefs == [f \in Field |-> {}]

Log(states) ==
  LET at(d) == <<[domain |-> d, from |-> "-", to |-> states[d]]>>
      of(d) == IF d \in DOMAIN states THEN at(d) ELSE <<>>
  IN  of("content-state") \o of("execution-state") \o of("planning-state")
      \o of("container-state") \o of("existence-state") \o of("note-state")

\* A well-formed unit of the type in the given states.
Unit(type, id, states, rel) ==
  [ns |-> "n", type |-> type, id |-> id, version |-> 1, states |-> states,
   phase |-> "", dimension |-> IF type \in Knowledge THEN "planning" ELSE "",
   secondary |-> {}, domain |-> "", rel |-> rel, log |-> Log(states),
   sections |-> RequiredSections(type), header |-> TRUE, table |-> FALSE, role |-> "",
   file |-> [token |-> type, version |-> IF type \in Versioned THEN 1 ELSE 0,
             folder |-> "planning"]]

Live(content) == ("content-state" :> content) @@ ("existence-state" :> "active")
Item(state)   == ("execution-state" :> state) @@ ("existence-state" :> "active")
PlanAt(state) == Live("approved") @@ ("planning-state" :> state)
CtrAt(state)  == ("container-state" :> state) @@ ("existence-state" :> "active")

vis  == Unit("vis", "v", Live("approved"), NoRefs)
adr  == Unit("adr", "a", Live("accepted"), [NoRefs EXCEPT !["derives-from"] = {To("vis", "v")}])
plan == [Unit("plan", "p", PlanAt("draft"), [NoRefs EXCEPT !["depends-on"] = {To("adr", "a")}])
           EXCEPT !.phase = "mvp", !.log = @ \o <<[domain |-> "phase", from |-> "-", to |-> "mvp"]>>]
plan2 == [Unit("plan", "p", PlanAt("draft"), [NoRefs EXCEPT !["amends"] = {Pin("plan", "p", 1)},
                                                         !["depends-on"] = {To("epc", "e")}])
            EXCEPT !.version = 2, !.file.version = 2]
ctr  == Unit("ctr", "c", CtrAt("planned"), [NoRefs EXCEPT !["depends-on"] = {To("plan", "p")}])
sto  == Unit("sto", "s", Item("done"), [NoRefs EXCEPT !["derives-from"] = {To("adr", "a")}])
tkt  == Unit("tkt", "t", <<>>, [NoRefs EXCEPT !["derives-from"] = {To("ctr", "c"), To("sto", "s")}])
note == [Unit("cmt", "n", Live("approved") @@ ("note-state" :> "open"),
              [NoRefs EXCEPT !["discusses"] = {To("sto", "s")}])
           EXCEPT !.role = "review", !.sections = NoteKeys("review")]
epicE == Unit("epc", "e", Live("review"), [NoRefs EXCEPT !["depends-on"] = {To("epc", "f")}])
epicF == Unit("epc", "f", Live("review"), [NoRefs EXCEPT !["depends-on"] = {To("epc", "e")}])
std  == Unit("std", "x", Live("draft"), [NoRefs EXCEPT !["depends-on"] = {To("spec", "y")}])

\* Refused: a log that lags, a dangling reference, a pinned one to a draft,
\* a reference to itself, a malformed one, a superseded decision, an upward
\* move, a ticket without its container.
stale   == [plan EXCEPT !.id = "q", !.states["planning-state"] = "approved"]
dangle  == [ctr EXCEPT !.id = "d", !.rel["depends-on"] = {To("plan", "z")}]
pinned  == [ctr EXCEPT !.id = "k", !.rel["depends-on"] = {Pin("plan", "p", 2)}]
selfish == [adr EXCEPT !.id = "b", !.rel["depends-on"] = {To("adr", "b")}]
broken  == [vis EXCEPT !.id = "w", !.rel["amends"] = {Malformed}]
retired == [adr EXCEPT !.id = "r", !.states["content-state"] = "superseded",
                       !.log = Log(Live("superseded"))]
upward  == [ctr EXCEPT !.id = "u", !.rel["supersedes"] = {To("adr", "a")}]
homeless == [ctr EXCEPT !.id = "h", !.domain = "Planning"]
bare    == [tkt EXCEPT !.id = "o", !.header = FALSE]

Accepted == {vis, adr, plan, plan2, ctr, sto, tkt, note, epicE, epicF, std}
Refused  == {stale, dangle, selfish, broken, retired, homeless, bare}
\* pinned is refused until the plan is published.
GateUnits == Accepted \cup Refused \cup {pinned}
GateDrafts == {Line("plan", "p"), Line("epc", "f")}
UpUnits  == {vis, adr, plan, upward}
=============================================================================
