------------------------------ MODULE EkaLines ------------------------------
(***************************************************************************)
(* Artifact lines as the authoring API sees them: the state tables of      *)
(* conformance/state.go and runtime/transition.go, units with a state and  *)
(* a change log, and the store as the put of such a unit changes it.       *)
(*                                                                         *)
(* A unit is the state of its type's transition domain and the change log  *)
(* of that domain; identity, content and relationships do not change with  *)
(* a transition.  Units are immutable payloads: past[f] is every payload   *)
(* ever written for form f, and a put of one of them leaves the reference  *)
(* alone (the forward-only guard of EkaStore, for forms no repoint moved   *)
(* back).                                                                  *)
(***************************************************************************)
EXTENDS Integers, Sequences

CONSTANTS
  Item,        \* lines of the six work item types
  Plan,        \* plan- lines
  Ctr,         \* ctr- lines
  Adr,         \* adr- lines
  MaxVersion,  \* bound: instance versions of a line
  Repo,        \* repositories of the project
  Runtime,     \* the provenance of workspace-native units
  Author,      \* change-log authorities
  NoUnit       \* the form has no reference

Line == Item \cup Plan \cup Ctr \cup Adr

Form == [line : Line, version : 1..MaxVersion]

ASSUME LinesAssumption ==
  /\ MaxVersion \in Nat \ {0}
  /\ Runtime \notin Repo
  /\ Item \cap (Plan \cup Ctr \cup Adr) = {}
  /\ Plan \cap (Ctr \cup Adr) = {}
  /\ Ctr \cap Adr = {}

----------------------------------------------------------------------------
(* State tables *)

State == {"planned", "todo", "in-progress", "in-review", "done", "canceled",
          "draft", "approved", "immutable", "superseded",
          "active", "completed", "proposed", "accepted"}

\* The state a draft of the type is scaffolded with.
BirthState(line) ==
  IF line \in Plan THEN "draft" ELSE IF line \in Adr THEN "proposed" ELSE "planned"

\* The D1 table of execution-state.
ExecutionSteps ==
  {<<"planned", "todo">>, <<"planned", "canceled">>,
   <<"todo", "in-progress">>, <<"todo", "canceled">>,
   <<"in-progress", "in-review">>, <<"in-progress", "todo">>,
   <<"in-progress", "canceled">>,
   <<"in-review", "done">>, <<"in-review", "in-progress">>,
   <<"in-review", "canceled">>,
   <<"done", "canceled">>, <<"canceled", "todo">>}

PlanningValues  == <<"draft", "approved", "immutable", "superseded">>
ContainerValues == <<"planned", "active", "completed">>
AdrValues       == <<"proposed", "accepted", "superseded">>

\* Forward-only domains: any later value of the set.
Ahead(values) ==
  {<<values[s[1]], values[s[2]]>> :
     s \in {r \in (DOMAIN values) \X (DOMAIN values) : r[1] < r[2]}}

\* isLegalTransition: what a change log may hold.
LegalSteps(line) ==
  IF line \in Item THEN ExecutionSteps
  ELSE IF line \in Plan THEN Ahead(PlanningValues)
  ELSE IF line \in Ctr THEN Ahead(ContainerValues)
  ELSE Ahead(AdrValues)

\* What Transition accepts as a request: the D1 table, and single steps of
\* the other domains without the lock, which only an activation performs.
RequestSteps(line) ==
  IF line \in Item THEN ExecutionSteps
  ELSE IF line \in Plan THEN {<<"draft", "approved">>, <<"immutable", "superseded">>}
  ELSE IF line \in Ctr THEN {<<"planned", "active">>, <<"active", "completed">>}
  ELSE {<<"proposed", "accepted">>, <<"accepted", "superseded">>}

----------------------------------------------------------------------------
(* Units and the store *)

Entry == [from : State, to : State, by : Author]

Unit == [state : State, log : Seq(Entry)]

\* The absent unit is not a unit.
ASSUME NoUnitAssumption == NoUnit \notin Unit

Born(line) == [state |-> BirthState(line), log |-> <<>>]

\* Faulty variant: the entry takes the place of the log.
MovedForgetful(u, to, author) ==
  [state |-> to, log |-> <<[from |-> u.state, to |-> to, by |-> author]>>]

\* The unit after one transition: the new state and one more log entry.
Moved(u, to, author) ==
  [state |-> to,
   log   |-> Append(u.log, [from |-> u.state, to |-> to, by |-> author])]

\* Faulty variant: the payload is not archived.
WriteUnarchived(st, f, u, repo) ==
  [st EXCEPT !.head[f] = u, !.owner[f] = repo]

\* PutUnit: a payload the archive already holds moves nothing; a new one
\* becomes the form's, under the provenance of the put.
Write(st, f, u, repo) ==
  IF u \in st.past[f]
    THEN st
    ELSE [head  |-> [st.head  EXCEPT ![f] = u],
          past  |-> [st.past  EXCEPT ![f] = @ \cup {u}],
          owner |-> [st.owner EXCEPT ![f] = repo]]

Published(st, line) == \E f \in Form : f.line = line /\ st.head[f] # NoUnit

\* The current instance of a published line: the highest one.
CurrentForm(st, line) ==
  CHOOSE f \in Form :
    /\ f.line = line /\ st.head[f] # NoUnit
    /\ \A g \in Form : g.line = line /\ st.head[g] # NoUnit => g.version <= f.version

Current(st, line) == st.head[CurrentForm(st, line)]

InState(st, line, state) == Published(st, line) /\ Current(st, line).state = state

\* A log is a path of the table from the birth state to the unit's state.
Replays(line, u) ==
  LET n == Len(u.log)
  IN  /\ u.state = (IF n = 0 THEN BirthState(line) ELSE u.log[n].to)
      /\ \A i \in 1..n :
           /\ u.log[i].from = (IF i = 1 THEN BirthState(line) ELSE u.log[i - 1].to)
           /\ <<u.log[i].from, u.log[i].to>> \in LegalSteps(line)
=============================================================================
