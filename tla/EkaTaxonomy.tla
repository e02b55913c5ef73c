---------------------------- MODULE EkaTaxonomy -----------------------------
(***************************************************************************)
(* The type and state tables of the conformance package: the 29 artifact   *)
(* type tokens with the state domains they own, the value set of every     *)
(* domain, the legal transitions, the five Engineering Domains and their   *)
(* authority strata, the sections and note fields a type requires.         *)
(***************************************************************************)
EXTENDS Integers, Sequences

WorkItem == {"sto", "ts", "bug", "td", "ch", "spk"}

\* versionedTypes and projectionTypes.
Versioned == {"scp", "plan"}
Projection == {"ctr", "tkt", "ses"}

\* typeTokens: the knowledge artifacts, and the operating records beside them.
Knowledge == {"vis", "str", "req", "scp", "epc", "plan", "rvw", "adr", "dec",
              "arc", "spec", "std", "run", "rel", "shr", "gls", "trc", "fnd"}

Token == Knowledge \cup WorkItem \cup Projection \cup {"cmt", "mbr"}

StateDomain == {"content-state", "execution-state", "planning-state",
                "container-state", "existence-state", "note-state"}

\* The owned sets of the type table, read by domain.
OwnersOf(domain) ==
  CASE domain = "content-state"   -> Knowledge \cup {"cmt", "mbr"}
    [] domain = "execution-state" -> WorkItem
    [] domain = "planning-state"  -> {"plan"}
    [] domain = "container-state" -> {"ctr"}
    [] domain = "existence-state" -> Token \ {"tkt"}
    [] domain = "note-state"      -> {"cmt"}

Owned(type) == {d \in StateDomain : type \in OwnersOf(d)}

Phases == <<"discovery", "mvp", "milestone", "release", "growth", "maturity", "sunset">>

\* contentStateVariant.
ContentValues(type) ==
  CASE type = "adr" -> <<"proposed", "accepted", "superseded">>
    [] type = "dec" -> <<"draft", "accepted", "superseded">>
    [] OTHER        -> <<"draft", "review", "approved", "amended">>

\* domainValues: ordered, the order is what forward means.
DomainValues(domain, type) ==
  CASE domain = "content-state"   -> ContentValues(type)
    [] domain = "execution-state" ->
         <<"planned", "todo", "in-progress", "in-review", "done", "canceled">>
    [] domain = "planning-state"  -> <<"draft", "approved", "immutable", "superseded">>
    [] domain = "container-state" -> <<"planned", "active", "completed">>
    [] domain = "existence-state" -> <<"active", "archived", "retired">>
    [] domain = "note-state"      -> <<"open", "resolved", "dismissed">>
    [] domain = "phase"           -> Phases

Member(values, v) == \E i \in DOMAIN values : values[i] = v

ValidStateValue(domain, type, v) == Member(DomainValues(domain, type), v)

\* isLegalExecutionTransition: the D1 table.
ExecutionTable(from) ==
  CASE from = "planned"     -> {"todo", "canceled"}
    [] from = "todo"        -> {"in-progress", "canceled"}
    [] from = "in-progress" -> {"in-review", "todo", "canceled"}
    [] from = "in-review"   -> {"done", "in-progress", "canceled"}
    [] from = "done"        -> {"canceled"}
    [] from = "canceled"    -> {"todo"}

\* A later value of the ordered set.
Forward(values, from, to) ==
  \E i, j \in DOMAIN values : i < j /\ values[i] = from /\ values[j] = to

\* isLegalTransition: what a change-log entry may record.
IsLegalTransition(domain, type, from, to) ==
  \/ from = "-" \/ domain = "phase"
  \/ /\ ValidStateValue(domain, type, from) /\ ValidStateValue(domain, type, to)
     /\ CASE domain = "execution-state" -> to \in ExecutionTable(from)
          [] domain = "note-state"      -> from = "open" /\ to # "open"
          [] OTHER -> Forward(DomainValues(domain, type), from, to)

----------------------------------------------------------------------------
(* Engineering Domains *)

EngineeringDomain == {"Discovery", "Architecture", "Planning", "Execution", "Operations"}

\* DomainForToken: the home domain of a type.
DomainForToken(type) ==
  CASE type \in {"vis", "str", "req", "fnd"}                      -> "Discovery"
    [] type \in {"arc", "adr", "dec", "spec", "std", "gls"}       -> "Architecture"
    [] type \in {"scp", "epc", "plan", "trc"}                     -> "Planning"
    [] type \in WorkItem \cup Projection \cup {"rvw", "cmt", "mbr"} -> "Execution"
    [] type \in {"run", "rel", "shr"}                             -> "Operations"

\* 1 is the highest authority.
Stratum(domain) ==
  CASE domain = "Discovery"    -> 1
    [] domain = "Architecture" -> 2
    [] domain = "Planning"     -> 3
    [] domain = "Execution"    -> 4
    [] domain = "Operations"   -> 5

StratumOf(type) == Stratum(DomainForToken(type))

\* The 12 knowledge dimensions.
Dimension == {"intent", "requirements", "architecture", "decisions",
              "specifications", "standards", "operations", "quality",
              "planning", "records", "research", "vocabulary"}

----------------------------------------------------------------------------
(* What a type's content must hold *)

RequiredSections(type) ==
  CASE type \in {"scp", "epc", "plan", "trc"} -> {"Objective", "Scope", "Out of Scope"}
    [] type \in {"sto", "ts", "ch"} -> {"Description", "Acceptance Criteria"}
    [] type = "bug" -> {"Description", "Impact"}
    [] type = "td"  -> {"Description", "Acceptance Criteria", "Debt Rationale"}
    [] type = "spk" -> {"Description", "Investigation Notes", "Conclusion"}
    [] type \in {"adr", "dec"} ->
         {"Context", "Decision", "Consequences", "Alternatives Considered"}
    [] type \in {"vis", "str", "req", "arc", "spec", "std", "run", "rel", "shr",
                 "gls", "mbr"} -> {"Purpose", "Content"}
    [] type = "fnd" -> {"Purpose", "Content", "Investigation Summary", "Conclusion"}
    [] type = "rvw" -> {"Purpose", "Content", "Findings", "Action Items"}
    [] type = "ctr" -> {"Objective", "Work Items", "Change Log"}
    [] type = "tkt" -> {"Commands", "Projected Status"}
    [] type = "ses" -> {"Context", "Notes", "Verification"}
    [] OTHER -> {}

\* The content keys of a note role: all of them required, no other allowed.
NoteKeys(role) ==
  CASE role = "implementation" -> {"role", "summary", "changes", "tests"}
    [] role = "review"         -> {"role", "verdict", "notes"}
    [] role = "fix"            -> {"role", "addresses", "detail"}
    [] role = "reply"          -> {"role", "body"}
    [] OTHER                   -> {}

\* NumberGroup; "" is the group of a type without numbers.
NumberGroup(type) ==
  CASE type = "tkt" -> "ticket"
    [] type = "cmt" -> "note"
    [] type \in WorkItem -> "work-item"
    [] OTHER -> ""
=============================================================================
