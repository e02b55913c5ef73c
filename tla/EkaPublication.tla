--------------------------- MODULE EkaPublication ---------------------------
(***************************************************************************)
(* The two conformance gates over one body of knowledge: units are drafted *)
(* and published through ValidateCKO, and the artifacts they make up are   *)
(* what Validate sees when they lie in a docs/ tree.  The chain rule R10   *)
(* is the walk of conformance/rules_domain.go, one dequeue a step.         *)
(***************************************************************************)
EXTENDS EkaConformance

CONSTANTS
  Candidate,   \* the units that may be published
  DraftLine,   \* the lines that may be drafted first
  Nobody

\* A unit lies in a docs/ tree in the file of its identity.
InItsFile(a) ==
  /\ a.file.token = a.type
  /\ a.file.version = IF a.type \in Versioned THEN a.version ELSE 0
  /\ a.type \in Knowledge => a.file.folder = a.dimension

ASSUME PublicationAssumption ==
  Nobody \notin Candidate /\ \A a \in Candidate : InItsFile(a)

VARIABLES
  units,      \* published units
  drafts,     \* lines with a draft file
  discarded,  \* history: lines whose draft was discarded
  walk        \* the R10 walk of the repository gate

publicationVars == <<units, drafts, discarded, walk>>

Idle == [at |-> Nobody, queue |-> {}, visited |-> {}, verdict |-> "none"]

Init ==
  /\ units = {} /\ drafts = {} /\ discarded = {}
  /\ walk = Idle

----------------------------------------------------------------------------
(* Authoring *)

NewDraft(l) ==
  /\ l \notin drafts
  /\ drafts' = drafts \cup {l}
  /\ UNCHANGED <<units, discarded, walk>>

DiscardDraft(l) ==
  /\ l \in drafts
  /\ drafts' = drafts \ {l}
  /\ discarded' = discarded \cup {l}
  /\ UNCHANGED <<units, walk>>

\* A version below the highest of the line is refused (MaxInstanceVersion).
Advances(a) == \A b \in units : LineOf(b) = LineOf(a) => b.version < a.version

\* Publish: the draft's unit, whose file is removed after the put.
Publish(a) ==
  /\ walk = Idle
  /\ LineOf(a) \in drafts
  /\ Advances(a) /\ Accepts(a, units, drafts)
  /\ units' = units \cup {a}
  /\ drafts' = drafts \ {LineOf(a)}
  /\ UNCHANGED <<discarded, walk>>

\* PublishInline: no draft; the drafts of every project are tolerated.
PublishInline(a) ==
  /\ walk = Idle
  /\ Advances(a) /\ Accepts(a, units, drafts)
  /\ units' = units \cup {a}
  /\ UNCHANGED <<drafts, discarded, walk>>

----------------------------------------------------------------------------
(* Rule 10 over the published set *)

StartWalk(a) ==
  /\ walk = Idle
  /\ walk' = [at |-> a, queue |-> {a}, visited |-> {a},
              verdict |-> IF Exempt(a) THEN "exempt" ELSE "none"]
  /\ UNCHANGED <<units, drafts, discarded>>

Higher(a, b) == StratumOf(b.type) < StratumOf(a.type)

\* Faulty variant: only an artifact of the stratum right above counts.
VisitAdjacent(b) ==
  LET fresh == Sources(units, b) \ walk.visited
  IN  /\ walk.verdict = "none" /\ b \in walk.queue
      /\ walk' = IF \E c \in fresh : StratumOf(c.type) = StratumOf(walk.at.type) - 1
                   THEN [walk EXCEPT !.verdict = "reached"]
                   ELSE [walk EXCEPT !.queue = (@ \ {b}) \cup fresh,
                                     !.visited = @ \cup fresh]
      /\ UNCHANGED <<units, drafts, discarded>>

\* One dequeue: a source of a higher stratum ends the walk, the others that
\* were not visited are queued.
Visit(b) ==
  LET fresh == Sources(units, b) \ walk.visited
  IN  /\ walk.verdict = "none" /\ b \in walk.queue
      /\ walk' = IF \E c \in fresh : Higher(walk.at, c)
                   THEN [walk EXCEPT !.verdict = "reached"]
                   ELSE [walk EXCEPT !.queue = (@ \ {b}) \cup fresh,
                                     !.visited = @ \cup fresh]
      /\ UNCHANGED <<units, drafts, discarded>>

\* The queue is empty: the chain is missing, a warning.
Exhausted ==
  /\ walk.at # Nobody /\ walk.verdict = "none" /\ walk.queue = {}
  /\ walk' = [walk EXCEPT !.verdict = "missing"]
  /\ UNCHANGED <<units, drafts, discarded>>

EndWalk ==
  /\ walk.verdict # "none"
  /\ walk' = Idle
  /\ UNCHANGED <<units, drafts, discarded>>

Walking == (\E b \in walk.queue : Visit(b)) \/ Exhausted

PublicationNext ==
  \/ \E l \in DraftLine : NewDraft(l) \/ DiscardDraft(l)
  \/ \E a \in Candidate : Publish(a) \/ PublishInline(a)
  \/ \E a \in units : StartWalk(a)
  \/ Walking
  \/ EndWalk

PublicationSpec == Init /\ [][PublicationNext]_publicationVars

----------------------------------------------------------------------------
(* Properties *)

Unresolved(a) ==
  {ref \in UNION {Parsed(a, f) : f \in Field} : Resolve(units, ref) = {}}

\* rules.go (Rule 5) and draft.go:285: a published reference that leads
\* nowhere was tolerated because its line was a draft, and stays a promise
\* until that draft is published or discarded.
DanglingIsPromised ==
  \A a \in units : ~IsDraft(a) =>
    \A ref \in Unresolved(a) : ref.version = 0 /\ LineOf(ref) \in drafts \cup discarded

\* cko.go:17-31: the publication gate leaves out the location rules and the
\* work item gates only: units accepted one by one, with no draft left open
\* or discarded, make a tree the repository gate refuses for nothing else
\* (R12 asks the index and is reported on in the violation run).
GatesAgree ==
  drafts \cup discarded = {} =>
    /\ Refusals(units) \subseteq {"R12", "R13"}
    /\ \A a \in units : R13Note(Repository(units), a)

\* Every artifact a chain of references leads to.
Reaches(a, b) ==
  \A S \in SUBSET units :
    a \in S /\ (\A c \in S : Sources(units, c) \subseteq S) => b \in S

\* rules_domain.go (Rule 10): the walk with its visited set reports exactly
\* the artifacts no chain of references leads to a higher stratum from.
ChainRuleExact ==
  /\ walk.verdict = "reached" => \E b \in units : Reaches(walk.at, b) /\ Higher(walk.at, b)
  /\ walk.verdict = "missing" => ~\E b \in units : Reaches(walk.at, b) /\ Higher(walk.at, b)

----------------------------------------------------------------------------
(* What comments of the code say, and the code does not do *)

\* rules_domain.go:31-35 (Rule 12, blocking) and validate.go:201-204 ("Every
\* other rule operates on artifact content and stays active"): no published
\* unit supersedes or amends an artifact of a higher stratum.
NothingSupersedesUpward ==
  \A a \in units : R12(Repository(units), a)

=============================================================================
