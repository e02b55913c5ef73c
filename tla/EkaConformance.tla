--------------------------- MODULE EkaConformance ---------------------------
(***************************************************************************)
(* The conformance rules R1-R13 over artifacts, as the two gates run them: *)
(* the repository gate (Validate) over the artifacts of a docs/ tree, and  *)
(* the publication gate (ValidateCKO) over one unit, whose references are  *)
(* resolved in the canonical store and tolerated when they lead to a draft.*)
(*                                                                         *)
(* An artifact is what the parser leaves of a file or of a unit: identity, *)
(* states, phase, classification, references, change log, the sections of  *)
(* its content.  A reference that does not parse is Malformed.  The texts  *)
(* of the findings are left out: a rule is the condition under which it    *)
(* reports nothing that blocks.                                            *)
(***************************************************************************)
EXTENDS EkaTaxonomy, FiniteSets

CONSTANT Malformed   \* a reference string that parseReference refuses

\* relationshipFields.
Field == {"amends", "supersedes", "derives-from", "depends-on", "validates",
          "discusses", "replies-to", "assigned-to"}

\* parseReference: a line, or one instance of it when version is not 0.
Ref == [ns : STRING, type : Token, id : STRING, version : Nat]

Parsed(a, field) == a.rel[field] \ {Malformed}

LineOf(x) == [ns |-> x.ns, type |-> x.type, id |-> x.id]

\* A reference names an instance of its line, or the one it is pinned to.
Names(ref, a) == LineOf(ref) = LineOf(a) /\ ref.version \in {0, a.version}

\* engine.resolve: the pinned instance, or the lowest one of the line.
Resolve(set, ref) ==
  {a \in set : /\ Names(ref, a)
               /\ \A b \in set : Names(ref, b) => a.version <= b.version}

(* What a gate sees: the artifacts it indexes, and in CKO mode the store    *)
(* behind its resolver and the lines that exist as drafts of the project.   *)
Repository(set) == [set |-> set, cko |-> FALSE, store |-> {}, drafts |-> {}]

Publication(a, store, drafts) ==
  [set |-> {a}, cko |-> TRUE, store |-> store, drafts |-> drafts]

\* Faulty variant: any instance of the line will do.
ResolvesLine(env, ref) ==
  IF env.cko THEN \E a \in env.store : LineOf(ref) = LineOf(a)
             ELSE Resolve(env.set, ref) # {}

\* resolveRef: the index of the repository, or the store's lines.
Resolves(env, ref) ==
  IF env.cko THEN \E a \in env.store : Names(ref, a) ELSE Resolve(env.set, ref) # {}

IsDraft(a) == "content-state" \in DOMAIN a.states /\ a.states["content-state"] = "draft"

----------------------------------------------------------------------------
(* Identity, states and the change log *)

\* R0 as ckoStructural mirrors it: identity components that can be used.
R0(a) == a.type \in Token /\ a.id # "" /\ a.ns # "" /\ a.version \in Nat /\ a.version >= 1

R1(env) ==
  \A a, b \in env.set : LineOf(a) = LineOf(b) /\ a.version = b.version => a = b

\* R2: the file name's token and version suffix; a unit has no file name.
R2(env, a) ==
  env.cko \/ /\ a.file.token = a.type
             /\ IF a.type \in Versioned THEN a.file.version = a.version
                                        ELSE a.file.version = 0

R3(a) ==
  /\ \A d \in DOMAIN a.states : ValidStateValue(d, a.type, a.states[d])
  /\ a.phase # "" => a.type \in Versioned /\ Member(Phases, a.phase)

R4(a) == DOMAIN a.states = Owned(a.type)

\* R6: a knowledge artifact is classified, and lies in its dimension's folder.
R6(env, a) ==
  /\ a.type \in Projection => a.dimension = "" /\ a.secondary = {}
  /\ a.type \in Knowledge => /\ a.dimension \in Dimension
                             /\ a.secondary \subseteq Dimension
                             /\ env.cko \/ a.file.folder = a.dimension

Entries(a, domain) == SelectSeq(a.log, LAMBDA e : e.domain = domain)

WellFormedEntry(a, e) ==
  /\ e.domain \in Owned(a.type) \cup (IF a.type \in Versioned THEN {"phase"} ELSE {})
  /\ e.from = "-" \/ ValidStateValue(e.domain, a.type, e.from)
  /\ ValidStateValue(e.domain, a.type, e.to)

\* R7: each present owned domain ends where the field is, over legal entries.
R7(a) ==
  LET current(d) == IF d = "phase" THEN a.phase ELSE a.states[d]
      covered == (DOMAIN a.states \cap Owned(a.type))
                   \cup (IF a.phase = "" THEN {} ELSE {"phase"})
  IN  IF a.log = <<>>
        THEN Owned(a.type) = {} /\ a.phase = ""
        ELSE /\ \A i \in DOMAIN a.log : WellFormedEntry(a, a.log[i])
             /\ \A d \in covered :
                  LET own == Entries(a, d)
                  IN  /\ own # <<>>
                      /\ own[Len(own)].to = current(d)
                      /\ \A i \in DOMAIN own :
                           IsLegalTransition(d, a.type, own[i].from, own[i].to)

\* R11: a declared domain is the type's own; a note may be contexted in any.
R11(a) ==
  a.domain = "" \/ IF a.type = "cmt" THEN a.domain \in EngineeringDomain
                                     ELSE a.domain = DomainForToken(a.type)

----------------------------------------------------------------------------
(* References *)

\* In CKO mode by identity, in repository mode by the artifact resolved.
SelfReference(env, a, ref) ==
  IF env.cko THEN Names(ref, a) ELSE Resolve(env.set, ref) = {a}

\* Faulty variant: a pinned instance is tolerated too.
DraftTargetPinned(env, ref) == env.cko /\ LineOf(ref) \in env.drafts

\* Only the publication gate knows drafts, and only a line can be one.
DraftTarget(env, ref) == env.cko /\ ref.version = 0 /\ LineOf(ref) \in env.drafts

R5(env, a) ==
  \A field \in Field :
    /\ Malformed \notin a.rel[field]
    /\ \A ref \in a.rel[field] :
         /\ ~SelfReference(env, a, ref)
         /\ Resolves(env, ref) \/ DraftTarget(env, ref) \/ IsDraft(a)

\* R8: a ticket is a projection of a container that resolves.
R8(env, a) ==
  /\ a.type = "tkt" =>
       /\ a.header
       /\ \E ref \in Parsed(a, "derives-from") : ref.type = "ctr" /\ Resolves(env, ref)
  /\ a.type = "ctr" /\ a.table => a.header

\* R9: a superseded decision is referenced by another indexed artifact.
Replaced(env, a) ==
  \E b \in env.set \ {a} : \E ref \in Parsed(b, "supersedes") :
    Resolves(env, ref) /\ Names(ref, a)

R9(env, a) ==
  /\ RequiredSections(a.type) \subseteq a.sections
  /\ a.type = "adr" /\ a.states["content-state"] = "superseded" => Replaced(env, a)

\* R10 asks a chain of every artifact but these.
Exempt(a) ==
  StratumOf(a.type) = 1 \/ a.type \in {"tkt", "ses", "cmt", "mbr"} \/ IsDraft(a)

\* What an artifact's derives-from and depends-on references resolve to.
Sources(set, a) ==
  UNION {Resolve(set, ref) : ref \in Parsed(a, "derives-from") \cup Parsed(a, "depends-on")}

\* R12: nothing supersedes or amends an indexed artifact of a higher stratum.
R12(env, a) ==
  \A field \in {"supersedes", "amends"} : \A ref \in Parsed(a, field) :
    \A b \in Resolve(env.set, ref) : StratumOf(b.type) >= StratumOf(a.type)

----------------------------------------------------------------------------
(* R13: notes, gates and assignments *)

\* validateNoteContent: one of the four roles, with exactly its keys.
NoteContract(a) == NoteKeys(a.role) # {} /\ a.sections = NoteKeys(a.role)

R13Note(env, a) ==
  a.type = "cmt" =>
    /\ NoteContract(a)
    /\ \A ref \in Parsed(a, "discusses") \cup Parsed(a, "replies-to") : Resolves(env, ref)
    /\ \A ref \in Parsed(a, "replies-to") : ref.type = "cmt"
    /\ Cardinality(a.rel["replies-to"]) <= 1

NotesDiscussing(env, a) ==
  {n \in env.set \ {a} : n.type = "cmt" /\ \E ref \in Parsed(n, "discusses") : Names(ref, a)}

Resolved(n) == n.states["note-state"] = "resolved"

Gates(env, a) ==
  LET notes == NotesDiscussing(env, a)
  IN  CASE a.states["execution-state"] = "in-review" ->
             \E n \in notes : n.role = "implementation" /\ Resolved(n)
        [] a.states["execution-state"] = "done" -> \A n \in notes : Resolved(n)
        [] OTHER -> TRUE

\* One member of the item's own repository.
Assignment(env, a) ==
  /\ Cardinality(a.rel["assigned-to"]) <= 1
  /\ \A ref \in Parsed(a, "assigned-to") :
       ref.type = "mbr" /\ Resolves(env, ref) /\ ref.ns = a.ns

\* The publication gate validates one unit and leaves the gates out.
R13(env, a) ==
  /\ R13Note(env, a)
  /\ /\ ~env.cko
     /\ a.type \in WorkItem
     /\ a.states["execution-state"] \in {"in-review", "done"}
     => Gates(env, a) /\ Assignment(env, a)

----------------------------------------------------------------------------
(* The verdict *)

(* The rules an artifact breaks.  R1 is the set's, R10 warns; a rule that    *)
(* reads a state is asked once R4 has found the state there.                 *)
Broken(env, a) ==
  {r \in {"R0", "R2", "R3", "R4", "R5", "R6", "R7", "R8", "R9", "R11", "R12", "R13"} :
     ~ CASE r = "R0" -> R0(a)
         [] r = "R2" -> R2(env, a)
         [] r = "R3" -> R3(a)
         [] r = "R4" -> R4(a)
         [] r = "R5" -> R5(env, a)
         [] r = "R6" -> R6(env, a)
         [] r = "R7" -> R7(a)
         [] r = "R8" -> R8(env, a)
         [] r = "R9" -> R4(a) => R9(env, a)
         [] r = "R11" -> R11(a)
         [] r = "R12" -> R12(env, a)
         [] r = "R13" -> R4(a) => R13(env, a)}

\* ValidateCKO.
Accepts(a, store, drafts) == Broken(Publication(a, store, drafts), a) = {}

\* Validate: what the docs/ tree of a set of artifacts is refused for.
Refusals(set) ==
  (UNION {Broken(Repository(set), a) : a \in set})
    \cup (IF R1(Repository(set)) THEN {} ELSE {"R1"})
=============================================================================
