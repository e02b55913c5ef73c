------------------------ MODULE EkaPublicationProofs ------------------------
(***************************************************************************)
(* Proofs about EkaPublication for any candidates and any lines that may   *)
(* be drafted: what the publication gate promises of the units it let in   *)
(* one by one, when nobody has looked at them together.                    *)
(*                                                                         *)
(* Every unit was accepted against a part of what is published by now.     *)
(* Most rules read the unit alone, and what a reference found then it      *)
(* finds now, because nothing is taken back; what it was forgiven, because *)
(* its line was a draft, is accounted for by the drafts.                   *)
(***************************************************************************)
EXTENDS EkaPublication, EkaLemmas

\* The gate let a in, when a part of the published set was there.
WasAccepted(a) ==
  \E store \in SUBSET units, lines \in SUBSET DraftLine : Accepts(a, store, lines)

\* What the walk has seen so far is all the chains lead to but its queue.
WalkOK ==
  /\ walk.at = Nobody => walk = Idle
  /\ walk.at # Nobody =>
       /\ walk.at \in walk.visited /\ walk.visited \subseteq units
       /\ walk.queue \subseteq walk.visited
       /\ \A b \in walk.visited : Reaches(walk.at, b)
       /\ \A b \in walk.visited \ walk.queue :
            walk.verdict \in {"none", "missing"} => Sources(units, b) \subseteq walk.visited
       /\ walk.verdict \in {"none", "missing"} =>
            \A b \in walk.visited : ~Higher(walk.at, b)
       /\ walk.verdict = "missing" => walk.queue = {}
       /\ walk.verdict = "reached" =>
            \E b \in units : Reaches(walk.at, b) /\ Higher(walk.at, b)

PublicationInv ==
  /\ units \subseteq Candidate /\ drafts \subseteq DraftLine
  /\ \A a \in units : WasAccepted(a)
  /\ R1(Repository(units))
  /\ DanglingIsPromised
  /\ WalkOK

----------------------------------------------------------------------------
(* The rules *)

\* The rules a unit keeps when the gate finds nothing.
LEMMA RulesKept ==
  ASSUME NEW env, NEW a, Broken(env, a) = {}
  PROVE  /\ R0(a) /\ R2(env, a) /\ R3(a) /\ R4(a) /\ R5(env, a) /\ R6(env, a)
         /\ R7(a) /\ R8(env, a) /\ R9(env, a) /\ R11(a) /\ R13(env, a)
<1>1. R0(a)
  <2>1. "R0" \notin Broken(env, a)
    OBVIOUS
  <2> QED  BY <2>1 DEF Broken
<1>2. R2(env, a)
  <2>1. "R2" \notin Broken(env, a)
    OBVIOUS
  <2> QED  BY <2>1 DEF Broken
<1>3. R3(a)
  <2>1. "R3" \notin Broken(env, a)
    OBVIOUS
  <2> QED  BY <2>1 DEF Broken
<1>4. R4(a)
  <2>1. "R4" \notin Broken(env, a)
    OBVIOUS
  <2> QED  BY <2>1 DEF Broken
<1>5. R5(env, a)
  <2>1. "R5" \notin Broken(env, a)
    OBVIOUS
  <2> QED  BY <2>1 DEF Broken
<1>6. R6(env, a)
  <2>1. "R6" \notin Broken(env, a)
    OBVIOUS
  <2> QED  BY <2>1 DEF Broken
<1>7. R7(a)
  <2>1. "R7" \notin Broken(env, a)
    OBVIOUS
  <2> QED  BY <2>1 DEF Broken
<1>8. R8(env, a)
  <2>1. "R8" \notin Broken(env, a)
    OBVIOUS
  <2> QED  BY <2>1 DEF Broken
<1>9. R9(env, a)
  <2>1. "R9" \notin Broken(env, a)
    OBVIOUS
  <2> QED  BY <1>4, <2>1 DEF Broken
<1>10. R11(a)
  <2>1. "R11" \notin Broken(env, a)
    OBVIOUS
  <2> QED  BY <2>1 DEF Broken
<1>11. R13(env, a)
  <2>1. "R13" \notin Broken(env, a)
    OBVIOUS
  <2> QED  BY <1>4, <2>1 DEF Broken
<1> QED
  BY <1>1, <1>2, <1>3, <1>4, <1>5, <1>6, <1>7, <1>8, <1>9, <1>10, <1>11

\* The rules a unit breaks at most, when it keeps the others.
LEMMA RulesLeft ==
  ASSUME NEW env, NEW a,
         R0(a), R2(env, a), R3(a), R4(a), R5(env, a), R6(env, a), R7(a), R8(env, a),
         R9(env, a), R11(a)
  PROVE  Broken(env, a) \subseteq {"R12", "R13"}
BY DEF Broken

\* A reference that an instance answers to is resolved.
LEMMA ResolveFinds ==
  ASSUME NEW set, NEW ref, NEW b \in set, Names(ref, b),
         \A a \in set : a.version \in Nat /\ a.version >= 1
  PROVE  Resolve(set, ref) # {}
<1> DEFINE S == {a.version : a \in {c \in set : Names(ref, c)}}
<1> DEFINE T == {n \in S : n <= b.version}
<1>1. b.version \in T /\ T \subseteq 1..b.version /\ b.version \in Nat
  OBVIOUS
<1>2. PICK n \in T : \A m \in T : n <= m
  <2> HIDE DEF T
  <2> QED  BY <1>1, LeastElement
<1>3. PICK a \in set : Names(ref, a) /\ a.version = n
  BY <1>2
<1>4. ASSUME NEW c \in set, Names(ref, c)  PROVE a.version <= c.version
  <2>1. CASE c.version <= b.version
    <3>1. c.version \in T
      BY <1>4, <2>1
    <3> QED  BY <1>2, <1>3, <3>1
  <2>2. CASE ~(c.version <= b.version)
    <3>1. n <= b.version /\ n \in Nat /\ c.version \in Nat /\ b.version \in Nat
      BY <1>1, <1>2
    <3> QED  BY <1>3, <2>2, <3>1
  <2> QED  BY <2>1, <2>2
<1> QED  BY <1>3, <1>4 DEF Resolve

LEMMA ResolveNames ==
  ASSUME NEW set, NEW ref, NEW a \in Resolve(set, ref)
  PROVE  a \in set /\ Names(ref, a)
BY DEF Resolve

\* The strata are the numbers from 1 to 5.
LEMMA StratumNumber ==
  ASSUME NEW t \in Token
  PROVE  StratumOf(t) \in 1..5
<1>1. DomainForToken(t) \in EngineeringDomain
  BY DEF Token, Knowledge, WorkItem, Projection, DomainForToken, EngineeringDomain
<1> QED  BY <1>1 DEF StratumOf, Stratum, EngineeringDomain

\* A published unit can be told by its version, which is a number from 1 on.
LEMMA UnitVersions ==
  ASSUME PublicationInv
  PROVE  \A a \in units : a.version \in Nat /\ a.version >= 1 /\ a.type \in Token
<1> SUFFICES ASSUME NEW a \in units
             PROVE  a.version \in Nat /\ a.version >= 1 /\ a.type \in Token
  OBVIOUS
<1>1. PICK store \in SUBSET units, lines \in SUBSET DraftLine : Accepts(a, store, lines)
  BY DEF PublicationInv, WasAccepted
<1>2. R0(a)
  BY <1>1, RulesKept DEF Accepts
<1> QED  BY <1>2 DEF R0

----------------------------------------------------------------------------
(* The steps *)

\* A unit goes in: what others promised of its line is kept by it, and of its
\* own references the gate has forgiven none but to a draft of another line.
LEMMA UnitEnters ==
  ASSUME PublicationInv, NEW a \in Candidate,
         walk = Idle, Advances(a), Accepts(a, units, drafts),
         units' = units \cup {a}, drafts' \in {drafts, drafts \ {LineOf(a)}},
         discarded' = discarded, walk' = walk
  PROVE  PublicationInv'
<1> DEFINE env == Publication(a, units, drafts)
<1>0. /\ R0(a) /\ R5(env, a)
  BY RulesKept DEF Accepts
<1>1. /\ units' \subseteq Candidate /\ drafts' \subseteq DraftLine
      /\ \A b \in units : b.version \in Nat
      /\ \A b \in units' : b.version \in Nat /\ b.version >= 1
  BY <1>0, UnitVersions DEF PublicationInv, R0
<1>2. \A b \in units' : WasAccepted(b)'
  <2>1. ASSUME NEW b \in units  PROVE WasAccepted(b)'
    <3>1. PICK store \in SUBSET units, lines \in SUBSET DraftLine : Accepts(b, store, lines)
      BY DEF PublicationInv, WasAccepted
    <3>2. store \in SUBSET units'
      OBVIOUS
    <3> QED  BY <3>1, <3>2 DEF WasAccepted
  <2>2. WasAccepted(a)'
    <3>1. units \in SUBSET units' /\ drafts \in SUBSET DraftLine
      BY DEF PublicationInv
    <3> QED  BY <3>1 DEF WasAccepted
  <2> QED  BY <2>1, <2>2
<1>3. R1(Repository(units))'
  <2>1. \A b, c \in units : LineOf(b) = LineOf(c) /\ b.version = c.version => b = c
    BY DEF PublicationInv, R1, Repository
  <2>2. a.version \in Nat
    BY <1>1
  <2>3. \A b \in units : LineOf(b) = LineOf(a) => b.version # a.version
    BY <1>1, <2>2 DEF Advances
  <2>4. \A b, c \in units' : LineOf(b) = LineOf(c) /\ b.version = c.version => b = c
    BY <2>1, <2>3
  <2> QED  BY <2>4 DEF R1, Repository
<1>4. DanglingIsPromised'
  <2> SUFFICES ASSUME NEW b \in units', ~IsDraft(b), NEW ref \in Unresolved(b)'
               PROVE  ref.version = 0 /\ LineOf(ref) \in drafts' \cup discarded'
    BY DEF DanglingIsPromised
  <2>0. Resolve(units', ref) = {} /\ \E f \in Field : ref \in Parsed(b, f)
    BY DEF Unresolved
  <2> PICK f \in Field : ref \in Parsed(b, f)
    BY <2>0
  <2>1. \A c \in units' : ~Names(ref, c)
    BY <1>1, <2>0, ResolveFinds
  <2>2. CASE b \in units
    <3>1. Resolve(units, ref) = {}
      BY <2>1 DEF Resolve
    <3>2. ref.version = 0 /\ LineOf(ref) \in drafts \cup discarded
      BY <2>2, <3>1 DEF PublicationInv, DanglingIsPromised, Unresolved
    <3>3. LineOf(ref) # LineOf(a)
      BY <2>1, <3>2 DEF Names
    <3> QED  BY <3>2, <3>3
  <2>3. CASE b = a
    <3>1. ref \in a.rel[f]
      BY <2>3 DEF Parsed
    <3>2. Resolves(env, ref) \/ DraftTarget(env, ref)
      BY <1>0, <2>3, <3>1 DEF R5
    <3>3. ~Resolves(env, ref)
      BY <2>1 DEF Resolves, Publication
    <3>4. ref.version = 0 /\ LineOf(ref) \in drafts
      BY <3>2, <3>3 DEF DraftTarget, Publication
    <3>5. LineOf(ref) # LineOf(a)
      BY <2>1, <3>4 DEF Names
    <3> QED  BY <3>4, <3>5
  <2> QED  BY <2>2, <2>3
<1>5. WalkOK'
  BY PublicationAssumption DEF WalkOK, Idle
<1> QED  BY <1>1, <1>2, <1>3, <1>4, <1>5 DEF PublicationInv

\* What does not touch the units and takes no draft back unnoticed.
LEMMA UnitsStay ==
  ASSUME PublicationInv, units' = units, drafts' \subseteq DraftLine,
         drafts \cup discarded \subseteq drafts' \cup discarded', WalkOK'
  PROVE  PublicationInv'
<1>1. \A a \in units' : WasAccepted(a)'
  BY DEF PublicationInv, WasAccepted
<1>2. R1(Repository(units))'
  BY DEF PublicationInv, R1, Repository
<1>3. DanglingIsPromised'
  BY DEF PublicationInv, DanglingIsPromised, Unresolved
<1> QED  BY <1>1, <1>2, <1>3 DEF PublicationInv

LEMMA WalkStays ==
  ASSUME WalkOK, units' = units, walk' = walk
  PROVE  WalkOK'
BY DEF WalkOK, Reaches

LEMMA WalkStarts ==
  ASSUME PublicationInv, NEW a \in units, StartWalk(a)
  PROVE  WalkOK'
<1>1. a # Nobody
  BY PublicationAssumption DEF PublicationInv
<1>2. Reaches(a, a)
  BY DEF Reaches
<1>3. ~Higher(a, a)
  BY UnitVersions, StratumNumber DEF Higher
<1>4. /\ walk'.at = a /\ walk'.queue = {a} /\ walk'.visited = {a}
      /\ walk'.verdict \in {"none", "exempt"} /\ units' = units
  BY DEF StartWalk
<1>5. Reaches(walk.at, a)'
  BY <1>2, <1>4 DEF Reaches
<1>6. ~Higher(walk'.at, a)
  BY <1>3, <1>4
<1> QED  BY <1>1, <1>4, <1>5, <1>6 DEF WalkOK

\* The sources of what is reached are reached.
LEMMA SourcesReached ==
  ASSUME NEW a \in units, NEW b, Reaches(a, b), NEW c \in Sources(units, b)
  PROVE  c \in units /\ Reaches(a, c)
BY DEF Reaches, Sources, Resolve

LEMMA WalkVisits ==
  ASSUME PublicationInv, NEW b \in walk.queue, Visit(b)
  PROVE  WalkOK'
<1> DEFINE fresh == Sources(units, b) \ walk.visited
<1>0. /\ walk.at # Nobody /\ walk.verdict = "none" /\ units' = units
      /\ walk.at \in walk.visited /\ walk.visited \subseteq units
      /\ walk.queue \subseteq walk.visited
      /\ \A c \in walk.visited : Reaches(walk.at, c) /\ ~Higher(walk.at, c)
      /\ \A c \in walk.visited \ walk.queue : Sources(units, c) \subseteq walk.visited
  <2>1. walk.at # Nobody
    BY DEF PublicationInv, WalkOK, Idle
  <2> QED  BY <2>1 DEF PublicationInv, WalkOK, Visit
<1>1. \A c \in fresh : c \in units /\ Reaches(walk.at, c)
  BY <1>0, SourcesReached
<1>2. \A a, c : Reaches(a, c)' <=> Reaches(a, c)
  BY <1>0 DEF Reaches
<1>3. CASE \E c \in fresh : Higher(walk.at, c)
  <2>1. walk' = [walk EXCEPT !.verdict = "reached"]
    BY <1>3 DEF Visit
  <2>2. /\ walk'.at = walk.at /\ walk'.queue = walk.queue /\ walk'.visited = walk.visited
        /\ walk'.verdict = "reached"
    BY <1>0, <2>1
  <2> QED  BY <1>0, <1>1, <1>2, <1>3, <2>2 DEF WalkOK, Higher
<1>4. CASE ~\E c \in fresh : Higher(walk.at, c)
  <2>1. walk' = [walk EXCEPT !.queue = (@ \ {b}) \cup fresh, !.visited = @ \cup fresh]
    BY <1>4 DEF Visit
  <2>2. /\ walk'.at = walk.at /\ walk'.queue = (walk.queue \ {b}) \cup fresh
        /\ walk'.visited = walk.visited \cup fresh /\ walk'.verdict = "none"
    BY <1>0, <2>1
  <2>3. \A c \in walk'.visited \ walk'.queue : Sources(units', c) \subseteq walk'.visited
    BY <1>0, <2>2
  <2> HIDE DEF fresh
  <2>4. \A c \in walk'.visited : Reaches(walk.at, c) /\ ~Higher(walk.at, c)
    BY <1>0, <1>1, <1>4, <2>2
  <2>5. \A c \in walk'.visited : Reaches(walk.at, c)'
    BY <1>0, <2>2, <2>4 DEF Reaches
  <2>6. walk'.visited \subseteq units' /\ walk'.queue \subseteq walk'.visited
    BY <1>0, <1>1, <2>2
  <2> QED  BY <1>0, <2>2, <2>3, <2>4, <2>5, <2>6 DEF WalkOK, Higher
<1> QED  BY <1>3, <1>4

LEMMA WalkExhausted ==
  ASSUME PublicationInv, Exhausted
  PROVE  WalkOK'
BY DEF PublicationInv, WalkOK, Exhausted, Reaches, Higher

LEMMA WalkEnds ==
  ASSUME EndWalk
  PROVE  WalkOK'
BY DEF WalkOK, EndWalk, Idle

LEMMA PublicationStep ==
  ASSUME PublicationInv, [PublicationNext]_publicationVars
  PROVE  PublicationInv'
<1>1. ASSUME NEW l \in DraftLine, NewDraft(l) \/ DiscardDraft(l)  PROVE PublicationInv'
  <2>1. /\ units' = units /\ walk' = walk /\ drafts' \subseteq DraftLine
        /\ drafts \cup discarded \subseteq drafts' \cup discarded'
    BY <1>1 DEF PublicationInv, NewDraft, DiscardDraft
  <2>2. WalkOK'
    BY <2>1, WalkStays DEF PublicationInv
  <2> QED  BY <2>1, <2>2, UnitsStay
<1>2. ASSUME NEW a \in Candidate, Publish(a) \/ PublishInline(a)  PROVE PublicationInv'
  <2>1. /\ walk = Idle /\ Advances(a) /\ Accepts(a, units, drafts)
        /\ units' = units \cup {a} /\ drafts' \in {drafts, drafts \ {LineOf(a)}}
        /\ discarded' = discarded /\ walk' = walk
    BY <1>2 DEF Publish, PublishInline
  <2> QED  BY <2>1, UnitEnters
<1>3. ASSUME units' = units, drafts' = drafts, discarded' = discarded, WalkOK'
      PROVE  PublicationInv'
  BY <1>3, UnitsStay DEF PublicationInv
<1>4. ASSUME NEW a \in units, StartWalk(a)  PROVE PublicationInv'
  <2>1. WalkOK'
    BY <1>4, WalkStarts
  <2> QED  BY <1>3, <1>4, <2>1 DEF StartWalk
<1>5. CASE Walking
  <2>1. ASSUME NEW b \in walk.queue, Visit(b)  PROVE PublicationInv'
    <3>1. WalkOK'
      BY <2>1, WalkVisits
    <3> QED  BY <1>3, <2>1, <3>1 DEF Visit
  <2>2. CASE Exhausted
    <3>1. WalkOK'
      BY <2>2, WalkExhausted
    <3> QED  BY <1>3, <2>2, <3>1 DEF Exhausted
  <2> QED  BY <1>5, <2>1, <2>2 DEF Walking
<1>6. CASE EndWalk
  <2>1. WalkOK'
    BY <1>6, WalkEnds
  <2> QED  BY <1>3, <1>6, <2>1 DEF EndWalk
<1>7. CASE UNCHANGED publicationVars
  <2>1. WalkOK'
    BY <1>7, WalkStays DEF PublicationInv, publicationVars
  <2> QED  BY <1>3, <1>7, <2>1 DEF publicationVars
<1> QED  BY <1>1, <1>2, <1>4, <1>5, <1>6, <1>7 DEF PublicationNext

LEMMA PublicationInvHolds == PublicationSpec => []PublicationInv
<1>1. Init => PublicationInv
  BY DEF Init, PublicationInv, R1, Repository, DanglingIsPromised, WalkOK, Idle
<1>2. PublicationInv /\ [PublicationNext]_publicationVars => PublicationInv'
  BY PublicationStep
<1> QED  BY <1>1, <1>2, PTL DEF PublicationSpec

----------------------------------------------------------------------------
(* What holds of the published units *)

\* rules.go (Rule 5) and draft.go:285: whatever was tolerated when a unit was
\* published is a draft still, was discarded, or has been published by now.
THEOREM PromisesAreKept == PublicationSpec => []DanglingIsPromised
<1>1. PublicationInv => DanglingIsPromised
  BY DEF PublicationInv
<1> QED  BY <1>1, PublicationInvHolds, PTL

\* With no promise open, the repository gate finds the references of a unit too.
LEMMA ReferencesHold ==
  ASSUME PublicationInv, drafts \cup discarded = {}, NEW a \in units,
         NEW store \in SUBSET units, NEW lines, R5(Publication(a, store, lines), a)
  PROVE  R5(Repository(units), a)
<1> DEFINE env == Publication(a, store, lines)
<1> SUFFICES ASSUME NEW f \in Field
             PROVE  /\ Malformed \notin a.rel[f]
                    /\ \A ref \in a.rel[f] :
                         /\ ~SelfReference(Repository(units), a, ref)
                         /\ Resolves(Repository(units), ref) \/ IsDraft(a)
  BY DEF R5
<1>1. Malformed \notin a.rel[f]
  BY DEF R5
<1>2. ASSUME NEW ref \in a.rel[f]  PROVE ~SelfReference(Repository(units), a, ref)
  <2>1. ~Names(ref, a)
    BY <1>2 DEF R5, SelfReference, Publication
  <2> QED  BY <2>1 DEF SelfReference, Repository, Resolve
<1>3. ASSUME NEW ref \in a.rel[f], ~IsDraft(a)  PROVE Resolves(Repository(units), ref)
  <2>1. ref \in Parsed(a, f)
    BY <1>1, <1>3 DEF Parsed
  <2>2. Resolve(units, ref) # {}
    BY <1>3, <2>1 DEF PublicationInv, DanglingIsPromised, Unresolved
  <2> QED  BY <2>2 DEF Resolves, Repository
<1> QED  BY <1>1, <1>2, <1>3

\* What the store of the publication gate resolved, the repository resolves.
LEMMA FoundIsFound ==
  ASSUME PublicationInv, NEW a, NEW store \in SUBSET units, NEW lines, NEW ref,
         Resolves(Publication(a, store, lines), ref)
  PROVE  Resolves(Repository(units), ref)
<1>1. PICK b \in units : Names(ref, b)
  BY DEF Resolves, Publication
<1>2. Resolve(units, ref) # {}
  BY <1>1, UnitVersions, ResolveFinds
<1> QED  BY <1>2 DEF Resolves, Repository

LEMMA UnitAgrees ==
  ASSUME PublicationInv, drafts \cup discarded = {}, NEW a \in units
  PROVE  /\ Broken(Repository(units), a) \subseteq {"R12", "R13"}
         /\ R13Note(Repository(units), a)
<1> DEFINE rep == Repository(units)
<1>1. PICK store \in SUBSET units, lines \in SUBSET DraftLine : Accepts(a, store, lines)
  BY DEF PublicationInv, WasAccepted
<1> DEFINE env == Publication(a, store, lines)
<1>2. /\ R0(a) /\ R2(env, a) /\ R3(a) /\ R4(a) /\ R5(env, a) /\ R6(env, a)
      /\ R7(a) /\ R8(env, a) /\ R9(env, a) /\ R11(a) /\ R13(env, a)
  BY <1>1, RulesKept DEF Accepts
<1>3. InItsFile(a)
  BY PublicationAssumption DEF PublicationInv
<1>4. R2(rep, a)
  BY <1>3 DEF R2, InItsFile
<1>5. R5(rep, a)
  BY <1>2, ReferencesHold
<1>6. R6(rep, a)
  BY <1>2, <1>3 DEF R6, InItsFile
<1>7. \A ref : Resolves(env, ref) => Resolves(rep, ref)
  BY FoundIsFound
<1>8. R8(rep, a)
  <2> HIDE DEF env, rep
  <2> QED  BY <1>2, <1>7 DEF R8
<1>9. R9(rep, a)
  <2>1. ~Replaced(env, a)
    BY DEF Replaced, Publication
  <2> HIDE DEF env, rep
  <2> QED  BY <1>2, <2>1 DEF R9
<1>10. R13Note(rep, a)
  <2>1. R13Note(env, a)
    BY <1>2 DEF R13
  <2> HIDE DEF env, rep
  <2> QED  BY <1>7, <2>1 DEF R13Note
<1>11. Broken(rep, a) \subseteq {"R12", "R13"}
  BY <1>2, <1>4, <1>5, <1>6, <1>8, <1>9, RulesLeft
<1> QED  BY <1>10, <1>11

\* cko.go:17-31: units accepted one at a time, each against the store and the
\* drafts of its day, make a tree in which the repository gate can only object
\* to what the publication gate leaves to it.
THEOREM TheGatesAgree == PublicationSpec => []GatesAgree
<1>1. PublicationInv => GatesAgree
  <2> SUFFICES ASSUME PublicationInv, drafts \cup discarded = {}
               PROVE  /\ Refusals(units) \subseteq {"R12", "R13"}
                      /\ \A a \in units : R13Note(Repository(units), a)
    BY DEF GatesAgree
  <2>1. R1(Repository(units))
    BY DEF PublicationInv
  <2>2. \A a \in units : /\ Broken(Repository(units), a) \subseteq {"R12", "R13"}
                         /\ R13Note(Repository(units), a)
    BY UnitAgrees
  <2> QED  BY <2>1, <2>2 DEF Refusals
<1> QED  BY <1>1, PublicationInvHolds, PTL

\* rules_domain.go (Rule 10): on any graph of references, circles included, the
\* walk reports a missing chain exactly when there is none.
THEOREM ChainRuleIsExact == PublicationSpec => []ChainRuleExact
<1>1. PublicationInv => ChainRuleExact
  <2> SUFFICES ASSUME PublicationInv  PROVE ChainRuleExact
    OBVIOUS
  <2>1. walk.verdict \in {"reached", "missing"} => walk.at # Nobody
    BY DEF PublicationInv, WalkOK, Idle
  <2>2. ASSUME walk.verdict = "missing", NEW b \in units, Reaches(walk.at, b)
        PROVE  ~Higher(walk.at, b)
    <3>1. /\ walk.visited \in SUBSET units /\ walk.at \in walk.visited
          /\ \A c \in walk.visited : Sources(units, c) \subseteq walk.visited
          /\ \A c \in walk.visited : ~Higher(walk.at, c)
      BY <2>1, <2>2 DEF PublicationInv, WalkOK
    <3>2. b \in walk.visited
      BY <2>2, <3>1 DEF Reaches
    <3> QED  BY <3>1, <3>2
  <2>3. walk.verdict = "reached" => \E b \in units : Reaches(walk.at, b) /\ Higher(walk.at, b)
    BY <2>1 DEF PublicationInv, WalkOK
  <2> QED  BY <2>2, <2>3 DEF ChainRuleExact
<1> QED  BY <1>1, PublicationInvHolds, PTL
=============================================================================
