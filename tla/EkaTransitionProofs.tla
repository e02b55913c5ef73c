------------------------ MODULE EkaTransitionProofs -------------------------
(***************************************************************************)
(* Proofs about EkaTransition for any number of authorities, lines,        *)
(* instances and notes: what holds however commands interleave.            *)
(*                                                                         *)
(* The argument follows a command.  The unit it read was published, so its *)
(* change log replays; its request is a step of the table; and only the    *)
(* route through the activation gate ends in an active container, with a   *)
(* plan that is locked already or a lock in the same batch.                *)
(* The second half is about commands that run one after the other.         *)
(***************************************************************************)
EXTENDS EkaTransition, EkaLemmas

Activating == {"refs", "scan", "lock", "batch"}

\* A plan line that was immutable at some time.
Locked(st, plan) ==
  \E g \in Form : g.line = plan /\ \E u \in st.past[g] : u.state = "immutable"

\* What a command has read replays, and its destination decides its route.
RouteOK(c) ==
  c.pc # "idle" =>
    /\ c.form \in Form /\ c.unit \in Unit /\ c.to \in State
    /\ Replays(c.form.line, c.unit)
    /\ <<c.unit.state, c.to>> \in LegalSteps(c.form.line)
    /\ c.pc \in Activating <=> (c.form.line \in Ctr /\ c.to = "active")

\* Only a batch holds a lock, and it is the lock of the container's plan.
LockOK(c) ==
  \A f \in Form : c.lock[f] # NoUnit =>
    /\ c.pc = "batch"
    /\ f.line = PlanOf[c.form.line]
    /\ c.lock[f].state = "immutable"
    /\ Replays(f.line, c.lock[f])

BatchLocks(st, c) ==
  c.pc = "batch" =>
    (\E f \in Form : c.lock[f] # NoUnit) \/ Locked(st, PlanOf[c.form.line])

\* Scanned rows do not lose their references.
RowsKnown(st, c) == \A r \in c.rows : st.head[r[1]] # NoUnit

CommandOK(st, c) == RouteOK(c) /\ LockOK(c) /\ BatchLocks(st, c) /\ RowsKnown(st, c)

TransitionInv ==
  /\ TransitionTypeOK
  /\ LogsReplay
  /\ ActiveHasLock
  /\ \A p \in Author : CommandOK(store, proc[p])

----------------------------------------------------------------------------
(* State tables *)

\* A later value of a forward-only domain is ahead of an earlier one.
LEMMA AheadOf ==
  ASSUME NEW values, NEW i \in DOMAIN values, NEW j \in DOMAIN values, i < j
  PROVE  <<values[i], values[j]>> \in Ahead(values)
<1> DEFINE s == <<i, j>>
<1>1. s \in {r \in (DOMAIN values) \X (DOMAIN values) : r[1] < r[2]}
  OBVIOUS
<1>2. <<values[i], values[j]>> = <<values[s[1]], values[s[2]]>>
  OBVIOUS
<1> QED  BY <1>1, <1>2 DEF Ahead

\* Transition accepts only steps that the validator accepts in a change log.
LEMMA RequestsAreLegal ==
  ASSUME NEW line \in Line
  PROVE  RequestSteps(line) \subseteq LegalSteps(line)
<1>1. /\ <<"draft", "approved">> \in Ahead(PlanningValues)
      /\ <<"approved", "immutable">> \in Ahead(PlanningValues)
      /\ <<"immutable", "superseded">> \in Ahead(PlanningValues)
  <2>1. DOMAIN PlanningValues = 1..4
    BY DEF PlanningValues
  <2>2. /\ PlanningValues[1] = "draft" /\ PlanningValues[2] = "approved"
        /\ PlanningValues[3] = "immutable" /\ PlanningValues[4] = "superseded"
    BY DEF PlanningValues
  <2>3. \A i, j \in 1..4 : i < j =>
          <<PlanningValues[i], PlanningValues[j]>> \in Ahead(PlanningValues)
    BY <2>1, AheadOf
  <2> QED  BY <2>2, <2>3
<1>2. /\ <<"planned", "active">> \in Ahead(ContainerValues)
      /\ <<"active", "completed">> \in Ahead(ContainerValues)
  <2>1. DOMAIN ContainerValues = 1..3
    BY DEF ContainerValues
  <2>2. /\ ContainerValues[1] = "planned" /\ ContainerValues[2] = "active"
        /\ ContainerValues[3] = "completed"
    BY DEF ContainerValues
  <2>3. \A i, j \in 1..3 : i < j =>
          <<ContainerValues[i], ContainerValues[j]>> \in Ahead(ContainerValues)
    BY <2>1, AheadOf
  <2> QED  BY <2>2, <2>3
<1>3. /\ <<"proposed", "accepted">> \in Ahead(AdrValues)
      /\ <<"accepted", "superseded">> \in Ahead(AdrValues)
  <2>1. DOMAIN AdrValues = 1..3
    BY DEF AdrValues
  <2>2. /\ AdrValues[1] = "proposed" /\ AdrValues[2] = "accepted"
        /\ AdrValues[3] = "superseded"
    BY DEF AdrValues
  <2>3. \A i, j \in 1..3 : i < j => <<AdrValues[i], AdrValues[j]>> \in Ahead(AdrValues)
    BY <2>1, AheadOf
  <2> QED  BY <2>2, <2>3
<1> QED  BY <1>1, <1>2, <1>3 DEF RequestSteps, LegalSteps

\* The lock is a step of the planning table.
LEMMA LockIsLegal ==
  ASSUME NEW plan \in Plan
  PROVE  <<"approved", "immutable">> \in LegalSteps(plan)
<1>1. DOMAIN PlanningValues = 1..4
  BY DEF PlanningValues
<1>2. PlanningValues[2] = "approved" /\ PlanningValues[3] = "immutable"
  BY DEF PlanningValues
<1>3. <<PlanningValues[2], PlanningValues[3]>> \in Ahead(PlanningValues)
  BY <1>1, AheadOf
<1> QED  BY <1>2, <1>3, LinesAssumption DEF LegalSteps

----------------------------------------------------------------------------
(* Units and lines *)

LEMMA BornReplays ==
  ASSUME NEW line \in Line
  PROVE  Born(line) \in Unit /\ Replays(line, Born(line)) /\ Born(line).state # "active"
<1>1. BirthState(line) \in State /\ BirthState(line) # "active"
  BY DEF BirthState, State
<1>2. Born(line) \in Unit
  BY <1>1 DEF Born, Unit
<1>3. Len(Born(line).log) = 0 /\ Born(line).state = BirthState(line)
  BY DEF Born
<1> QED  BY <1>1, <1>2, <1>3 DEF Replays

\* One more entry, for a step of the table, keeps a log a path of it.
LEMMA MovedReplays ==
  ASSUME NEW line \in Line, NEW u \in Unit, Replays(line, u), NEW to \in State,
         <<u.state, to>> \in LegalSteps(line), NEW author \in Author
  PROVE  /\ Moved(u, to, author) \in Unit
         /\ Replays(line, Moved(u, to, author))
         /\ Moved(u, to, author).state = to
<1> DEFINE e == [from |-> u.state, to |-> to, by |-> author]
<1> DEFINE v == Moved(u, to, author)
<1> DEFINE n == Len(u.log)
<1>1. e \in Entry /\ u.log \in Seq(Entry) /\ u.state \in State
  BY DEF Entry, Unit
<1>2. v.state = to /\ v.log = Append(u.log, e) /\ v \in Unit
  BY <1>1 DEF Moved, Unit
<1>3. n \in Nat /\ Len(v.log) = n + 1 /\ v.log[n + 1] = e
  BY <1>1, <1>2
<1>4. \A i \in 1..n : v.log[i] = u.log[i]
  BY <1>1, <1>2
<1>5. v.state = v.log[Len(v.log)].to /\ Len(v.log) # 0
  BY <1>2, <1>3
<1>6. ASSUME NEW i \in 1..(n + 1)
      PROVE  /\ v.log[i].from = (IF i = 1 THEN BirthState(line) ELSE v.log[i - 1].to)
             /\ <<v.log[i].from, v.log[i].to>> \in LegalSteps(line)
  <2>1. CASE i \in 1..n
    <3>1. v.log[i] = u.log[i] /\ (i # 1 => v.log[i - 1] = u.log[i - 1])
      BY <2>1, <1>3, <1>4
    <3> QED  BY <2>1, <3>1 DEF Replays
  <2>2. CASE i = n + 1
    <3>1. v.log[i] = e
      BY <2>2, <1>3
    <3>2. u.state = (IF n = 0 THEN BirthState(line) ELSE u.log[n].to)
      BY DEF Replays
    <3>3. n # 0 => v.log[i - 1] = u.log[n]
      BY <2>2, <1>3, <1>4
    <3>4. (i = 1) <=> (n = 0)
      BY <2>2, <1>3
    <3>5. e.from = u.state /\ e.to = to
      OBVIOUS
    <3> QED  BY <3>1, <3>2, <3>3, <3>4, <3>5
  <2> QED  BY <2>1, <2>2, <1>3
<1>7. Replays(line, v)
  <2> HIDE DEF v, n
  <2> QED  BY <1>3, <1>5, <1>6 DEF Replays
<1> QED  BY <1>2, <1>7

\* A published line has a current instance, whose reference is there.
LEMMA CurrentExists ==
  ASSUME NEW line \in Line, Published(store, line)
  PROVE  LET f == CurrentForm(store, line)
         IN  f \in Form /\ f.line = line /\ store.head[f] # NoUnit
<1> DEFINE F == {f \in Form : f.line = line /\ store.head[f] # NoUnit}
<1> DEFINE V == {f.version : f \in F}
<1>1. V \subseteq 1..MaxVersion /\ V # {}
  BY DEF Published, Form
<1>2. V \in SUBSET Nat /\ IsFiniteSet(V)
  <2>1. MaxVersion \in Int /\ 1..MaxVersion \subseteq Nat
    BY LinesAssumption
  <2>2. IsFiniteSet(1..MaxVersion)
    BY <2>1, FS_Interval
  <2> HIDE DEF V
  <2> QED  BY <1>1, <2>1, <2>2, FS_Subset
<1>3. PICK n \in V : \A m \in V : m <= n
  <2> HIDE DEF V
  <2> QED  BY <1>1, <1>2, GreatestElement
<1>4. PICK f \in F : f.version = n
  OBVIOUS
<1>5. \E g \in Form :
        /\ g.line = line /\ store.head[g] # NoUnit
        /\ \A h \in Form : h.line = line /\ store.head[h] # NoUnit => h.version <= g.version
  BY <1>3, <1>4
<1> QED  BY <1>5 DEF CurrentForm

----------------------------------------------------------------------------
(* Writes *)

Store == [head  : [Form -> Unit \cup {NoUnit}],
          past  : [Form -> SUBSET Unit],
          owner : [Form -> Repo \cup {Runtime}]]

StoreOK(st) ==
  /\ st \in Store
  /\ \A f \in Form : st.head[f] # NoUnit => st.head[f] \in st.past[f]
  /\ \A f \in Form : \A u \in st.past[f] : Replays(f.line, u)

\* What every write leaves: references stay, and the archive grows.
Grows(st, w) ==
  \A f \in Form :
    /\ st.past[f] \subseteq w.past[f]
    /\ st.head[f] # NoUnit => w.head[f] # NoUnit

\* One put of a unit that replays: the store stays sound, nothing but the unit
\* is new, and it is archived.
LEMMA WriteSound ==
  ASSUME NEW st, StoreOK(st), NEW f \in Form, NEW u \in Unit, Replays(f.line, u),
         NEW repo \in Repo \cup {Runtime}
  PROVE  LET w == Write(st, f, u, repo)
         IN  /\ StoreOK(w)
             /\ Grows(st, w)
             /\ u \in w.past[f]
             /\ \A g \in Form : \A x \in w.past[g] :
                  x \in st.past[g] \/ (g = f /\ x = u)
<1> DEFINE w == Write(st, f, u, repo)
<1>1. CASE u \in st.past[f]
  <2>1. w = st
    BY <1>1 DEF Write
  <2> QED  BY <1>1, <2>1 DEF StoreOK, Grows
<1>2. CASE u \notin st.past[f]
  <2>1. w = [head  |-> [st.head  EXCEPT ![f] = u],
             past  |-> [st.past  EXCEPT ![f] = @ \cup {u}],
             owner |-> [st.owner EXCEPT ![f] = repo]]
    BY <1>2 DEF Write
  <2>2. /\ st.head \in [Form -> Unit \cup {NoUnit}]
        /\ st.past \in [Form -> SUBSET Unit]
        /\ st.owner \in [Form -> Repo \cup {Runtime}]
    BY DEF StoreOK, Store
  <2> HIDE DEF w
  <2>3. /\ w.head  = [st.head  EXCEPT ![f] = u]
        /\ w.past  = [st.past  EXCEPT ![f] = st.past[f] \cup {u}]
        /\ w.owner = [st.owner EXCEPT ![f] = repo]
    BY <2>1
  <2>4. /\ w.head \in [Form -> Unit \cup {NoUnit}]
        /\ w.past \in [Form -> SUBSET Unit]
        /\ w.owner \in [Form -> Repo \cup {Runtime}]
    BY <2>2, <2>3
  <2>5. w \in Store
    BY <2>1, <2>2 DEF Store
  <2>6. \A g \in Form : w.head[g] = (IF g = f THEN u ELSE st.head[g])
    BY <2>2, <2>3
  <2>7. \A g \in Form : w.past[g] = (IF g = f THEN st.past[g] \cup {u} ELSE st.past[g])
    BY <2>2, <2>3
  <2>8. u # NoUnit
    BY NoUnitAssumption
  <2>9. StoreOK(w)
    BY <2>5, <2>6, <2>7 DEF StoreOK
  <2>10. Grows(st, w)
    BY <2>6, <2>7, <2>8 DEF Grows
  <2>11. u \in w.past[f]
    BY <2>7
  <2>12. \A g \in Form : \A x \in w.past[g] : x \in st.past[g] \/ (g = f /\ x = u)
    BY <2>7
  <2> QED  BY <2>9, <2>10, <2>11, <2>12 DEF w
<1> QED  BY <1>1, <1>2

\* ActiveHasLock of a store value.
LockHeld(st) ==
  \A f \in Form : f.line \in Ctr =>
    ((\E u \in st.past[f] : u.state = "active") => Locked(st, PlanOf[f.line]))

LEMMA LockedGrows ==
  ASSUME NEW st, NEW w, Grows(st, w), NEW plan, Locked(st, plan)
  PROVE  Locked(w, plan)
BY DEF Locked, Grows

\* A write that adds no active container, or adds it where its plan is locked,
\* keeps the lock of every container that was ever active.
LEMMA LocksStay ==
  ASSUME NEW st, NEW w, LockHeld(st), Grows(st, w),
         \A f \in Form : \A u \in w.past[f] :
           f.line \in Ctr /\ u.state = "active" =>
             u \in st.past[f] \/ Locked(w, PlanOf[f.line])
  PROVE  LockHeld(w)
<1> SUFFICES ASSUME NEW f \in Form, f.line \in Ctr,
                    NEW u \in w.past[f], u.state = "active"
             PROVE  Locked(w, PlanOf[f.line])
  BY DEF LockHeld
<1>1. CASE u \in st.past[f]
  BY <1>1, LockedGrows DEF LockHeld
<1>2. CASE Locked(w, PlanOf[f.line])
  BY <1>2
<1> QED  BY <1>1, <1>2

----------------------------------------------------------------------------
(* Commands *)

LEMMA IdleOK ==
  ASSUME NEW st
  PROVE  Idle \in Command /\ CommandOK(st, Idle)
<1>1. NoneRead \in [Form -> Unit \cup {NoUnit}]
  BY DEF NoneRead
<1>2. NoneRead \in [Form -> [unit : Unit, repo : Repo \cup {Runtime}] \cup {NoUnit}]
  BY DEF NoneRead
<1>3. Idle \in Command
  BY <1>1, <1>2 DEF Idle, Command, Pc
<1>4. Idle.pc = "idle" /\ Idle.rows = {} /\ \A f \in Form : Idle.lock[f] = NoUnit
  BY DEF Idle, NoneRead
<1> QED  BY <1>3, <1>4 DEF CommandOK, RouteOK, LockOK, BatchLocks, RowsKnown

\* What other commands publish does not disturb a command.
LEMMA CommandFrame ==
  ASSUME NEW st, NEW w, Grows(st, w), NEW c \in Command, CommandOK(st, c)
  PROVE  CommandOK(w, c)
<1>1. BatchLocks(w, c)
  BY LockedGrows DEF CommandOK, BatchLocks
<1>2. \A r \in c.rows : r[1] \in Form
  BY DEF Command
<1>3. RowsKnown(w, c)
  BY <1>2 DEF CommandOK, RowsKnown, Grows
<1> QED  BY <1>1, <1>3 DEF CommandOK

\* The invariant, in the terms of the lemmas above.
LEMMA InvParts ==
  TransitionInv <=>
    /\ StoreOK(store) /\ LockHeld(store)
    /\ notes \in [Note -> [draft : NoteState, unit : NoteState, put : BOOLEAN]]
    /\ proc \in [Author -> Command]
    /\ \A p \in Author : CommandOK(store, proc[p])
BY DEF TransitionInv, TransitionTypeOK, LogsReplay, ActiveHasLock, StoreOK, Store,
       LockHeld, Locked

\* A step of one command, or of none, that leaves the store and that command
\* sound.
LEMMA StepSound ==
  ASSUME TransitionInv, StoreOK(store'), LockHeld(store'), Grows(store, store'),
         notes' \in [Note -> [draft : NoteState, unit : NoteState, put : BOOLEAN]],
         proc' \in [Author -> Command],
         \A q \in Author : proc'[q] = proc[q] \/ CommandOK(store', proc'[q])
  PROVE  TransitionInv'
<1>1. ASSUME NEW q \in Author  PROVE CommandOK(store', proc'[q])
  <2>1. CASE proc'[q] = proc[q]
    <3>1. proc[q] \in Command /\ CommandOK(store, proc[q])
      BY InvParts
    <3>2. CommandOK(store', proc[q])
      BY <3>1, CommandFrame
    <3> QED  BY <2>1, <3>2
  <2>2. CASE CommandOK(store', proc'[q])
    BY <2>2
  <2> QED  BY <2>1, <2>2
<1> QED
  BY <1>1 DEF TransitionInv, TransitionTypeOK, LogsReplay, ActiveHasLock, StoreOK,
              Store, LockHeld, Locked
\* A step that changes one command only.
LEMMA CommandStep ==
  ASSUME TransitionInv, NEW p \in Author, NEW c \in Command, CommandOK(store, c),
         proc' = [proc EXCEPT ![p] = c], UNCHANGED <<store, notes>>
  PROVE  TransitionInv'
<1>1. StoreOK(store) /\ LockHeld(store) /\ proc \in [Author -> Command]
  BY InvParts
<1>2. notes \in [Note -> [draft : NoteState, unit : NoteState, put : BOOLEAN]]
  BY InvParts
<1>3. Grows(store, store)
  BY DEF Grows
<1>4. proc' \in [Author -> Command]
  BY <1>1
<1>5. \A q \in Author : proc'[q] = proc[q] \/ proc'[q] = c
  BY <1>1
<1>6. store' = store /\ notes' = notes
  OBVIOUS
<1>7. \A q \in Author : proc'[q] = proc[q] \/ CommandOK(store', proc'[q])
  BY <1>5, <1>6
<1>8. StoreOK(store') /\ LockHeld(store') /\ Grows(store, store')
  BY <1>1, <1>3, <1>6
<1> QED  BY <1>2, <1>4, <1>6, <1>7, <1>8, StepSound

LEMMA EndStep ==
  ASSUME TransitionInv, NEW p \in Author, End(p), UNCHANGED <<store, notes>>
  PROVE  TransitionInv'
<1>1. Idle \in Command /\ CommandOK(store, Idle)
  BY IdleOK
<1> QED  BY <1>1, CommandStep DEF End

\* A gate that sends the command on, without leaving or entering the
\* activation route or the batch.
LEMMA GotoStep ==
  ASSUME TransitionInv, NEW p \in Author, proc[p].pc \notin {"idle", "batch"},
         NEW pc \in Pc \ {"idle", "batch"},
         proc[p].pc \in Activating <=> pc \in Activating,
         Goto(p, pc), UNCHANGED <<store, notes>>
  PROVE  TransitionInv'
<1> DEFINE c == [proc[p] EXCEPT !.pc = pc]
<1>1. proc[p] \in Command /\ CommandOK(store, proc[p])
  BY InvParts
<1>2. c \in Command
  BY <1>1 DEF Command
<1>3. /\ c.pc = pc /\ c.form = proc[p].form /\ c.unit = proc[p].unit
      /\ c.to = proc[p].to /\ c.lock = proc[p].lock /\ c.rows = proc[p].rows
  BY <1>1 DEF Command
<1>4. proc' = [proc EXCEPT ![p] = c]
  BY DEF Goto
<1> HIDE DEF c
<1>5. RouteOK(c)
  BY <1>1, <1>3 DEF CommandOK, RouteOK
<1>6. LockOK(c)
  BY <1>1, <1>3 DEF CommandOK, LockOK
<1>7. BatchLocks(store, c) /\ RowsKnown(store, c)
  BY <1>1, <1>3 DEF CommandOK, BatchLocks, RowsKnown
<1> QED  BY <1>2, <1>4, <1>5, <1>6, <1>7, CommandStep DEF CommandOK

LEMMA DecideStep ==
  ASSUME TransitionInv, NEW p \in Author, proc[p].pc \notin {"idle", "batch"},
         NEW pc \in Pc \ {"idle", "batch"}, NEW pass,
         proc[p].pc \in Activating <=> pc \in Activating,
         Decide(p, pass, pc), UNCHANGED <<store, notes>>
  PROVE  TransitionInv'
<1>1. CASE Goto(p, pc)
  BY <1>1, GotoStep
<1>2. CASE End(p)
  BY <1>2, EndStep
<1> QED  BY <1>1, <1>2 DEF Decide

----------------------------------------------------------------------------
(* The steps of a command *)

\* The unit that is read was published, so its log replays.
LEMMA ReadLineSound ==
  ASSUME TransitionInv, NEW p \in Author, NEW line \in Line, NEW to \in State,
         NEW repo \in Repo, ReadLine(p, line, to, repo)
  PROVE  TransitionInv'
<1> DEFINE f == CurrentForm(store, line)
<1> DEFINE u == store.head[f]
<1> DEFINE open == IF line \in Item THEN OpenNotes(line) ELSE {}
<1> DEFINE c == [Idle EXCEPT !.pc = FirstGate(line, to), !.form = f, !.unit = u,
                   !.to = to, !.repo = repo, !.open = open]
<1>1. StoreOK(store) /\ proc \in [Author -> Command]
  BY InvParts
<1>2. f \in Form /\ f.line = line /\ u # NoUnit
  BY CurrentExists DEF ReadLine
<1>3. u \in Unit /\ Replays(line, u)
  BY <1>1, <1>2 DEF StoreOK, Store
<1>4. <<u.state, to>> \in RequestSteps(line)
  BY DEF ReadLine
<1>5. <<u.state, to>> \in LegalSteps(line)
  BY <1>4, RequestsAreLegal
<1>6. /\ FirstGate(line, to) \in Pc \ {"idle", "batch"}
      /\ FirstGate(line, to) \in Activating <=> (line \in Ctr /\ to = "active")
  BY LinesAssumption DEF FirstGate, Pc, Activating
<1>7. proc' = [proc EXCEPT ![p] = c] /\ UNCHANGED <<store, notes>>
  BY DEF ReadLine
<1>8. open \in SUBSET Note
  BY DEF OpenNotes
<1>9. Idle \in Command
  BY IdleOK
<1> HIDE DEF f, u, open
<1>10. c \in Command
  BY <1>2, <1>3, <1>6, <1>8, <1>9 DEF Command
<1>11. /\ c.pc = FirstGate(line, to) /\ c.form = f /\ c.unit = u /\ c.to = to
       /\ c.lock = Idle.lock /\ c.rows = Idle.rows
  BY <1>9 DEF Command
<1> HIDE DEF c
<1>12. RouteOK(c)
  BY <1>2, <1>3, <1>5, <1>6, <1>11 DEF RouteOK
<1>13. Idle.rows = {} /\ \A g \in Form : Idle.lock[g] = NoUnit
  BY DEF Idle, NoneRead
<1>14. LockOK(c) /\ BatchLocks(store, c) /\ RowsKnown(store, c)
  BY <1>6, <1>11, <1>13 DEF LockOK, BatchLocks, RowsKnown
<1> QED  BY <1>7, <1>10, <1>12, <1>14, CommandStep DEF CommandOK
\* Gates and ends: they decide where the command goes.
LEMMA GatesSound ==
  ASSUME TransitionInv, NEW p \in Author,
         \/ CollectDrafts(p) \/ ActivationGate(p) \/ CompletionGate(p)
         \/ CompletionUnread(p) \/ RetireGate(p) \/ ReplacedGate(p) \/ Stop(p)
  PROVE  TransitionInv'
<1> USE DEF Pc, Activating, At
<1>1. CASE CollectDrafts(p)
  BY <1>1, DecideStep DEF CollectDrafts
<1>2. CASE ActivationGate(p)
  BY <1>2, DecideStep DEF ActivationGate
<1>3. CASE CompletionGate(p)
  BY <1>3, DecideStep DEF CompletionGate
<1>4. CASE CompletionUnread(p)
  BY <1>4, GotoStep DEF CompletionUnread
<1>5. CASE RetireGate(p)
  BY <1>5, DecideStep DEF RetireGate
<1>6. CASE ReplacedGate(p)
  BY <1>6, DecideStep DEF ReplacedGate
<1>7. CASE Stop(p)
  BY <1>7, EndStep DEF Stop
<1> QED  BY <1>1, <1>2, <1>3, <1>4, <1>5, <1>6, <1>7

\* Reads that fill other fields of the command than those the invariant is
\* about.
LEMMA ReadsSound ==
  ASSUME TransitionInv, NEW p \in Author, NEW c \in Command,
         proc[p].pc \notin {"idle", "batch"}, c.pc \notin {"idle", "batch"},
         proc[p].pc \in Activating <=> c.pc \in Activating,
         c.form = proc[p].form, c.unit = proc[p].unit, c.to = proc[p].to,
         c.lock = proc[p].lock, RowsKnown(store, c),
         proc' = [proc EXCEPT ![p] = c], UNCHANGED <<store, notes>>
  PROVE  TransitionInv'
<1>1. CommandOK(store, proc[p])
  BY InvParts
<1>2. RouteOK(c)
  BY <1>1 DEF CommandOK, RouteOK
<1>3. LockOK(c)
  BY <1>1 DEF CommandOK, LockOK
<1>4. BatchLocks(store, c)
  BY DEF BatchLocks
<1> QED  BY <1>2, <1>3, <1>4, CommandStep DEF CommandOK

LEMMA CollectStoredSound ==
  ASSUME TransitionInv, NEW p \in Author, CollectStored(p)
  PROVE  TransitionInv'
<1> DEFINE seen == {<<n, notes[n].unit>> :
              n \in {m \in Note : NoteOn[m] = TargetOf(p) /\ notes[m].unit # "none"}}
<1> DEFINE c == [proc[p] EXCEPT !.pc = "drafts", !.seen = seen]
<1>1. proc[p] \in Command /\ CommandOK(store, proc[p])
  BY InvParts
<1>2. seen \in SUBSET (Note \X {"open", "resolved"})
  <2>1. \A n \in Note : notes[n].unit \in NoteState
    BY InvParts
  <2> QED  BY <2>1 DEF NoteState
<1>3. proc' = [proc EXCEPT ![p] = c] /\ UNCHANGED <<store, notes>> /\ proc[p].pc = "stored"
  BY DEF CollectStored, At
<1> HIDE DEF seen
<1>4. c \in Command
  BY <1>1, <1>2 DEF Command, Pc
<1>5. /\ c.pc = "drafts" /\ c.form = proc[p].form /\ c.unit = proc[p].unit
      /\ c.to = proc[p].to /\ c.lock = proc[p].lock /\ c.rows = proc[p].rows
  BY <1>1 DEF Command
<1>6. RowsKnown(store, c)
  BY <1>1, <1>5 DEF CommandOK, RowsKnown
<1> HIDE DEF c
<1> QED  BY <1>3, <1>4, <1>5, <1>6, ReadsSound DEF Activating

LEMMA MembershipSound ==
  ASSUME TransitionInv, NEW p \in Author, Membership(p)
  PROVE  TransitionInv'
<1> DEFINE c == [proc[p] EXCEPT !.pc = "put", !.warned = TRUE]
<1>1. proc[p] \in Command /\ CommandOK(store, proc[p]) /\ proc[p].pc = "member"
  BY InvParts DEF Membership, At
<1>2. UNCHANGED <<store, notes>>
  BY DEF Membership
<1>3. Goto(p, "put") \/ End(p) \/ proc' = [proc EXCEPT ![p] = c]
  BY DEF Membership
<1>4. CASE Goto(p, "put")
  BY <1>1, <1>2, <1>4, GotoStep DEF Activating, Pc
<1>5. CASE End(p)
  BY <1>2, <1>5, EndStep
<1>6. CASE proc' = [proc EXCEPT ![p] = c]
  <2>1. c \in Command
    BY <1>1 DEF Command, Pc
  <2>2. /\ c.pc = "put" /\ c.form = proc[p].form /\ c.unit = proc[p].unit
        /\ c.to = proc[p].to /\ c.lock = proc[p].lock /\ c.rows = proc[p].rows
    BY <1>1 DEF Command
  <2>3. RowsKnown(store, c)
    BY <1>1, <2>2 DEF CommandOK, RowsKnown
  <2> HIDE DEF c
  <2> QED  BY <1>1, <1>2, <1>6, <2>1, <2>2, <2>3, ReadsSound DEF Activating
<1> QED  BY <1>3, <1>4, <1>5, <1>6

\* Only forms with a reference are scanned.
LEMMA ScanRefsSound ==
  ASSUME TransitionInv, NEW p \in Author, ScanRefs(p)
  PROVE  TransitionInv'
<1> DEFINE G == {g \in Form : g.line \in Ctr /\ store.head[g] # NoUnit}
<1> DEFINE rows == {<<f, store.owner[f]>> : f \in G}
<1> DEFINE c == [proc[p] EXCEPT !.pc = "scan", !.rows = rows]
<1>1. proc[p] \in Command /\ CommandOK(store, proc[p]) /\ StoreOK(store)
  BY InvParts
<1>2. \A f \in Form : store.owner[f] \in Repo \cup {Runtime}
  BY <1>1 DEF StoreOK, Store
<1>3. /\ rows \in SUBSET (Form \X (Repo \cup {Runtime}))
      /\ \A r \in rows : store.head[r[1]] # NoUnit
  BY <1>2
<1>4. proc' = [proc EXCEPT ![p] = c] /\ UNCHANGED <<store, notes>> /\ proc[p].pc = "refs"
  BY DEF ScanRefs, At
<1> HIDE DEF rows
<1>5. c \in Command
  BY <1>1, <1>3 DEF Command, Pc
<1>6. /\ c.pc = "scan" /\ c.form = proc[p].form /\ c.unit = proc[p].unit
      /\ c.to = proc[p].to /\ c.lock = proc[p].lock /\ c.rows = rows
  BY <1>1 DEF Command
<1>7. RowsKnown(store, c)
  BY <1>3, <1>6 DEF RowsKnown
<1> HIDE DEF c
<1> QED  BY <1>4, <1>5, <1>6, <1>7, ReadsSound DEF Activating

LEMMA ScanUnitSound ==
  ASSUME TransitionInv, NEW p \in Author, ScanUnit(p)
  PROVE  TransitionInv'
<1>1. /\ proc[p] \in Command /\ CommandOK(store, proc[p]) /\ StoreOK(store)
      /\ proc[p].pc = "scan" /\ UNCHANGED <<store, notes>>
  BY InvParts DEF ScanUnit, At
<1> PICK r \in proc[p].rows :
      proc' = [proc EXCEPT ![p].rows = @ \ {r},
                 ![p].ctrs[r[1]] = [unit |-> store.head[r[1]], repo |-> r[2]]]
  BY DEF ScanUnit
<1> DEFINE e == [unit |-> store.head[r[1]], repo |-> r[2]]
<1> DEFINE ctrs == [proc[p].ctrs EXCEPT ![r[1]] = e]
<1> DEFINE c == [proc[p] EXCEPT !.rows = @ \ {r}, !.ctrs = ctrs]
<1>2. r \in Form \X (Repo \cup {Runtime})
  BY <1>1 DEF Command
<1>3. store.head[r[1]] # NoUnit
  BY <1>1 DEF CommandOK, RowsKnown
<1>4. e \in [unit : Unit, repo : Repo \cup {Runtime}]
  <2>1. store.head[r[1]] \in Unit
    BY <1>1, <1>2, <1>3 DEF StoreOK, Store
  <2> QED  BY <1>2, <2>1
<1>5. ctrs \in [Form -> [unit : Unit, repo : Repo \cup {Runtime}] \cup {NoUnit}]
  <2> HIDE DEF e
  <2>1. proc[p].ctrs \in [Form -> [unit : Unit, repo : Repo \cup {Runtime}] \cup {NoUnit}]
    BY <1>1 DEF Command
  <2> QED  BY <1>2, <1>4, <2>1
<1>6. proc' = [proc EXCEPT ![p] = c]
  OBVIOUS
<1> HIDE DEF ctrs
<1>7. c \in Command
  BY <1>1, <1>5 DEF Command
<1>8. /\ c.pc = proc[p].pc /\ c.form = proc[p].form /\ c.unit = proc[p].unit
      /\ c.to = proc[p].to /\ c.lock = proc[p].lock /\ c.rows \subseteq proc[p].rows
  BY <1>1 DEF Command
<1>9. RowsKnown(store, c)
  BY <1>1, <1>8 DEF CommandOK, RowsKnown
<1> HIDE DEF c
<1> QED  BY <1>1, <1>6, <1>7, <1>8, <1>9, ReadsSound
\* The plan is locked already, or its lock goes into the batch.
LEMMA ReadPlanSound ==
  ASSUME TransitionInv, NEW p \in Author, ReadPlan(p)
  PROVE  TransitionInv'
<1> DEFINE plan == PlanOf[TargetOf(p)]
<1> DEFINE f == CurrentForm(store, plan)
<1> DEFINE u == store.head[f]
<1> DEFINE v == Moved(u, "immutable", p)
<1>1. /\ proc[p] \in Command /\ CommandOK(store, proc[p]) /\ StoreOK(store)
      /\ proc[p].pc = "lock" /\ UNCHANGED <<store, notes>>
  BY InvParts DEF ReadPlan, At
<1>2. /\ proc[p].form \in Form /\ proc[p].form.line \in Ctr
      /\ \A g \in Form : proc[p].lock[g] = NoUnit
  BY <1>1 DEF CommandOK, RouteOK, LockOK, Activating
<1>3. plan \in Plan
  BY <1>2, TransitionAssumption DEF TargetOf
<1>4. ASSUME Published(store, plan)
      PROVE  /\ f \in Form /\ f.line = plan /\ u \in Unit /\ u \in store.past[f]
             /\ Replays(plan, u)
  <2>1. plan \in Line
    BY <1>3 DEF Line
  <2>2. f \in Form /\ f.line = plan /\ u # NoUnit
    BY <1>4, <2>1, CurrentExists
  <2> QED  BY <1>1, <2>2 DEF StoreOK, Store
<1>5. CASE InState(store, plan, "approved")
  <2> DEFINE lock == [proc[p].lock EXCEPT ![f] = v]
  <2> DEFINE c == [proc[p] EXCEPT !.pc = "batch", !.lock = lock]
  <2>1. Published(store, plan) /\ u.state = "approved"
    BY <1>5 DEF InState, Current
  <2>2. proc' = [proc EXCEPT ![p] = c]
    <3>1. proc' = [proc EXCEPT ![p].pc = "batch", ![p].lock[f] = v]
      BY <1>5 DEF ReadPlan, Current
    <3> HIDE DEF v, f
    <3> QED  BY <3>1
  <2>3. v \in Unit /\ Replays(plan, v) /\ v.state = "immutable"
    <3>1. <<u.state, "immutable">> \in LegalSteps(plan)
      BY <1>3, <2>1, LockIsLegal
    <3>2. "immutable" \in State /\ plan \in Line
      BY <1>3 DEF State, Line
    <3> HIDE DEF u, plan, f
    <3> QED  BY <1>4, <2>1, <3>1, <3>2, MovedReplays
  <2>4. v # NoUnit
    BY <2>3, NoUnitAssumption
  <2>5. f \in Form /\ f.line = plan
    BY <1>4, <2>1
  <2> HIDE DEF v, f
  <2>6. /\ lock \in [Form -> Unit \cup {NoUnit}]
        /\ \A g \in Form : lock[g] = (IF g = f THEN v ELSE NoUnit)
    <3>1. proc[p].lock \in [Form -> Unit \cup {NoUnit}]
      BY <1>1 DEF Command
    <3> QED  BY <1>2, <2>3, <2>5, <3>1
  <2> HIDE DEF lock
  <2>7. c \in Command
    BY <1>1, <2>6 DEF Command, Pc
  <2>8. /\ c.pc = "batch" /\ c.form = proc[p].form /\ c.unit = proc[p].unit
        /\ c.to = proc[p].to /\ c.lock = lock /\ c.rows = proc[p].rows
    BY <1>1 DEF Command
  <2> HIDE DEF c
  <2>9. RouteOK(c) /\ RowsKnown(store, c)
    BY <1>1, <2>8 DEF CommandOK, RouteOK, RowsKnown, Activating
  <2>10. LockOK(c)
    BY <2>3, <2>5, <2>6, <2>8 DEF LockOK, TargetOf
  <2>11. BatchLocks(store, c)
    BY <2>4, <2>5, <2>6, <2>8 DEF BatchLocks
  <2> QED  BY <1>1, <2>2, <2>7, <2>9, <2>10, <2>11, CommandStep DEF CommandOK
<1>6. CASE ~InState(store, plan, "approved") /\ InState(store, plan, "immutable")
  <2> DEFINE c == [proc[p] EXCEPT !.pc = "batch"]
  <2>1. proc' = [proc EXCEPT ![p] = c]
    BY <1>6 DEF ReadPlan, Decide, Goto
  <2>2. Locked(store, plan)
    BY <1>4, <1>6 DEF InState, Current, Locked
  <2>3. c \in Command
    BY <1>1 DEF Command, Pc
  <2>4. /\ c.pc = "batch" /\ c.form = proc[p].form /\ c.unit = proc[p].unit
        /\ c.to = proc[p].to /\ c.lock = proc[p].lock /\ c.rows = proc[p].rows
    BY <1>1 DEF Command
  <2> HIDE DEF c
  <2>5. RouteOK(c) /\ RowsKnown(store, c)
    BY <1>1, <2>4 DEF CommandOK, RouteOK, RowsKnown, Activating
  <2>6. LockOK(c)
    BY <1>2, <2>4 DEF LockOK
  <2>7. BatchLocks(store, c)
    BY <2>2, <2>4 DEF BatchLocks, TargetOf
  <2> QED  BY <1>1, <2>1, <2>3, <2>5, <2>6, <2>7, CommandStep DEF CommandOK
<1>7. CASE ~InState(store, plan, "approved") /\ ~InState(store, plan, "immutable")
  <2>1. End(p)
    BY <1>7 DEF ReadPlan, Decide
  <2> QED  BY <1>1, <2>1, EndStep
<1> QED  BY <1>5, <1>6, <1>7

\* A step that publishes and ends its command.
LEMMA PublishedAndEnded ==
  ASSUME TransitionInv, NEW p \in Author, StoreOK(store'), LockHeld(store'),
         Grows(store, store'), End(p), UNCHANGED notes
  PROVE  TransitionInv'
<1>1. Idle \in Command /\ CommandOK(store', Idle)
  BY IdleOK
<1>2. /\ proc \in [Author -> Command]
      /\ notes \in [Note -> [draft : NoteState, unit : NoteState, put : BOOLEAN]]
  BY InvParts
<1>3. proc' \in [Author -> Command] /\ \A q \in Author : proc'[q] = proc[q] \/ proc'[q] = Idle
  BY <1>1, <1>2 DEF End
<1> QED  BY <1>1, <1>2, <1>3, StepSound

\* The unit a command publishes.
LEMMA PublishedUnit ==
  ASSUME NEW p \in Author, NEW c \in Command, NEW st, CommandOK(st, c), c.pc # "idle"
  PROVE  LET u == Moved(c.unit, c.to, p)
         IN  u \in Unit /\ Replays(c.form.line, u) /\ u.state = c.to /\ c.form \in Form
<1>1. /\ c.form \in Form /\ c.unit \in Unit /\ c.to \in State
      /\ Replays(c.form.line, c.unit)
      /\ <<c.unit.state, c.to>> \in LegalSteps(c.form.line)
  BY DEF CommandOK, RouteOK
<1>2. c.form.line \in Line
  BY <1>1 DEF Form
<1> QED  BY <1>1, <1>2, MovedReplays

\* The batch: the container becomes active, and its plan is locked by then.
LEMMA ActivateSound ==
  ASSUME TransitionInv, NEW p \in Author, Activate(p)
  PROVE  TransitionInv'
<1> DEFINE c == proc[p]
<1> DEFINE u == Moved(c.unit, "active", p)
<1> DEFINE w == Write(store, c.form, u, c.repo)
<1> DEFINE locks == {f \in Form : c.lock[f] # NoUnit}
<1> DEFINE plan == PlanOf[c.form.line]
<1>1. /\ c \in Command /\ CommandOK(store, c) /\ StoreOK(store) /\ LockHeld(store)
      /\ c.pc = "batch" /\ End(p) /\ UNCHANGED notes
  BY InvParts DEF Activate, At
<1>2. c.form.line \in Ctr /\ c.to = "active"
  BY <1>1 DEF CommandOK, RouteOK, Activating
<1>3. u \in Unit /\ Replays(c.form.line, u) /\ u.state = "active" /\ c.form \in Form
  BY <1>1, <1>2, PublishedUnit
<1>4. c.repo \in Repo \cup {Runtime}
  BY <1>1 DEF Command
<1>5. /\ StoreOK(w) /\ Grows(store, w)
      /\ \A g \in Form : \A x \in w.past[g] :
           x \in store.past[g] \/ (g = c.form /\ x = u)
  BY <1>1, <1>3, <1>4, WriteSound
<1>6. CASE locks = {}
  <2>1. store' = w
    BY <1>6 DEF Activate
  <2>2. Locked(store, plan)
    BY <1>1, <1>6 DEF CommandOK, BatchLocks
  <2>3. Locked(w, plan)
    <3> HIDE DEF w, plan
    <3> QED  BY <1>5, <2>2, LockedGrows
  <2>4. LockHeld(w)
    <3> HIDE DEF w, u
    <3> QED  BY <1>1, <1>5, <2>3, LocksStay
  <2> QED  BY <1>1, <1>5, <2>1, <2>4, PublishedAndEnded
<1>7. CASE locks # {}
  <2> DEFINE f == CHOOSE g \in locks : TRUE
  <2> DEFINE l == c.lock[f]
  <2> DEFINE w2 == Write(w, f, l, c.repo)
  <2>1. store' = w2
    BY <1>7 DEF Activate
  <2>2. f \in Form /\ l # NoUnit
    BY <1>7
  <2>3. f.line = plan /\ l.state = "immutable" /\ Replays(f.line, l)
    BY <1>1, <2>2 DEF CommandOK, LockOK
  <2>4. l \in Unit
    BY <1>1, <2>2 DEF Command
  <2> HIDE DEF w, f, l, u
  <2>5. /\ StoreOK(w2) /\ Grows(w, w2) /\ l \in w2.past[f]
        /\ \A g \in Form : \A x \in w2.past[g] : x \in w.past[g] \/ (g = f /\ x = l)
    BY <1>4, <1>5, <2>2, <2>3, <2>4, WriteSound
  <2> HIDE DEF w2, plan
  <2>6. Locked(w2, plan)
    BY <2>2, <2>3, <2>5 DEF Locked
  <2>7. Grows(store, w2)
    BY <1>5, <2>5 DEF Grows
  <2>8. ASSUME NEW g \in Form, NEW x \in w2.past[g], g.line \in Ctr, x.state = "active"
        PROVE  x \in store.past[g] \/ Locked(w2, PlanOf[g.line])
    <3>1. x \in store.past[g] \/ (g = c.form /\ x = u) \/ (g = f /\ x = l)
      BY <1>5, <2>5
    <3>2. x # l
      BY <2>3, <2>8
    <3> QED  BY <2>6, <3>1, <3>2 DEF plan
  <2>9. LockHeld(w2)
    BY <1>1, <2>7, <2>8, LocksStay
  <2> QED  BY <1>1, <2>1, <2>5, <2>7, <2>9, PublishedAndEnded
<1> QED  BY <1>6, <1>7

\* Any other command publishes no active container.
LEMMA PutSound ==
  ASSUME TransitionInv, NEW p \in Author, Put(p)
  PROVE  TransitionInv'
<1> DEFINE c == proc[p]
<1> DEFINE u == Moved(c.unit, c.to, p)
<1> DEFINE w == Write(store, c.form, u, c.repo)
<1>1. /\ c \in Command /\ CommandOK(store, c) /\ StoreOK(store) /\ LockHeld(store)
      /\ c.pc = "put" /\ End(p) /\ UNCHANGED notes /\ store' = w
  BY InvParts DEF Put, At
<1>2. ~(c.form.line \in Ctr /\ c.to = "active")
  BY <1>1 DEF CommandOK, RouteOK, Activating
<1>3. u \in Unit /\ Replays(c.form.line, u) /\ u.state = c.to /\ c.form \in Form
  BY <1>1, PublishedUnit
<1>4. c.repo \in Repo \cup {Runtime}
  BY <1>1 DEF Command
<1>5. /\ StoreOK(w) /\ Grows(store, w)
      /\ \A g \in Form : \A x \in w.past[g] :
           x \in store.past[g] \/ (g = c.form /\ x = u)
  BY <1>1, <1>3, <1>4, WriteSound
<1> HIDE DEF w, u
<1>6. LockHeld(w)
  BY <1>1, <1>2, <1>3, <1>5, LocksStay
<1> QED  BY <1>1, <1>5, <1>6, PublishedAndEnded

LEMMA PublishSound ==
  ASSUME TransitionInv, NEW f \in Fresh, Publish(f)
  PROVE  TransitionInv'
<1> DEFINE u == Born(f.line)
<1> DEFINE w == Write(store, f, u, Runtime)
<1>1. StoreOK(store) /\ LockHeld(store) /\ store' = w /\ UNCHANGED <<notes, proc>>
  BY InvParts DEF Publish
<1>2. f \in Form /\ f.line \in Line
  BY TransitionAssumption DEF Form
<1>3. u \in Unit /\ Replays(f.line, u) /\ u.state # "active"
  BY <1>2, BornReplays
<1>4. /\ StoreOK(w) /\ Grows(store, w)
      /\ \A g \in Form : \A x \in w.past[g] : x \in store.past[g] \/ (g = f /\ x = u)
  BY <1>1, <1>2, <1>3, WriteSound
<1> HIDE DEF w, u
<1>5. LockHeld(w)
  BY <1>1, <1>3, <1>4, LocksStay
<1>6. /\ notes' \in [Note -> [draft : NoteState, unit : NoteState, put : BOOLEAN]]
      /\ proc' \in [Author -> Command] /\ \A q \in Author : proc'[q] = proc[q]
  BY <1>1, InvParts
<1> QED  BY <1>1, <1>4, <1>5, <1>6, StepSound

\* A command that has read and decided as another one.
SameReads(c, d) ==
  /\ d.pc = c.pc /\ d.form = c.form /\ d.unit = c.unit /\ d.to = c.to /\ d.repo = c.repo
  /\ d.seen = c.seen /\ d.rows = c.rows /\ d.ctrs = c.ctrs /\ d.lock = c.lock
  /\ d.open = c.open

\* The removal of a note's draft changes the history of the commands alone.
LEMMA RemovalSlips ==
  ASSUME TransitionInv, NEW n \in Note, RemoveNoteDraft(n)
  PROVE  /\ store' = store /\ proc' \in [Author -> Command]
         /\ \A p \in Author : /\ SameReads(proc[p], proc'[p])
                              /\ proc[p].slipped \subseteq proc'[p].slipped
                              /\ Slips(p, n) => n \in proc'[p].slipped
<1>1. proc \in [Author -> Command]
  BY InvParts
<1> DEFINE next(p) ==
      IF Slips(p, n) THEN [proc[p] EXCEPT !.slipped = @ \cup {n}] ELSE proc[p]
<1>2. store' = store /\ proc' = [p \in Author |-> next(p)]
  BY DEF RemoveNoteDraft
<1>3. ASSUME NEW p \in Author
      PROVE  /\ next(p) \in Command /\ SameReads(proc[p], next(p))
             /\ proc[p].slipped \subseteq next(p).slipped
             /\ Slips(p, n) => n \in next(p).slipped
  <2>1. proc[p] \in Command
    BY <1>1
  <2>2. CASE Slips(p, n)
    <3> DEFINE d == [proc[p] EXCEPT !.slipped = @ \cup {n}]
    <3>1. /\ d \in Command /\ SameReads(proc[p], d)
          /\ d.slipped = proc[p].slipped \cup {n}
      BY <2>1 DEF Command, SameReads
    <3>2. next(p) = d
      BY <2>2
    <3> HIDE DEF d, next
    <3> QED  BY <3>1, <3>2
  <2>3. CASE ~Slips(p, n)
    BY <2>1, <2>3 DEF SameReads
  <2> QED  BY <2>2, <2>3
<1> HIDE DEF next
<1>4. proc' \in [Author -> Command] /\ \A p \in Author : proc'[p] = next(p)
  BY <1>2, <1>3
<1> QED  BY <1>2, <1>3, <1>4

LEMMA NotesSound ==
  ASSUME TransitionInv, NEW n \in Note,
         DraftNote(n) \/ ResolveDraft(n) \/ PostNote(n) \/ RemoveNoteDraft(n)
  PROVE  TransitionInv'
<1>1. /\ store' = store /\ proc' \in [Author -> Command]
      /\ \A q \in Author : CommandOK(store, proc'[q])
  <2>1. CASE RemoveNoteDraft(n)
    <3>1. \A q \in Author : SameReads(proc[q], proc'[q]) /\ CommandOK(store, proc[q])
      BY <2>1, RemovalSlips, InvParts
    <3>2. ASSUME NEW c, NEW d, SameReads(c, d), CommandOK(store, c)
          PROVE  CommandOK(store, d)
      BY <3>2 DEF SameReads, CommandOK, RouteOK, LockOK, BatchLocks, RowsKnown
    <3> QED  BY <2>1, <3>1, <3>2, RemovalSlips
  <2>2. CASE ~RemoveNoteDraft(n)
    BY <2>2, InvParts DEF DraftNote, ResolveDraft, PostNote
  <2> QED  BY <2>1, <2>2
<1>2. notes \in [Note -> [draft : NoteState, unit : NoteState, put : BOOLEAN]]
  BY InvParts
<1> DEFINE Seen == [draft : NoteState, unit : NoteState, put : BOOLEAN]
<1>d. notes[n] \in Seen /\ "open" \in NoteState /\ "resolved" \in NoteState
      /\ "none" \in NoteState
  BY <1>2 DEF NoteState
<1>3. notes' \in [Note -> Seen]
  <2>1. PICK e \in Seen : notes' = [notes EXCEPT ![n] = e]
    <3>1. CASE DraftNote(n)
      BY <1>d, <3>1 DEF DraftNote, SetNote
    <3>2. CASE ResolveDraft(n)
      BY <1>d, <3>2 DEF ResolveDraft, SetNote
    <3>3. CASE PostNote(n)
      BY <1>d, <3>3 DEF PostNote
    <3>4. CASE RemoveNoteDraft(n)
      BY <1>d, <3>4 DEF RemoveNoteDraft
    <3> QED  BY <3>1, <3>2, <3>3, <3>4
  <2> HIDE DEF Seen
  <2> QED  BY <1>2, <2>1 DEF Seen
<1>4. StoreOK(store) /\ LockHeld(store) /\ Grows(store, store)
  BY InvParts DEF Grows
<1>5. StoreOK(store') /\ LockHeld(store') /\ Grows(store, store')
  BY <1>1, <1>4
<1>6. \A q \in Author : CommandOK(store', proc'[q])
  BY <1>1
<1> QED  BY <1>1, <1>3, <1>5, <1>6, StepSound

----------------------------------------------------------------------------
(* The theorems *)

LEMMA TransitionInvInit ==
  TransitionInit => TransitionInv
<1> SUFFICES ASSUME TransitionInit  PROVE TransitionInv
  OBVIOUS
<1>1. \A f \in Form : f.line \in Line
  BY DEF Form
<1>2. \A f \in Form : /\ Born(f.line) \in Unit /\ Replays(f.line, Born(f.line))
                      /\ Born(f.line).state # "active"
  BY <1>1, BornReplays
<1>i. PICK born \in Births :
        store = [head  |-> [f \in Form |-> IF f \in born THEN Born(f.line) ELSE NoUnit],
                 past  |-> [f \in Form |-> IF f \in born THEN {Born(f.line)} ELSE {}],
                 owner |-> [f \in Form |-> Runtime]]
  BY DEF TransitionInit
<1>3. /\ store.head = [f \in Form |-> IF f \in born THEN Born(f.line) ELSE NoUnit]
      /\ store.past = [f \in Form |-> IF f \in born THEN {Born(f.line)} ELSE {}]
      /\ store.owner = [f \in Form |-> Runtime]
  BY <1>i
<1>4. store \in Store
  <2> DEFINE head == [f \in Form |-> IF f \in born THEN Born(f.line) ELSE NoUnit]
  <2> DEFINE past == [f \in Form |-> IF f \in born THEN {Born(f.line)} ELSE {}]
  <2> DEFINE owner == [f \in Form |-> Runtime]
  <2>1. store = [head |-> head, past |-> past, owner |-> owner]
    BY <1>i
  <2>2. /\ head \in [Form -> Unit \cup {NoUnit}] /\ past \in [Form -> SUBSET Unit]
        /\ owner \in [Form -> Repo \cup {Runtime}]
    BY <1>2
  <2> HIDE DEF head, past, owner
  <2> QED  BY <2>1, <2>2 DEF Store
<1>5. StoreOK(store)
  BY <1>2, <1>3, <1>4 DEF StoreOK
<1>6. LockHeld(store)
  BY <1>2, <1>3 DEF LockHeld
<1>7. notes \in [Note -> [draft : NoteState, unit : NoteState, put : BOOLEAN]]
  BY DEF TransitionInit, NoteState
<1>8. proc \in [Author -> Command] /\ \A p \in Author : CommandOK(store, proc[p])
  <2>1. Idle \in Command /\ CommandOK(store, Idle)
    BY IdleOK
  <2> QED  BY <2>1 DEF TransitionInit
<1> QED  BY <1>5, <1>6, <1>7, <1>8, InvParts

LEMMA TransitionInvNext ==
  TransitionInv /\ [TransitionNext]_transitionVars => TransitionInv'
<1> SUFFICES ASSUME TransitionInv, [TransitionNext]_transitionVars  PROVE TransitionInv'
  OBVIOUS
<1>1. ASSUME NEW p \in Author, NEW line \in Line, NEW to \in State, NEW repo \in Repo,
             ReadLine(p, line, to, repo)
      PROVE  TransitionInv'
  BY <1>1, ReadLineSound
<1>2. ASSUME NEW p \in Author, Step(p)  PROVE TransitionInv'
  BY <1>2, GatesSound, CollectStoredSound, MembershipSound, ScanRefsSound, ScanUnitSound,
     ReadPlanSound, ActivateSound, PutSound DEF Step
<1>3. ASSUME NEW f \in Fresh, Publish(f)  PROVE TransitionInv'
  BY <1>3, PublishSound
<1>4. ASSUME NEW n \in Note,
             DraftNote(n) \/ ResolveDraft(n) \/ PostNote(n) \/ RemoveNoteDraft(n)
      PROVE  TransitionInv'
  BY <1>4, NotesSound
<1>5. CASE UNCHANGED transitionVars
  BY <1>5 DEF transitionVars, TransitionInv, TransitionTypeOK, LogsReplay, ActiveHasLock
<1> QED  BY <1>1, <1>2, <1>3, <1>4, <1>5 DEF TransitionNext

LEMMA TransitionSoundness ==
  TransitionSpec => []TransitionInv
<1> QED  BY TransitionInvInit, TransitionInvNext, PTL DEF TransitionSpec

\* The store, the notes and the commands keep their types, and references lead
\* to archived payloads, however the commands of runtime/transition.go
\* interleave.
THEOREM TransitionTypesCorrect ==
  TransitionSpec => []TransitionTypeOK
<1>1. TransitionInv => TransitionTypeOK
  BY DEF TransitionInv
<1> QED  BY <1>1, TransitionSoundness, PTL

\* Every payload ever published carries a change log that is a path of its
\* state table (conformance/state.go), for any number of concurrent commands.
THEOREM EveryLogReplays ==
  TransitionSpec => []LogsReplay
<1>1. TransitionInv => LogsReplay
  BY DEF TransitionInv
<1> QED  BY <1>1, TransitionSoundness, PTL

\* No container is ever active without a plan that was locked, whatever
\* commands run at once (the batch of runtime/container.go).
THEOREM ActivationLocks ==
  TransitionSpec => []ActiveHasLock
<1>1. TransitionInv => ActiveHasLock
  BY DEF TransitionInv
<1> QED  BY <1>1, TransitionSoundness, PTL

----------------------------------------------------------------------------
(* The note gate of done *)

\* A note is put as its draft is, and one that is published resolved has no
\* other draft.
NoteSound(e) ==
  /\ e.put => e.draft # "none" /\ e.unit = e.draft
  /\ e.unit = "resolved" => e.draft = "none" \/ e.put

\* Resolved, and it stays resolved.
Settled(e) == e.unit = "resolved" \/ (e.draft = "resolved" /\ e.unit = "none")

\* Its draft is there, and what is published is no more than the draft.
Drafted(e) == e.draft # "none" /\ (e.unit = "none" \/ e.put)

\* What the gate has seen of the notes that were open when command c began.
NotesSeen(c) ==
  /\ c.pc \notin {"stored", "drafts", "member", "put"} => c.open = {}
  /\ c.pc \in {"stored", "drafts"} => \A n \in c.open : NoteOn[n] = c.form.line
  /\ c.pc = "stored" =>
       \A n \in c.open : notes[n].draft # "none" \/ notes[n].unit # "none"
  /\ c.pc = "drafts" =>
       \A n \in c.open :
         /\ <<n, "resolved">> \in c.seen => notes[n].unit = "resolved"
         /\ \/ n \in c.slipped \/ <<n, "open">> \in c.seen
            \/ Drafted(notes[n]) \/ Settled(notes[n])
  /\ c.pc \in {"member", "put"} /\ c.to = "done" =>
       \A n \in c.open : n \in c.slipped \/ Settled(notes[n])

NotesInv ==
  /\ \A n \in Note : NoteSound(notes[n])
  /\ \A p \in Author : NotesSeen(proc[p])

\* What a step of a note leaves of it: what is resolved stays so, and only the
\* removal of a draft takes a note from what a later read of the drafts finds.
LEMMA NoteMoves ==
  ASSUME TransitionInv, NotesInv, NEW n \in Note,
         DraftNote(n) \/ ResolveDraft(n) \/ PostNote(n) \/ RemoveNoteDraft(n),
         NEW m \in Note
  PROVE  /\ NoteSound(notes'[m])
         /\ Settled(notes[m]) => Settled(notes'[m])
         /\ notes[m].unit = "resolved" => notes'[m].unit = "resolved"
         /\ (notes[m].draft # "none" \/ notes[m].unit # "none")
              => (notes'[m].draft # "none" \/ notes'[m].unit # "none")
         /\ Drafted(notes[m]) => Drafted(notes'[m]) \/ (RemoveNoteDraft(n) /\ m = n)
<1>1. /\ notes \in [Note -> [draft : NoteState, unit : NoteState, put : BOOLEAN]]
      /\ NoteSound(notes[m])
  BY InvParts DEF NotesInv
<1>2. CASE m # n
  <2>1. notes'[m] = notes[m]
    BY <1>1, <1>2 DEF DraftNote, ResolveDraft, PostNote, RemoveNoteDraft, SetNote
  <2> QED  BY <1>1, <2>1
<1>3. CASE m = n
  <2> DEFINE e == notes[n]
  <2>1. CASE DraftNote(n)
    <3>1. /\ notes'[n].draft = "open" /\ notes'[n].unit = e.unit /\ notes'[n].put = e.put
          /\ e.draft = "none" /\ e.unit # "resolved"
      BY <1>1, <2>1 DEF DraftNote, SetNote
    <3> QED  BY <1>1, <1>3, <3>1 DEF NoteSound, Settled, Drafted
  <2>2. CASE ResolveDraft(n)
    <3>1. /\ notes'[n].draft = "resolved" /\ notes'[n].unit = e.unit
          /\ notes'[n].put = e.put /\ e.draft = "open" /\ ~e.put
      BY <1>1, <2>2 DEF ResolveDraft, SetNote
    <3> QED  BY <1>1, <1>3, <3>1 DEF NoteSound, Settled, Drafted
  <2>3. CASE PostNote(n)
    <3>1. /\ notes'[n].draft = e.draft /\ notes'[n].unit = e.draft
          /\ notes'[n].put /\ e.draft # "none" /\ ~e.put
      BY <1>1, <2>3 DEF PostNote
    <3> QED  BY <1>1, <1>3, <3>1 DEF NoteSound, Settled, Drafted
  <2>4. CASE RemoveNoteDraft(n)
    <3>1. /\ notes'[n].draft = "none" /\ notes'[n].unit = e.unit
          /\ ~notes'[n].put /\ e.put
      BY <1>1, <2>4 DEF RemoveNoteDraft
    <3> QED  BY <1>1, <1>3, <2>4, <3>1 DEF NoteSound, Settled, Drafted
  <2> QED  BY <2>1, <2>2, <2>3, <2>4
<1> QED  BY <1>2, <1>3

\* A note that leaves the drafts has slipped through the gates that read the
\* store without it.
LEMMA NoteStepSeen ==
  ASSUME TransitionInv, NotesInv, NEW n \in Note,
         DraftNote(n) \/ ResolveDraft(n) \/ PostNote(n) \/ RemoveNoteDraft(n)
  PROVE  NotesInv'
<1>1. proc \in [Author -> Command]
  BY InvParts
<1>2. ASSUME NEW p \in Author  PROVE NotesSeen(proc[p])'
  <2> DEFINE c == proc[p]
             d == proc'[p]
  <2>1. c \in Command /\ NotesSeen(c) /\ c.open \subseteq Note
    BY <1>1 DEF NotesInv, Command
  <2>2. /\ d.pc = c.pc /\ d.open = c.open /\ d.form = c.form /\ d.to = c.to
        /\ d.seen = c.seen /\ c.slipped \subseteq d.slipped
        /\ RemoveNoteDraft(n) /\ Slips(p, n) => n \in d.slipped
    <3>1. CASE RemoveNoteDraft(n)
      BY <3>1, RemovalSlips DEF SameReads
    <3>2. CASE ~RemoveNoteDraft(n)
      <4>1. proc' = proc
        BY <3>2 DEF DraftNote, ResolveDraft, PostNote
      <4> QED  BY <3>2, <4>1
    <3> QED  BY <3>1, <3>2
  <2>3. ASSUME NEW m \in d.open, d.pc = "drafts"
        PROVE  /\ <<m, "resolved">> \in d.seen => notes'[m].unit = "resolved"
               /\ \/ m \in d.slipped \/ <<m, "open">> \in d.seen
                  \/ Drafted(notes'[m]) \/ Settled(notes'[m])
    <3>1. /\ m \in Note /\ c.pc = "drafts" /\ m \in c.open
          /\ <<m, "resolved">> \in c.seen => notes[m].unit = "resolved"
          /\ \/ m \in c.slipped \/ <<m, "open">> \in c.seen
             \/ Drafted(notes[m]) \/ Settled(notes[m])
      BY <2>1, <2>2, <2>3 DEF NotesSeen
    <3>2. /\ Settled(notes[m]) => Settled(notes'[m])
          /\ notes[m].unit = "resolved" => notes'[m].unit = "resolved"
          /\ Drafted(notes[m]) => Drafted(notes'[m]) \/ (RemoveNoteDraft(n) /\ m = n)
      BY <3>1, NoteMoves
    <3>3. ASSUME RemoveNoteDraft(n), m = n
          PROVE  \/ m \in d.slipped \/ <<m, "open">> \in d.seen \/ Settled(notes'[m])
      <4>1. CASE \A s \in c.seen : s[1] # n
        BY <2>2, <3>1, <3>3, <4>1 DEF Slips, At
      <4>2. CASE \E s \in c.seen : s[1] = n
        <5>1. <<n, "open">> \in c.seen \/ <<n, "resolved">> \in c.seen
          BY <2>1, <4>2 DEF Command
        <5> QED  BY <2>2, <3>1, <3>2, <3>3, <5>1 DEF Settled
      <4> QED  BY <4>1, <4>2
    <3> QED  BY <2>2, <3>1, <3>2, <3>3
  <2>4. \A m \in d.open :
          /\ (notes[m].draft # "none" \/ notes[m].unit # "none")
               => (notes'[m].draft # "none" \/ notes'[m].unit # "none")
          /\ Settled(notes[m]) => Settled(notes'[m])
    BY <2>1, <2>2, NoteMoves
  <2>5. d.pc \notin {"stored", "drafts", "member", "put"} => d.open = {}
    BY <2>1, <2>2 DEF NotesSeen
  <2>6. d.pc \in {"stored", "drafts"} => \A m \in d.open : NoteOn[m] = d.form.line
    BY <2>1, <2>2 DEF NotesSeen
  <2>7. d.pc = "stored" =>
          \A m \in d.open : notes'[m].draft # "none" \/ notes'[m].unit # "none"
    BY <2>1, <2>2, <2>4 DEF NotesSeen
  <2>8. d.pc \in {"member", "put"} /\ d.to = "done" =>
          \A m \in d.open : m \in d.slipped \/ Settled(notes'[m])
    BY <2>1, <2>2, <2>4 DEF NotesSeen
  <2> QED  BY <2>3, <2>5, <2>6, <2>7, <2>8 DEF NotesSeen, Settled, Drafted
<1>3. \A m \in Note : NoteSound(notes'[m])
  BY NoteMoves
<1> QED  BY <1>2, <1>3 DEF NotesInv, NotesSeen, NoteSound, Settled, Drafted

\* A step of a command whose notes are those they were.
LEMMA CommandSeen ==
  ASSUME NotesInv, notes' = notes, proc \in [Author -> Command], NEW p \in Author,
         NEW c, proc' = [proc EXCEPT ![p] = c], NotesSeen(c)
  PROVE  NotesInv'
<1>1. ASSUME NEW q \in Author  PROVE NotesSeen(proc[q])'
  <2>1. NotesSeen(proc'[q])
    BY DEF NotesInv
  <2> QED  BY <2>1 DEF NotesSeen, Settled, Drafted
<1> QED  BY <1>1 DEF NotesInv, NoteSound

LEMMA StepSeen ==
  ASSUME TransitionInv, NotesInv, NEW p \in Author, Step(p)
  PROVE  NotesInv'
<1> DEFINE o == proc[p]
<1>1. proc \in [Author -> Command] /\ o \in Command /\ NotesSeen(o) /\ notes' = notes
  BY InvParts DEF NotesInv, Step, CollectStored, CollectDrafts, Membership, ScanRefs, ScanUnit,
     ActivationGate, ReadPlan, Activate, CompletionGate, CompletionUnread, RetireGate,
     ReplacedGate, Put, Stop
<1>2. CASE End(p)
  <2>1. NotesSeen(Idle)
    BY DEF NotesSeen, Idle
  <2> QED  BY <1>1, <1>2, <2>1, CommandSeen DEF End
<1>3. CASE ~End(p) /\ CollectStored(p)
  <2> DEFINE seen == {<<n, notes[n].unit>> :
                n \in {m \in Note : NoteOn[m] = TargetOf(p) /\ notes[m].unit # "none"}}
             c == [o EXCEPT !.pc = "drafts", !.seen = seen]
  <2>1. proc' = [proc EXCEPT ![p] = c] /\ o.pc = "stored"
    BY <1>3 DEF CollectStored, At
  <2>2. /\ c.pc = "drafts" /\ c.open = o.open /\ c.form = o.form /\ c.to = o.to
        /\ c.seen = seen /\ o.open \subseteq Note
    BY <1>1 DEF Command
  <2>3. ASSUME NEW n \in o.open
        PROVE  /\ <<n, "resolved">> \in seen => notes[n].unit = "resolved"
               /\ \/ <<n, "open">> \in seen \/ Drafted(notes[n]) \/ Settled(notes[n])
    <3>1. /\ NoteOn[n] = TargetOf(p) /\ NoteSound(notes[n]) /\ n \in Note
          /\ notes[n].draft # "none" \/ notes[n].unit # "none"
      BY <1>1, <2>1, <2>2, <2>3 DEF NotesSeen, NotesInv, TargetOf
    <3>2. notes[n].unit \in {"none", "open", "resolved"}
      BY <3>1, InvParts DEF NoteState
    <3>3. notes[n].unit = "open" => <<n, "open">> \in seen
      BY <3>1
    <3> HIDE DEF seen, c
    <3>4. notes[n].unit # "open" => Drafted(notes[n]) \/ Settled(notes[n])
      BY <3>1, <3>2 DEF NoteSound, Drafted, Settled
    <3>5. <<n, "resolved">> \in seen => notes[n].unit = "resolved"
      BY DEF seen
    <3> QED  BY <3>3, <3>4, <3>5
  <2> HIDE DEF c, seen
  <2>4. NotesSeen(c)
    BY <1>1, <2>1, <2>2, <2>3 DEF NotesSeen
  <2> QED  BY <1>1, <2>1, <2>4, CommandSeen
<1>4. CASE ~End(p) /\ CollectDrafts(p)
  <2> DEFINE drafts == {<<n, notes[n].draft>> :
                n \in {m \in Note : NoteOn[m] = TargetOf(p) /\ notes[m].draft # "none"}}
             c == [o EXCEPT !.pc = "member"]
  <2>1. /\ proc' = [proc EXCEPT ![p] = c] /\ o.pc = "drafts"
        /\ NotesPass(o.to, o.seen \cup drafts)
    BY <1>4 DEF CollectDrafts, At, Decide, Goto
  <2>2. c.pc = "member" /\ c.open = o.open /\ c.form = o.form /\ c.to = o.to
        /\ c.slipped = o.slipped /\ o.open \subseteq Note
    BY <1>1 DEF Command
  <2>3. ASSUME o.to = "done", NEW n \in o.open, n \notin o.slipped
        PROVE  Settled(notes[n])
    <3>1. /\ NoteOn[n] = TargetOf(p) /\ n \in Note /\ NoteSound(notes[n])
          /\ <<n, "open">> \in o.seen \/ Drafted(notes[n]) \/ Settled(notes[n])
      BY <1>1, <2>1, <2>2, <2>3 DEF NotesSeen, NotesInv, TargetOf
    <3>2. CASE <<n, "open">> \in o.seen
      <4> HIDE DEF drafts
      <4> QED  BY <2>1, <2>3, <3>2 DEF NotesPass
    <3>3. CASE Drafted(notes[n])
      <4>1. <<n, notes[n].draft>> \in drafts
        BY <3>1, <3>3 DEF Drafted
      <4> HIDE DEF drafts
      <4>2. notes[n].draft = "resolved"
        BY <2>1, <2>3, <4>1 DEF NotesPass
      <4> QED  BY <3>1, <3>3, <4>2 DEF NoteSound, Drafted, Settled
    <3> QED  BY <3>1, <3>2, <3>3
  <2> HIDE DEF c, drafts
  <2>4. NotesSeen(c)
    BY <2>2, <2>3 DEF NotesSeen
  <2> QED  BY <1>1, <2>1, <2>4, CommandSeen
<1>5. CASE ~End(p) /\ Membership(p)
  <2> PICK w \in BOOLEAN :
        proc' = [proc EXCEPT ![p] = [o EXCEPT !.pc = "put", !.warned = w]]
    <3>1. \/ proc' = [proc EXCEPT ![p] = [o EXCEPT !.pc = "put"]]
          \/ proc' = [proc EXCEPT ![p] = [o EXCEPT !.pc = "put", !.warned = TRUE]]
      BY <1>5 DEF Membership, Goto
    <3>2. [o EXCEPT !.pc = "put"] = [o EXCEPT !.pc = "put", !.warned = o.warned]
          /\ o.warned \in BOOLEAN
      BY <1>1 DEF Command
    <3> QED  BY <3>1, <3>2
  <2> DEFINE c == [o EXCEPT !.pc = "put", !.warned = w]
  <2>1. /\ c.pc = "put" /\ c.open = o.open /\ c.form = o.form /\ c.to = o.to
        /\ c.slipped = o.slipped /\ o.pc = "member"
    BY <1>1, <1>5 DEF Command, Membership, At
  <2> HIDE DEF c
  <2>2. NotesSeen(c)
    BY <1>1, <2>1 DEF NotesSeen
  <2> QED  BY <1>1, <2>2, CommandSeen DEF c
\* The other gates are those of lines that no note is on.
<1>6. CASE ~End(p) /\ ~CollectStored(p) /\ ~CollectDrafts(p) /\ ~Membership(p)
  <2>1. o.pc \notin {"stored", "drafts", "member", "put"}
    BY <1>6 DEF Step, ScanRefs, ScanUnit, ActivationGate, ReadPlan, Activate, CompletionGate,
       CompletionUnread, RetireGate, ReplacedGate, Put, Stop, At
  <2>2. o.open = {}
    BY <1>1, <2>1 DEF NotesSeen
  <2>3. ASSUME NEW c, proc' = [proc EXCEPT ![p] = c], c.open = {}  PROVE NotesInv'
    BY <1>1, <2>3, CommandSeen DEF NotesSeen
  <2>4. ASSUME NEW pc, Goto(p, pc)  PROVE NotesInv'
    <3> DEFINE c == [o EXCEPT !.pc = pc]
    <3>1. proc' = [proc EXCEPT ![p] = c] /\ c.open = {}
      BY <1>1, <2>2, <2>4 DEF Goto, Command
    <3> QED  BY <2>3, <3>1
  <2>5. CASE \/ ActivationGate(p) \/ CompletionGate(p) \/ CompletionUnread(p)
             \/ RetireGate(p) \/ ReplacedGate(p)
    BY <1>6, <2>4, <2>5 DEF ActivationGate, CompletionGate, CompletionUnread, RetireGate,
       ReplacedGate, Decide
  <2>6. CASE ScanRefs(p)
    <3> PICK rows : proc' = [proc EXCEPT ![p].pc = "scan", ![p].rows = rows]
      BY <2>6 DEF ScanRefs
    <3> DEFINE c == [o EXCEPT !.pc = "scan", !.rows = rows]
    <3>1. proc' = [proc EXCEPT ![p] = c] /\ c.open = {}
      BY <1>1, <2>2 DEF Command
    <3> QED  BY <2>3, <3>1
  <2>7. CASE ScanUnit(p)
    <3> PICK r, e : proc' = [proc EXCEPT ![p].rows = @ \ {r}, ![p].ctrs[r[1]] = e]
      BY <2>7 DEF ScanUnit
    <3> DEFINE c == [o EXCEPT !.rows = @ \ {r}, !.ctrs[r[1]] = e]
    <3>1. proc' = [proc EXCEPT ![p] = c] /\ c.open = {}
      BY <1>1, <2>2 DEF Command
    <3> QED  BY <2>3, <3>1
  <2>8. CASE ReadPlan(p)
    <3>1. \/ Goto(p, "batch")
          \/ \E f, l : proc' = [proc EXCEPT ![p].pc = "batch", ![p].lock[f] = l]
      BY <1>6, <2>8 DEF ReadPlan, Decide
    <3>2. ASSUME NEW f, NEW l, proc' = [proc EXCEPT ![p].pc = "batch", ![p].lock[f] = l]
          PROVE  NotesInv'
      <4> DEFINE c == [o EXCEPT !.pc = "batch", !.lock[f] = l]
      <4>1. proc' = [proc EXCEPT ![p] = c] /\ c.open = {}
        BY <1>1, <2>2, <3>2 DEF Command
      <4> QED  BY <2>3, <4>1
    <3> QED  BY <2>4, <3>1, <3>2
  <2> QED  BY <1>6, <2>5, <2>6, <2>7, <2>8 DEF Step, Activate, Put, Stop
<1> QED  BY <1>2, <1>3, <1>4, <1>5, <1>6

LEMMA NotesNext ==
  TransitionInv /\ NotesInv /\ [TransitionNext]_transitionVars => NotesInv'
<1> SUFFICES ASSUME TransitionInv, NotesInv, [TransitionNext]_transitionVars
             PROVE  NotesInv'
  OBVIOUS
<1>0. proc \in [Author -> Command]
  BY InvParts
<1>1. ASSUME NEW p \in Author, NEW line \in Line, NEW to \in State, NEW repo \in Repo,
             ReadLine(p, line, to, repo)
      PROVE  NotesInv'
  <2> DEFINE open == IF line \in Item THEN OpenNotes(line) ELSE {}
             f == CurrentForm(store, line)
             u == store.head[f]
             c == [Idle EXCEPT !.pc = FirstGate(line, to), !.form = f, !.unit = u,
                     !.to = to, !.repo = repo, !.open = open]
  <2>1. proc' = [proc EXCEPT ![p] = c] /\ notes' = notes /\ f.line = line
    BY <1>1, CurrentExists DEF ReadLine
  <2>2. c.pc = FirstGate(line, to) /\ c.open = open /\ c.form = f
    BY DEF Idle
  <2>3. line \in Item => FirstGate(line, to) = "stored"
    BY DEF FirstGate
  <2>4. \A n \in open : /\ NoteOn[n] = line
                       /\ (notes[n].draft # "none" \/ notes[n].unit # "none")
    BY DEF OpenNotes
  <2>5. line \notin Item => open = {}
    OBVIOUS
  <2>6. FirstGate(line, to) # "drafts" /\ FirstGate(line, to) # "member"
    BY DEF FirstGate
  <2> HIDE DEF open, c, f
  <2>7. NotesSeen(c)
    BY <2>1, <2>2, <2>3, <2>4, <2>5, <2>6 DEF NotesSeen
  <2> QED  BY <1>0, <2>1, <2>7, CommandSeen
<1>2. ASSUME NEW f \in Fresh, Publish(f)  PROVE NotesInv'
  BY <1>2 DEF Publish, NotesInv, NotesSeen, NoteSound, Settled, Drafted
<1>3. CASE UNCHANGED transitionVars
  BY <1>3 DEF transitionVars, NotesInv, NotesSeen, NoteSound, Settled, Drafted
<1> QED  BY <1>1, <1>2, <1>3, StepSeen, NoteStepSeen DEF TransitionNext

\* transition.go:172-173: no command passes the gate of done past a note that
\* was open when it began and still is, with any number of authorities and
\* notes, and drafts written, resolved, published and removed between its
\* reads, but for a note that its first read of the gate did not find and whose
\* draft was removed before the second.
THEOREM DoneGateSeesNotes ==
  TransitionSpec => []DoneSeesOpenNotes
<1>1. TransitionInit => NotesInv
  BY DEF TransitionInit, NotesInv, NotesSeen, NoteSound, Idle
<1>2. TransitionInv /\ NotesInv => DoneSeesOpenNotes
  <2> SUFFICES ASSUME TransitionInv, NotesInv, NEW p \in Author, At(p, "put"),
                      proc[p].to = "done",
                      NEW n \in proc[p].open \cap OpenNotes(TargetOf(p))
               PROVE  n \in proc[p].slipped
    BY DEF DoneSeesOpenNotes
  <2>1. n \in Note /\ "open" \in {notes[n].draft, notes[n].unit}
    BY DEF OpenNotes
  <2>2. n \in proc[p].slipped \/ Settled(notes[n])
    BY DEF NotesInv, NotesSeen, At
  <2> QED  BY <2>1, <2>2 DEF NotesInv, NoteSound, Settled
<1>3. TransitionInv /\ NotesInv /\ [TransitionNext]_transitionVars => NotesInv'
  BY NotesNext
<1> QED  BY <1>1, <1>2, <1>3, TransitionSoundness, PTL DEF TransitionSpec

----------------------------------------------------------------------------
(***************************************************************************)
(* Proofs about EkaTransition for commands that run one after the other,   *)
(* each interrupted anywhere, while units are published and notes drafted, *)
(* posted and resolved between its reads.                                  *)
(*                                                                         *)
(* The argument: what a command has read still holds when it publishes.    *)
(* Nobody else moves a state, and what is published by other means is a    *)
(* first instance or a next one, born in a state no gate asks for.  So the *)
(* scan of the activation gate misses no active container, and the unit a  *)
(* command appends its entry to is the one its put replaces.               *)
(***************************************************************************)

----------------------------------------------------------------------------
(* Commands one after the other *)

\* One authority runs one command at a time.  Publications by other means are
\* not held up by it: they interleave with the command.
OneAuthority == \A p, q \in Author : p = q

\* No plan line is new while the commands run: plan closures stay as they are.
ClosuresFixed == \A f \in Fresh : f.line \in Plan => f.version # 1

\* The current instance of its line.
IsCurrent(st, f) ==
  /\ st.head[f] # NoUnit
  /\ \A g \in Form : g.line = f.line /\ st.head[g] # NoUnit => g.version <= f.version

CurrentIn(st, s) == {f \in Form : IsCurrent(st, f) /\ st.head[f].state = s}

ActiveForms(st) == {f \in CurrentIn(st, "active") : f.line \in Ctr}

\* An active container is of another repository than repo, and its plan is
\* unrelated to that of container c.
Unrelated(st, f, c, repo) ==
  /\ st.owner[f] # repo
  /\ ClosuresFixed => ~Intersects(c, f.line)

\* Active containers are pairwise unrelated.
ActiveApart ==
  \A f, g \in ActiveForms(store) :
    f.line # g.line => Unrelated(store, g, f.line, store.owner[f])

RetiredIdle ==
  \A q \in CurrentIn(store, "superseded"), f \in ActiveForms(store) :
    q.line # PlanOf[f.line]

HasReplacement(st, a) == \E s \in Supersedes : s[2] = a /\ Published(st, s[1])

Replaced ==
  \A a \in CurrentIn(store, "superseded") : a.line \in Adr => HasReplacement(store, a.line)

\* Where the gates of a line's type are.
AtItsGate(c) ==
  /\ c.pc \in {"stored", "drafts", "member"} => c.form.line \in Item
  /\ c.pc \in {"refs", "scan", "lock", "batch", "items"} => c.form.line \in Ctr
  /\ c.pc = "retire" => c.form.line \in Plan
  /\ c.pc = "replaced" => c.form.line \in Adr

\* What a command has read is what the store holds.
ReadIsCurrent(c) ==
  /\ c.pc # "idle" => store.head[c.form] = c.unit
  /\ \A r \in c.rows : store.head[r[1]] # NoUnit /\ r[2] = store.owner[r[1]]
  /\ \A f \in Form : c.ctrs[f] # NoUnit => store.head[f] # NoUnit
  /\ \A f \in Form : c.lock[f] # NoUnit =>
       /\ store.head[f] # NoUnit
       /\ \E p \in Author : c.lock[f] = Moved(store.head[f], "immutable", p)

\* The scan misses no active container.
ScanSees(c) ==
  c.pc = "scan" =>
    \A g \in ActiveForms(store) : g.line # c.form.line =>
      \/ <<g, store.owner[g]>> \in c.rows
      \/ c.ctrs[g] = [unit |-> store.head[g], repo |-> store.owner[g]]

\* What a gate has seen still holds when its command publishes.
GateHolds(c) ==
  /\ c.pc \in {"lock", "batch"} =>
       \A g \in ActiveForms(store) : g.line # c.form.line =>
         Unrelated(store, g, c.form.line, c.repo)
  /\ c.pc = "batch" =>
       \A q \in CurrentIn(store, "superseded") : q.line # PlanOf[c.form.line]
  /\ c.pc = "put" /\ c.to = "superseded" /\ c.form.line \in Plan =>
       \A f \in ActiveForms(store) : PlanOf[f.line] # c.form.line
  /\ c.pc = "put" /\ c.to = "superseded" /\ c.form.line \in Adr =>
       HasReplacement(store, c.form.line)

Serial(c) == AtItsGate(c) /\ ReadIsCurrent(c) /\ ScanSees(c) /\ GateHolds(c)

SerialInv ==
  /\ ActiveApart /\ RetiredIdle /\ Replaced
  /\ \A p \in Author : Serial(proc[p])

\* The current instance is the only one of its line.
LEMMA CurrentUnique ==
  ASSUME NEW st, NEW f \in Form, NEW g \in Form, IsCurrent(st, f), IsCurrent(st, g),
         f.line = g.line
  PROVE  f = g
<1>1. f.version <= g.version /\ g.version <= f.version
  BY DEF IsCurrent
<1>2. f.version \in 1..MaxVersion /\ g.version \in 1..MaxVersion /\ MaxVersion \in Nat
  BY LinesAssumption DEF Form
<1>3. f.version = g.version
  BY <1>1, <1>2
<1> QED  BY <1>3 DEF Form

LEMMA CurrentIsCurrent ==
  ASSUME NEW st, NEW line \in Line, Published(st, line)
  PROVE  LET f == CurrentForm(st, line)
         IN  f \in Form /\ f.line = line /\ IsCurrent(st, f)
<1> DEFINE P(f) == /\ f.line = line /\ st.head[f] # NoUnit
                   /\ \A g \in Form : g.line = line /\ st.head[g] # NoUnit
                        => g.version <= f.version
<1> DEFINE F == {f \in Form : f.line = line /\ st.head[f] # NoUnit}
<1> DEFINE V == {f.version : f \in F}
<1>1. V \subseteq 1..MaxVersion /\ V # {}
  BY DEF Published, Form
<1>2. V \in SUBSET Nat /\ IsFiniteSet(V)
  <2>1. MaxVersion \in Int /\ 1..MaxVersion \subseteq Nat
    BY LinesAssumption
  <2>2. IsFiniteSet(1..MaxVersion)
    BY <2>1, FS_Interval
  <2> HIDE DEF V
  <2> QED  BY <1>1, <2>1, <2>2, FS_Subset
<1>3. PICK n \in V : \A m \in V : m <= n
  <2> HIDE DEF V
  <2> QED  BY <1>1, <1>2, GreatestElement
<1>4. PICK f \in F : f.version = n
  OBVIOUS
<1>5. \E g \in Form : P(g)
  BY <1>3, <1>4
<1>6. CurrentForm(st, line) = CHOOSE g \in Form : P(g)
  BY DEF CurrentForm
<1> HIDE DEF P
<1>7. CurrentForm(st, line) \in Form /\ P(CurrentForm(st, line))
  BY <1>5, <1>6
<1> QED  BY <1>7 DEF P, IsCurrent

\* InState, in terms of current forms.
LEMMA InStateForms ==
  ASSUME NEW st, NEW line \in Line, NEW s
  PROVE  InState(st, line, s) <=> \E f \in CurrentIn(st, s) : f.line = line
<1>1. ASSUME InState(st, line, s)
      PROVE  CurrentForm(st, line) \in CurrentIn(st, s)
             /\ CurrentForm(st, line).line = line
  BY <1>1, CurrentIsCurrent DEF InState, Current, CurrentIn
<1>2. ASSUME NEW f \in CurrentIn(st, s), f.line = line
      PROVE  InState(st, line, s)
  <2>1. Published(st, line)
    BY <1>2 DEF CurrentIn, IsCurrent, Published
  <2>2. f = CurrentForm(st, line)
    BY <1>2, <2>1, CurrentIsCurrent, CurrentUnique DEF CurrentIn
  <2> QED  BY <1>2, <2>1, <2>2 DEF InState, Current, CurrentIn
<1> QED  BY <1>1, <1>2

\* Closures depend on the store through the plans that are published.
LEMMA ClosureSame ==
  ASSUME \A x \in Plan : Published(store', x) <=> Published(store, x)
  PROVE  \A c, d : Intersects(c, d)' <=> Intersects(c, d)
BY DEF Intersects, Closure

\* References that are not new stay where they are.
Kept(st, w) ==
  \A f \in Form : st.head[f] # NoUnit => w.head[f] = st.head[f] /\ w.owner[f] = st.owner[f]

\* No plan is published for the first time, if none is fresh.
PlansKept(st, w) ==
  ClosuresFixed => \A x \in Plan : Published(w, x) <=> Published(st, x)

LEMMA WriteHeads ==
  ASSUME NEW st \in Store, NEW f \in Form, NEW u, NEW repo
  PROVE  LET w == Write(st, f, u, repo)
         IN  \A g \in Form :
               \/ w.head[g] = st.head[g] /\ w.owner[g] = st.owner[g]
               \/ g = f /\ w.head[g] = u /\ w.owner[g] = repo
<1> DEFINE w == Write(st, f, u, repo)
<1>1. CASE u \in st.past[f]
  BY <1>1 DEF Write
<1>2. CASE u \notin st.past[f]
  <2>1. w.head = [st.head EXCEPT ![f] = u] /\ w.owner = [st.owner EXCEPT ![f] = repo]
    BY <1>2 DEF Write
  <2>2. DOMAIN st.head = Form /\ DOMAIN st.owner = Form
    BY DEF Store
  <2> HIDE DEF w
  <2> QED  BY <2>1, <2>2 DEF w
<1> QED  BY <1>1, <1>2

\* Where the same forms have references, the same ones are current.
LEMMA SameCurrent ==
  ASSUME NEW st, NEW w, \A g \in Form : w.head[g] = NoUnit <=> st.head[g] = NoUnit
  PROVE  /\ \A f \in Form : IsCurrent(w, f) <=> IsCurrent(st, f)
         /\ \A line : Published(w, line) <=> Published(st, line)
BY DEF IsCurrent, Published

LEMMA IdleSerial ==
  Serial(Idle)'
<1>1. /\ Idle.pc = "idle" /\ Idle.rows = {}
      /\ \A f \in Form : Idle.ctrs[f] = NoUnit /\ Idle.lock[f] = NoUnit
  BY DEF Idle, NoneRead
<1> QED  BY <1>1 DEF Serial, AtItsGate, ReadIsCurrent, ScanSees, GateHolds

\* The relations of the store survive a step under which active containers
\* and superseded units are those there were, or new ones of which the
\* relations are known.
LEMMA StoreRelations ==
  ASSUME SerialInv, PlansKept(store, store'), Grows(store, store'),
         NEW new, NEW repo,
         \A f \in ActiveForms(store') :
           \/ f \in ActiveForms(store) /\ store'.owner[f] = store.owner[f]
           \/ f = new /\ store'.owner[f] = repo,
         new \in ActiveForms(store') =>
           \A g \in ActiveForms(store) : g.line # new.line =>
             Unrelated(store, g, new.line, repo),
         \A f \in CurrentIn(store', "superseded") :
           \/ f \in CurrentIn(store, "superseded")
              /\ (new \in ActiveForms(store') => f.line # PlanOf[new.line])
           \/ /\ new \notin ActiveForms(store')
              /\ \A g \in ActiveForms(store) : PlanOf[g.line] # f.line
              /\ f.line \in Adr => HasReplacement(store, f.line)
  PROVE  ActiveApart' /\ RetiredIdle' /\ Replaced'
<1>c. ClosuresFixed => \A c, d : Intersects(c, d)' <=> Intersects(c, d)
  BY ClosureSame DEF PlansKept
<1>i. ClosuresFixed => \A c, d : Intersects(c, d) <=> Intersects(d, c)
  BY DEF Intersects
<1>p. \A a : HasReplacement(store, a) => HasReplacement(store', a)
  BY DEF HasReplacement, Published, Grows
<1>1. ASSUME NEW f \in ActiveForms(store'), NEW g \in ActiveForms(store'), f.line # g.line
      PROVE  /\ store'.owner[g] # store'.owner[f]
             /\ ClosuresFixed => ~Intersects(f.line, g.line)'
  <2>1. CASE /\ f \in ActiveForms(store) /\ store'.owner[f] = store.owner[f]
             /\ g \in ActiveForms(store) /\ store'.owner[g] = store.owner[g]
    BY <1>1, <1>c, <2>1 DEF SerialInv, ActiveApart, Unrelated
  <2>2. CASE /\ f = new /\ store'.owner[f] = repo
             /\ g \in ActiveForms(store) /\ store'.owner[g] = store.owner[g]
    BY <1>1, <1>c, <2>2 DEF Unrelated
  <2>3. CASE /\ g = new /\ store'.owner[g] = repo
             /\ f \in ActiveForms(store) /\ store'.owner[f] = store.owner[f]
    BY <1>1, <1>c, <1>i, <2>3 DEF Unrelated
  <2>4. CASE f = new /\ g = new
    BY <1>1, <2>4
  <2> QED  BY <1>1, <2>1, <2>2, <2>3, <2>4
<1>2. ActiveApart'
  BY <1>1 DEF ActiveApart, Unrelated
<1>3. RetiredIdle'
  <2> SUFFICES ASSUME NEW q \in CurrentIn(store', "superseded"), NEW f \in ActiveForms(store')
               PROVE  q.line # PlanOf[f.line]
    BY DEF RetiredIdle
  <2> QED  BY DEF SerialInv, RetiredIdle
<1>4. Replaced'
  <2> SUFFICES ASSUME NEW a \in CurrentIn(store', "superseded"), a.line \in Adr
               PROVE  HasReplacement(store', a.line)
    BY DEF Replaced
  <2> QED  BY <1>p DEF SerialInv, Replaced
<1> QED  BY <1>2, <1>3, <1>4

\* A publication: it takes the place of no reference, and its unit is in no
\* state that a gate speaks of.
LEMMA PublishSerial ==
  ASSUME OneAuthority, TransitionInv, SerialInv, NEW f \in Fresh, Publish(f)
  PROVE  SerialInv'
<1> DEFINE u == Born(f.line)
<1>0. /\ StoreOK(store) /\ store' = Write(store, f, u, Runtime) /\ proc' = proc
      /\ f \in Form /\ f.line \in Line /\ store.head[f] = NoUnit
      /\ proc \in [Author -> Command]
  BY InvParts, TransitionAssumption DEF Publish, Form
<1>1. u \in Unit /\ Replays(f.line, u)
  BY <1>0, BornReplays
<1>2. u.state \notin {"active", "superseded"}
  BY DEF Born, BirthState
<1>3. Grows(store, store')
  <2>1. Runtime \in Repo \cup {Runtime}
    OBVIOUS
  <2> HIDE DEF u
  <2> QED  BY <1>0, <1>1, <2>1, WriteSound
<1>4. \A g \in Form : \/ store'.head[g] = store.head[g] /\ store'.owner[g] = store.owner[g]
                      \/ g = f /\ store'.head[g] = u
  <2> HIDE DEF u
  <2> QED  BY <1>0, WriteHeads DEF StoreOK
<1> HIDE DEF u
<1>5. Kept(store, store')
  BY <1>0, <1>4 DEF Kept
<1>6. ASSUME NEW g \in Form, IsCurrent(store', g), store'.head[g].state \in {"active", "superseded"}
      PROVE  IsCurrent(store, g) /\ store'.head[g] = store.head[g] /\ store'.owner[g] = store.owner[g]
  <2>1. store'.head[g] = store.head[g] /\ store'.owner[g] = store.owner[g]
    BY <1>2, <1>4, <1>6
  <2>2. \A h \in Form : store.head[h] # NoUnit => store'.head[h] # NoUnit
    BY <1>3 DEF Grows
  <2> QED  BY <1>6, <2>1, <2>2 DEF IsCurrent
<1>7. PlansKept(store, store')
  <2> SUFFICES ASSUME ClosuresFixed, NEW x \in Plan
               PROVE  Published(store', x) <=> Published(store, x)
    BY DEF PlansKept
  <2>1. Published(store, x) => Published(store', x)
    BY <1>3 DEF Published, Grows
  <2>2. ASSUME Published(store', x)  PROVE Published(store, x)
    <3>1. PICK g \in Form : g.line = x /\ store'.head[g] # NoUnit
      BY <2>2 DEF Published
    <3>2. CASE store'.head[g] = store.head[g]
      BY <3>1, <3>2 DEF Published
    <3>3. CASE g = f
      <4>1. f.version # 1
        BY <3>1, <3>3 DEF ClosuresFixed
      <4> QED  BY <3>1, <3>3, <4>1 DEF Publish
    <3> QED  BY <1>4, <3>2, <3>3
  <2> QED  BY <2>1, <2>2
<1>8. \A g \in ActiveForms(store') :
        g \in ActiveForms(store) /\ store'.owner[g] = store.owner[g] /\ store'.head[g] = store.head[g]
  BY <1>6 DEF ActiveForms, CurrentIn
<1>9. CurrentIn(store', "superseded") \subseteq CurrentIn(store, "superseded")
  BY <1>6 DEF CurrentIn
<1>10. f \notin ActiveForms(store')
  BY <1>0, <1>8 DEF ActiveForms, CurrentIn, IsCurrent
<1>11. ActiveApart' /\ RetiredIdle' /\ Replaced'
  BY <1>3, <1>7, <1>8, <1>9, <1>10, StoreRelations
<1>12. ASSUME NEW p \in Author  PROVE Serial(proc[p])'
  <2> DEFINE c == proc[p]
  <2>1. Serial(c) /\ c \in Command /\ proc'[p] = c
    BY <1>0 DEF SerialInv
  <2>2. RouteOK(c)
    BY InvParts DEF CommandOK
  <2>3. ClosuresFixed => \A d, e : Intersects(d, e)' <=> Intersects(d, e)
    BY <1>7, ClosureSame DEF PlansKept
  <2>4. AtItsGate(c)'
    BY <1>0, <2>1 DEF Serial, AtItsGate
  <2>5. ReadIsCurrent(c)'
    <3>1. c.pc # "idle" => c.form \in Form /\ c.unit # NoUnit
      BY <2>2, NoUnitAssumption DEF RouteOK
    <3>2. \A r \in c.rows : r[1] \in Form
      BY <2>1 DEF Command
    <3> QED  BY <1>0, <1>5, <2>1, <3>1, <3>2 DEF Serial, ReadIsCurrent, Kept
  <2>6. ScanSees(c)'
    BY <1>0, <1>8, <2>1 DEF Serial, ScanSees
  <2>7. GateHolds(c)'
    <3>1. \A a : HasReplacement(store, a) => HasReplacement(store', a)
      BY <1>3 DEF HasReplacement, Published, Grows
    <3> QED  BY <1>0, <1>8, <1>9, <2>1, <2>3, <3>1 DEF Serial, GateHolds, Unrelated
  <2> QED  BY <2>4, <2>5, <2>6, <2>7 DEF Serial
<1> QED  BY <1>11, <1>12 DEF SerialInv

\* A step that publishes and ends the one command there is.
LEMMA EndSerial ==
  ASSUME OneAuthority, proc \in [Author -> Command], NEW p \in Author, End(p),
         ActiveApart', RetiredIdle', Replaced'
  PROVE  SerialInv'
<1>1. \A q \in Author : proc'[q] = Idle
  BY DEF OneAuthority, End
<1> QED  BY <1>1, IdleSerial DEF SerialInv, Serial, AtItsGate, ReadIsCurrent, ScanSees, GateHolds

LEMMA PutSerial ==
  ASSUME OneAuthority, TransitionInv, SerialInv, NEW p \in Author, Put(p)
  PROVE  SerialInv'
<1> DEFINE c == proc[p]
<1> DEFINE u == Moved(c.unit, c.to, p)
<1>1. /\ c \in Command /\ CommandOK(store, c) /\ StoreOK(store) /\ Serial(c)
      /\ c.pc = "put" /\ End(p) /\ store' = Write(store, c.form, u, c.repo)
      /\ proc \in [Author -> Command]
  BY InvParts DEF Put, At, SerialInv
<1>2. ~(c.form.line \in Ctr /\ c.to = "active")
  BY <1>1 DEF CommandOK, RouteOK, Activating
<1>3. u \in Unit /\ Replays(c.form.line, u) /\ u.state = c.to /\ c.form \in Form
  BY <1>1, PublishedUnit
<1>4. c.repo \in Repo \cup {Runtime}
  BY <1>1 DEF Command
<1>5. store.head[c.form] # NoUnit /\ u # NoUnit
  BY <1>1, <1>3, NoUnitAssumption DEF Serial, ReadIsCurrent, CommandOK, RouteOK
<1> HIDE DEF u
<1>6. Grows(store, store')
  BY <1>1, <1>3, <1>4, WriteSound
<1>7. \A g \in Form : \/ store'.head[g] = store.head[g] /\ store'.owner[g] = store.owner[g]
                      \/ g = c.form /\ store'.head[g] = u
  BY <1>1, <1>3, WriteHeads DEF StoreOK
<1>8. /\ \A f \in Form : IsCurrent(store', f) <=> IsCurrent(store, f)
      /\ \A line : Published(store', line) <=> Published(store, line)
  BY <1>5, <1>7, SameCurrent
<1>9. PlansKept(store, store')
  BY <1>8 DEF PlansKept
<1>10. ASSUME NEW f \in ActiveForms(store')
       PROVE  f \in ActiveForms(store) /\ store'.owner[f] = store.owner[f]
  BY <1>2, <1>3, <1>7, <1>8 DEF ActiveForms, CurrentIn
<1>11. NoForm \notin ActiveForms(store')
  BY TransitionAssumption DEF ActiveForms, CurrentIn
<1>12. ASSUME NEW f \in CurrentIn(store', "superseded")
       PROVE  \/ f \in CurrentIn(store, "superseded")
              \/ /\ \A g \in ActiveForms(store) : PlanOf[g.line] # f.line
                 /\ f.line \in Adr => HasReplacement(store, f.line)
  <2>1. CASE store'.head[f] = store.head[f]
    BY <1>8, <2>1 DEF CurrentIn
  <2>2. CASE f = c.form /\ store'.head[f] = u
    <3>1. c.to = "superseded"
      BY <1>3, <2>2 DEF CurrentIn
    <3>2. \A g \in ActiveForms(store) : PlanOf[g.line] # c.form.line
      <4>1. CASE c.form.line \in Plan
        BY <1>1, <3>1, <4>1 DEF Serial, GateHolds
      <4>2. CASE c.form.line \notin Plan
        BY <4>2, TransitionAssumption DEF ActiveForms
      <4> QED  BY <4>1, <4>2
    <3> QED  BY <1>1, <2>2, <3>1, <3>2 DEF Serial, GateHolds
  <2> QED  BY <1>7, <2>1, <2>2 DEF CurrentIn
<1>13. ActiveApart' /\ RetiredIdle' /\ Replaced'
  BY <1>6, <1>9, <1>10, <1>11, <1>12, StoreRelations
<1> QED  BY <1>1, <1>13, EndSerial

\* The batch of an activation writes the container, and its plan when it has
\* to be locked.
LEMMA ActivateHeads ==
  ASSUME TransitionInv, SerialInv, NEW p \in Author, Activate(p)
  PROVE  LET c == proc[p]
         IN  /\ Grows(store, store')
             /\ \A g \in Form :
                  \/ store'.head[g] = store.head[g] /\ store'.owner[g] = store.owner[g]
                  \/ /\ g = c.form /\ store'.owner[g] = c.repo
                     /\ store'.head[g] # NoUnit /\ store'.head[g].state = "active"
                  \/ /\ g.line = PlanOf[c.form.line] /\ store.head[g] # NoUnit
                     /\ store'.head[g] # NoUnit /\ store'.head[g].state = "immutable"
<1> DEFINE c == proc[p]
<1> DEFINE u == Moved(c.unit, "active", p)
<1> DEFINE w == Write(store, c.form, u, c.repo)
<1> DEFINE locks == {f \in Form : c.lock[f] # NoUnit}
<1> DEFINE plan == PlanOf[c.form.line]
<1>1. /\ c \in Command /\ CommandOK(store, c) /\ StoreOK(store) /\ Serial(c)
      /\ c.pc = "batch" /\ End(p) /\ proc \in [Author -> Command]
  BY InvParts DEF Activate, At, SerialInv
<1>2. c.form.line \in Ctr /\ c.to = "active"
  BY <1>1 DEF CommandOK, RouteOK, Activating
<1>3. u \in Unit /\ Replays(c.form.line, u) /\ u.state = "active" /\ c.form \in Form
  BY <1>1, <1>2, PublishedUnit
<1>4. c.repo \in Repo \cup {Runtime} /\ plan \in Plan /\ plan \notin Ctr
  BY <1>1, <1>2, TransitionAssumption, LinesAssumption DEF Command
<1>5. store.head[c.form] # NoUnit /\ u # NoUnit
  BY <1>1, <1>3, NoUnitAssumption DEF Serial, ReadIsCurrent, CommandOK, RouteOK
<1> HIDE DEF u
<1>6. StoreOK(w) /\ Grows(store, w)
  BY <1>1, <1>3, <1>4, WriteSound
<1>7. \A g \in Form : \/ w.head[g] = store.head[g] /\ w.owner[g] = store.owner[g]
                      \/ g = c.form /\ w.head[g] = u /\ w.owner[g] = c.repo
  BY <1>1, <1>3, WriteHeads DEF StoreOK
<1> HIDE DEF w

<1>8. /\ Grows(store, store')
      /\ \A g \in Form :
           \/ store'.head[g] = store.head[g] /\ store'.owner[g] = store.owner[g]
           \/ g = c.form /\ store'.head[g] = u /\ store'.owner[g] = c.repo
           \/ /\ g.line = plan /\ store.head[g] # NoUnit
              /\ store'.head[g] # NoUnit /\ store'.head[g].state = "immutable"
  <2>1. CASE locks = {}
    <3>1. store' = w
      BY <2>1 DEF Activate, w, u
    <3> QED  BY <1>6, <1>7, <3>1
  <2>2. CASE locks # {}
    <3> DEFINE f == CHOOSE g \in locks : TRUE
    <3> DEFINE l == c.lock[f]
    <3>1. store' = Write(w, f, l, c.repo)
      BY <2>2 DEF Activate, w, u
    <3>2. f \in Form /\ l # NoUnit
      BY <2>2
    <3>3. f.line = plan /\ l.state = "immutable" /\ Replays(f.line, l)
      BY <1>1, <3>2 DEF CommandOK, LockOK
    <3>4. l \in Unit
      BY <1>1, <3>2 DEF Command
    <3>5. store.head[f] # NoUnit
      BY <1>1, <3>2 DEF Serial, ReadIsCurrent
    <3> HIDE DEF f, l
    <3>6. Grows(w, store')
      BY <1>4, <1>6, <3>1, <3>2, <3>3, <3>4, WriteSound
    <3>7. \A g \in Form : \/ store'.head[g] = w.head[g] /\ store'.owner[g] = w.owner[g]
                          \/ g = f /\ store'.head[g] = l
      BY <1>6, <3>1, <3>2, WriteHeads DEF StoreOK
    <3>8. Grows(store, store')
      BY <1>6, <3>6 DEF Grows
    <3> QED  BY <1>7, <3>2, <3>3, <3>5, <3>7, <3>8
  <2> QED  BY <2>1, <2>2
<1> QED  BY <1>3, <1>5, <1>8

LEMMA ActivateSerial ==
  ASSUME OneAuthority, TransitionInv, SerialInv, NEW p \in Author, Activate(p)
  PROVE  SerialInv'
<1> DEFINE c == proc[p]
<1> DEFINE plan == PlanOf[c.form.line]
<1>1. /\ CommandOK(store, c) /\ Serial(c) /\ c.form.line \in Ctr /\ c.pc = "batch"
      /\ End(p) /\ proc \in [Author -> Command]
  BY InvParts DEF Activate, At, SerialInv, Serial, AtItsGate
<1>2. plan \in Plan /\ plan \notin Ctr
  BY <1>1, TransitionAssumption, LinesAssumption
<1>3. store.head[c.form] # NoUnit
  BY <1>1, NoUnitAssumption DEF Serial, ReadIsCurrent, CommandOK, RouteOK
<1>4. /\ Grows(store, store')
      /\ \A g \in Form :
           \/ store'.head[g] = store.head[g] /\ store'.owner[g] = store.owner[g]
           \/ /\ g = c.form /\ store'.owner[g] = c.repo
              /\ store'.head[g] # NoUnit /\ store'.head[g].state = "active"
           \/ /\ g.line = plan /\ store.head[g] # NoUnit
              /\ store'.head[g] # NoUnit /\ store'.head[g].state = "immutable"
  BY ActivateHeads
<1>5. /\ \A f \in Form : IsCurrent(store', f) <=> IsCurrent(store, f)
      /\ \A line : Published(store', line) <=> Published(store, line)
  BY <1>3, <1>4, SameCurrent
<1>6. PlansKept(store, store')
  BY <1>5 DEF PlansKept
<1>7. ASSUME NEW f \in ActiveForms(store')
       PROVE  \/ f \in ActiveForms(store) /\ store'.owner[f] = store.owner[f]
              \/ f = c.form /\ store'.owner[f] = c.repo
  BY <1>2, <1>4, <1>5 DEF ActiveForms, CurrentIn
<1>8. ASSUME NEW f \in CurrentIn(store', "superseded")
       PROVE  f \in CurrentIn(store, "superseded") /\ f.line # plan
  <2>1. f \in CurrentIn(store, "superseded")
    BY <1>4, <1>5 DEF CurrentIn
  <2> QED  BY <1>1, <2>1 DEF Serial, GateHolds
<1>9. \A g \in ActiveForms(store) : g.line # c.form.line =>
         Unrelated(store, g, c.form.line, c.repo)
  BY <1>1 DEF Serial, GateHolds
<1>10. ActiveApart' /\ RetiredIdle' /\ Replaced'
  <2>1. Grows(store, store')
    BY <1>4
  <2> DEFINE new == c.form
             repo == c.repo
  <2>2. /\ \A f \in ActiveForms(store') :
             \/ f \in ActiveForms(store) /\ store'.owner[f] = store.owner[f]
             \/ f = new /\ store'.owner[f] = repo
        /\ \A g \in ActiveForms(store) : g.line # new.line =>
             Unrelated(store, g, new.line, repo)
    BY <1>7, <1>9
  <2>3. \A f \in CurrentIn(store', "superseded") :
          /\ f \in CurrentIn(store, "superseded")
          /\ new \in ActiveForms(store') => f.line # PlanOf[new.line]
    BY <1>8
  <2> HIDE DEF new, repo
  <2> QED  BY <1>6, <2>1, <2>2, <2>3, StoreRelations
<1> QED  BY <1>1, <1>10, EndSerial

LEMMA SameStore ==
  ASSUME SerialInv, store' = store
  PROVE  /\ ActiveApart' /\ RetiredIdle' /\ Replaced'
         /\ \A c : Serial(c) => Serial(c)'
<1>1. \A x : Published(store', x) <=> Published(store, x)
  OBVIOUS
<1>2. \A c, d : Intersects(c, d)' <=> Intersects(c, d)
  BY <1>1, ClosureSame
<1>3. \A f, c, repo : Unrelated(store, f, c, repo)' <=> Unrelated(store, f, c, repo)
  BY <1>2 DEF Unrelated
<1>4. ActiveApart'
  BY <1>3 DEF SerialInv, ActiveApart
<1>5. RetiredIdle' /\ Replaced'
  BY DEF SerialInv, RetiredIdle, Replaced
<1>6. ASSUME NEW c, Serial(c)  PROVE Serial(c)'
  <2>1. AtItsGate(c)' /\ ReadIsCurrent(c)' /\ ScanSees(c)'
    BY <1>6 DEF Serial, AtItsGate, ReadIsCurrent, ScanSees
  <2>2. GateHolds(c)'
    BY <1>6, <1>3 DEF Serial, GateHolds
  <2> QED  BY <2>1, <2>2 DEF Serial
<1> QED  BY <1>4, <1>5, <1>6

\* The one command goes on, or ends.
LEMMA CommandSerial ==
  ASSUME OneAuthority, SerialInv, proc \in [Author -> Command], NEW p \in Author,
         store' = store,
         \/ End(p)
         \/ \E c : Serial(c) /\ proc' = [proc EXCEPT ![p] = c]
  PROVE  SerialInv'
<1>1. CASE End(p)
  BY <1>1, SameStore, EndSerial
<1>2. CASE \E c : Serial(c) /\ proc' = [proc EXCEPT ![p] = c]
  <2> PICK c : Serial(c) /\ proc' = [proc EXCEPT ![p] = c]
    BY <1>2
  <2>1. Serial(c)'
    BY SameStore
  <2>2. \A q \in Author : proc'[q] = c
    BY DEF OneAuthority
  <2>3. ASSUME NEW q \in Author  PROVE Serial(proc[q])'
    BY <2>1, <2>2 DEF Serial, AtItsGate, ReadIsCurrent, ScanSees, GateHolds
  <2> QED  BY <2>3, SameStore DEF SerialInv
<1> QED  BY <1>1, <1>2

\* A gate that passes: the rest of the command is as it was.
LEMMA PassSerial ==
  ASSUME OneAuthority, TransitionInv, SerialInv, NEW p \in Author,
         proc[p].pc # "idle", store' = store, NEW pc \in Pc,
         LET c == [proc[p] EXCEPT !.pc = pc]
         IN  AtItsGate(c) /\ ScanSees(c) /\ GateHolds(c),
         End(p) \/ Goto(p, pc)
  PROVE  SerialInv'
<1> DEFINE c == [proc[p] EXCEPT !.pc = pc]
<1>1. proc \in [Author -> Command] /\ proc[p] \in Command /\ Serial(proc[p])
  BY InvParts DEF SerialInv
<1>2. /\ c.form = proc[p].form /\ c.unit = proc[p].unit /\ c.rows = proc[p].rows
      /\ c.ctrs = proc[p].ctrs /\ c.lock = proc[p].lock
  BY <1>1 DEF Command
<1>3. ReadIsCurrent(c)
  <2> HIDE DEF c
  <2> QED  BY <1>1, <1>2 DEF Serial, ReadIsCurrent
<1>4. Serial(c)
  <2> HIDE DEF c
  <2> QED  BY <1>3 DEF Serial, c
<1>5. Goto(p, pc) => proc' = [proc EXCEPT ![p] = c]
  BY DEF Goto
<1> HIDE DEF c
<1> QED  BY <1>1, <1>4, <1>5, CommandSerial

\* The gates of work items, of completion and of retirement.
LEMMA GatesSerial ==
  ASSUME OneAuthority, TransitionInv, SerialInv, NEW p \in Author,
         \/ CollectDrafts(p) \/ CompletionGate(p) \/ CompletionUnread(p)
         \/ RetireGate(p) \/ ReplacedGate(p) \/ Stop(p)
  PROVE  SerialInv'
<1>1. /\ proc \in [Author -> Command] /\ proc[p] \in Command /\ Serial(proc[p])
      /\ RouteOK(proc[p])
  BY InvParts DEF SerialInv, CommandOK
<1>l. /\ proc[p].form.line \in Item =>
           proc[p].form.line \notin Plan /\ proc[p].form.line \notin Adr
      /\ proc[p].form.line \in Ctr =>
           proc[p].form.line \notin Plan /\ proc[p].form.line \notin Adr
      /\ proc[p].form.line \in Plan => proc[p].form.line \notin Adr
  BY LinesAssumption
<1>f. ASSUME NEW pc \in Pc
      PROVE  LET c == [proc[p] EXCEPT !.pc = pc]
             IN  c.pc = pc /\ c.form = proc[p].form /\ c.to = proc[p].to
  BY <1>1 DEF Command
<1>2. CASE CollectDrafts(p)
  <2> DEFINE c == [proc[p] EXCEPT !.pc = "member"]
  <2>1. proc[p].pc = "drafts" /\ store' = store /\ (End(p) \/ Goto(p, "member"))
    BY <1>2 DEF CollectDrafts, At, Decide
  <2>2. c.pc = "member" /\ c.form = proc[p].form
    BY <1>f DEF Pc
  <2> HIDE DEF c
  <2>3. AtItsGate(c) /\ ScanSees(c) /\ GateHolds(c)
    BY <1>1, <2>1, <2>2 DEF Serial, AtItsGate, ScanSees, GateHolds
  <2> QED  BY <2>1, <2>3, PassSerial DEF c, Pc
<1>3. CASE CompletionGate(p) \/ CompletionUnread(p)
  <2> DEFINE c == [proc[p] EXCEPT !.pc = "put"]
  <2>1. proc[p].pc = "items" /\ store' = store /\ (End(p) \/ Goto(p, "put"))
    BY <1>3 DEF CompletionGate, CompletionUnread, At, Decide
  <2>2. c.pc = "put" /\ c.form = proc[p].form
    BY <1>f DEF Pc
  <2> HIDE DEF c
  <2>3. AtItsGate(c) /\ ScanSees(c) /\ GateHolds(c)
    BY <1>1, <1>l, <2>1, <2>2 DEF Serial, AtItsGate, ScanSees, GateHolds
  <2> QED  BY <2>1, <2>3, PassSerial DEF c, Pc
<1>4. CASE RetireGate(p)
  <2> DEFINE c == [proc[p] EXCEPT !.pc = "put"]
             q == proc[p].form.line
  <2>1. /\ proc[p].pc = "retire" /\ store' = store
        /\ End(p) \/ (Goto(p, "put") /\ ActiveOn(q) = {})
    BY <1>4 DEF RetireGate, At, Decide, TargetOf
  <2>2. c.pc = "put" /\ c.form = proc[p].form
    BY <1>f DEF Pc
  <2>3. q \in Plan /\ q \notin Adr
    BY <1>1, <1>l, <2>1 DEF Serial, AtItsGate
  <2>4. ASSUME ActiveOn(q) = {}, NEW f \in ActiveForms(store), PlanOf[f.line] = q
        PROVE  FALSE
    <3>1. f.line \in Ctr /\ f.line \in Line
      BY DEF ActiveForms, Line
    <3>2. InState(store, f.line, "active")
      BY <3>1, InStateForms DEF ActiveForms
    <3> QED  BY <2>4, <3>1, <3>2 DEF ActiveOn
  <2> HIDE DEF c
  <2>5. ActiveOn(q) = {} => AtItsGate(c) /\ ScanSees(c) /\ GateHolds(c)
    BY <2>2, <2>3, <2>4 DEF AtItsGate, ScanSees, GateHolds
  <2>6. CASE End(p)
    BY <1>1, <2>1, <2>6, CommandSerial
  <2>7. CASE ~End(p)
    BY <2>1, <2>5, <2>7, PassSerial DEF c, Pc
  <2> QED  BY <2>6, <2>7
<1>5. CASE ReplacedGate(p)
  <2> DEFINE c == [proc[p] EXCEPT !.pc = "put"]
             a == proc[p].form.line
  <2>1. /\ proc[p].pc = "replaced" /\ store' = store
        /\ End(p) \/ (Goto(p, "put") /\ HasReplacement(store, a))
    BY <1>5 DEF ReplacedGate, At, Decide, TargetOf, HasReplacement
  <2>2. c.pc = "put" /\ c.form = proc[p].form
    BY <1>f DEF Pc
  <2>3. a \in Adr /\ a \notin Plan
    BY <1>1, <1>l, <2>1 DEF Serial, AtItsGate
  <2> HIDE DEF c
  <2>4. HasReplacement(store, a) => AtItsGate(c) /\ ScanSees(c) /\ GateHolds(c)
    BY <2>2, <2>3 DEF AtItsGate, ScanSees, GateHolds
  <2>5. CASE End(p)
    BY <1>1, <2>1, <2>5, CommandSerial
  <2>6. CASE ~End(p)
    BY <2>1, <2>4, <2>6, PassSerial DEF c, Pc
  <2> QED  BY <2>5, <2>6
<1>6. CASE Stop(p)
  BY <1>1, <1>6, CommandSerial DEF Stop
<1> QED  BY <1>2, <1>3, <1>4, <1>5, <1>6

\* A command begins: it has read the current instance of its line.
LEMMA ReadLineSerial ==
  ASSUME OneAuthority, TransitionInv, SerialInv, NEW p \in Author, NEW line \in Line,
         NEW to \in State, NEW repo \in Repo, ReadLine(p, line, to, repo)
  PROVE  SerialInv'
<1> DEFINE f == CurrentForm(store, line)
<1> DEFINE u == store.head[f]
<1> DEFINE open == IF line \in Item THEN OpenNotes(line) ELSE {}
<1> DEFINE c == [Idle EXCEPT !.pc = FirstGate(line, to), !.form = f, !.unit = u,
                   !.to = to, !.repo = repo, !.open = open]
<1>1. proc \in [Author -> Command]
  BY InvParts
<1>2. f \in Form /\ f.line = line
  BY CurrentExists DEF ReadLine
<1>3. proc' = [proc EXCEPT ![p] = c] /\ store' = store
  BY DEF ReadLine
<1>4. /\ c.pc = FirstGate(line, to) /\ c.form = f /\ c.unit = u /\ c.to = to
      /\ c.lock = NoneRead /\ c.rows = {} /\ c.ctrs = NoneRead
  BY DEF Idle
<1> HIDE DEF f, u, c
<1>5. AtItsGate(c) /\ ScanSees(c) /\ GateHolds(c)
  BY <1>2, <1>4, LinesAssumption DEF AtItsGate, ScanSees, GateHolds, FirstGate, Line
<1>6. ReadIsCurrent(c)
  BY <1>4 DEF ReadIsCurrent, NoneRead, u
<1> QED  BY <1>1, <1>3, <1>5, <1>6, CommandSerial DEF Serial

\* Reads of a work item's notes and container, which the relations are not
\* about.
LEMMA ItemReadsSerial ==
  ASSUME OneAuthority, TransitionInv, SerialInv, NEW p \in Author,
         CollectStored(p) \/ Membership(p)
  PROVE  SerialInv'
<1> DEFINE seen == {<<n, notes[n].unit>> :
              n \in {m \in Note : NoteOn[m] = TargetOf(p) /\ notes[m].unit # "none"}}
<1>1. /\ proc \in [Author -> Command] /\ proc[p] \in Command /\ Serial(proc[p])
  BY InvParts DEF SerialInv
<1>s. proc[p].pc \in {"stored", "member"} /\ store' = store
  BY DEF CollectStored, Membership, At
<1>2. proc[p].form.line \in Item /\ proc[p].form.line \notin Plan \cup Adr
  BY <1>1, <1>s, LinesAssumption DEF Serial, AtItsGate
\* Whatever else the step sets, the command goes on in the gates of its item.
<1>c. ASSUME NEW c, c.pc \in {"drafts", "put"}, c.form = proc[p].form,
             c.unit = proc[p].unit, c.rows = proc[p].rows, c.ctrs = proc[p].ctrs,
             c.lock = proc[p].lock
      PROVE  Serial(c)
  BY <1>1, <1>2, <1>s, <1>c DEF Serial, AtItsGate, ReadIsCurrent, ScanSees, GateHolds
<1>3. CASE CollectStored(p)
  <2> DEFINE c == [proc[p] EXCEPT !.pc = "drafts", !.seen = seen]
  <2>1. proc' = [proc EXCEPT ![p] = c]
    BY <1>3 DEF CollectStored
  <2>2. /\ c.pc = "drafts" /\ c.form = proc[p].form /\ c.unit = proc[p].unit
        /\ c.rows = proc[p].rows /\ c.ctrs = proc[p].ctrs /\ c.lock = proc[p].lock
    BY <1>1 DEF Command
  <2> HIDE DEF c
  <2>3. Serial(c)
    BY <1>c, <2>2
  <2> QED  BY <1>1, <1>s, <2>1, <2>3, CommandSerial
<1>4. CASE Membership(p) /\ ~End(p)
  <2> DEFINE c == [proc[p] EXCEPT !.pc = "put"]
             d == [proc[p] EXCEPT !.pc = "put", !.warned = TRUE]
  <2>1. proc' = [proc EXCEPT ![p] = c] \/ proc' = [proc EXCEPT ![p] = d]
    BY <1>4 DEF Membership, Goto
  <2>2. /\ c.pc = "put" /\ c.form = proc[p].form /\ c.unit = proc[p].unit
        /\ c.rows = proc[p].rows /\ c.ctrs = proc[p].ctrs /\ c.lock = proc[p].lock
    BY <1>1 DEF Command
  <2>3. /\ d.pc = "put" /\ d.form = proc[p].form /\ d.unit = proc[p].unit
        /\ d.rows = proc[p].rows /\ d.ctrs = proc[p].ctrs /\ d.lock = proc[p].lock
    BY <1>1 DEF Command
  <2> HIDE DEF c, d
  <2>4. Serial(c) /\ Serial(d)
    BY <1>c, <2>2, <2>3
  <2> QED  BY <1>1, <1>s, <2>1, <2>4, CommandSerial
<1>5. CASE End(p)
  BY <1>1, <1>s, <1>5, CommandSerial
<1> QED  BY <1>3, <1>4, <1>5

\* The scan: the rows of all containers, then their units one by one.
LEMMA ScanSerial ==
  ASSUME OneAuthority, TransitionInv, SerialInv, NEW p \in Author, ScanRefs(p) \/ ScanUnit(p)
  PROVE  SerialInv'
<1>1. /\ proc \in [Author -> Command] /\ proc[p] \in Command /\ Serial(proc[p])
      /\ store' = store
  BY InvParts DEF SerialInv, ScanRefs, ScanUnit
<1>2. CASE ScanRefs(p)
  <2> DEFINE G == {g \in Form : g.line \in Ctr /\ store.head[g] # NoUnit}
  <2> DEFINE rows == {<<f, store.owner[f]>> : f \in G}
  <2> DEFINE c == [proc[p] EXCEPT !.pc = "scan", !.rows = rows]
  <2>1. proc' = [proc EXCEPT ![p] = c] /\ proc[p].pc = "refs"
    BY <1>2 DEF ScanRefs, At
  <2>2. /\ \A r \in rows : store.head[r[1]] # NoUnit /\ r[2] = store.owner[r[1]]
        /\ \A g \in ActiveForms(store) : <<g, store.owner[g]>> \in rows
    BY DEF ActiveForms, CurrentIn, IsCurrent
  <2> HIDE DEF rows
  <2>3. /\ c.pc = "scan" /\ c.form = proc[p].form /\ c.unit = proc[p].unit
        /\ c.rows = rows /\ c.ctrs = proc[p].ctrs /\ c.lock = proc[p].lock
    BY <1>1 DEF Command
  <2> HIDE DEF c
  <2>4. Serial(c)
    BY <1>1, <2>1, <2>2, <2>3 DEF Serial, AtItsGate, ReadIsCurrent, ScanSees, GateHolds
  <2> QED  BY <1>1, <2>1, <2>4, CommandSerial
<1>3. CASE ScanUnit(p)
  <2> PICK r \in proc[p].rows :
        proc' = [proc EXCEPT ![p].rows = @ \ {r},
                   ![p].ctrs[r[1]] = [unit |-> store.head[r[1]], repo |-> r[2]]]
    BY <1>3 DEF ScanUnit
  <2> DEFINE e == [unit |-> store.head[r[1]], repo |-> r[2]]
  <2> DEFINE ctrs == [proc[p].ctrs EXCEPT ![r[1]] = e]
  <2> DEFINE c == [proc[p] EXCEPT !.rows = @ \ {r}, !.ctrs = ctrs]
  <2>1. proc' = [proc EXCEPT ![p] = c] /\ proc[p].pc = "scan"
    <3>1. proc' = [proc EXCEPT ![p] = c]
      OBVIOUS
    <3>2. proc[p].pc = "scan"
      BY <1>3 DEF ScanUnit, At
    <3> QED  BY <3>1, <3>2
  <2>2. /\ r \in Form \X (Repo \cup {Runtime}) /\ DOMAIN proc[p].ctrs = Form
        /\ r = <<r[1], r[2]>>
    BY <1>1 DEF Command
  <2>3. store.head[r[1]] # NoUnit /\ r[2] = store.owner[r[1]]
    BY <1>1 DEF Serial, ReadIsCurrent
  <2> HIDE DEF e
  <2>4. \A f \in Form : ctrs[f] = (IF f = r[1] THEN e ELSE proc[p].ctrs[f])
    BY <2>2
  <2> HIDE DEF ctrs
  <2>5. /\ c.pc = "scan" /\ c.form = proc[p].form /\ c.unit = proc[p].unit
        /\ c.rows = proc[p].rows \ {r} /\ c.ctrs = ctrs /\ c.lock = proc[p].lock
    BY <1>1, <2>1 DEF Command
  <2> HIDE DEF c
  <2>6. ReadIsCurrent(c)
    BY <1>1, <2>1, <2>3, <2>4, <2>5 DEF Serial, ReadIsCurrent
  <2>7. ScanSees(c)
    <3> SUFFICES ASSUME NEW g \in ActiveForms(store), g.line # c.form.line
                 PROVE  \/ <<g, store.owner[g]>> \in c.rows
                        \/ c.ctrs[g] = [unit |-> store.head[g], repo |-> store.owner[g]]
      BY DEF ScanSees
    <3>1. g \in Form
      BY DEF ActiveForms, CurrentIn
    <3>2. CASE g = r[1]
      BY <2>3, <2>4, <2>5, <3>1, <3>2 DEF e
    <3>3. CASE g # r[1]
      <4>1. \/ <<g, store.owner[g]>> \in proc[p].rows
            \/ proc[p].ctrs[g] = [unit |-> store.head[g], repo |-> store.owner[g]]
        BY <1>1, <2>1, <2>5 DEF Serial, ScanSees
      <4>2. <<g, store.owner[g]>> # r
        BY <3>3
      <4> QED  BY <2>4, <2>5, <3>1, <3>3, <4>1, <4>2
    <3> QED  BY <3>2, <3>3
  <2>8. AtItsGate(c) /\ GateHolds(c)
    BY <1>1, <2>1, <2>5 DEF Serial, AtItsGate, GateHolds
  <2> QED  BY <1>1, <2>1, <2>6, <2>7, <2>8, CommandSerial DEF Serial
<1> QED  BY <1>2, <1>3

\* The gate compares the container with every active one of another line.
LEMMA ActivationGateSerial ==
  ASSUME OneAuthority, TransitionInv, SerialInv, NEW p \in Author, ActivationGate(p)
  PROVE  SerialInv'
<1> DEFINE c == [proc[p] EXCEPT !.pc = "lock"]
<1>1. /\ proc \in [Author -> Command] /\ proc[p] \in Command /\ Serial(proc[p])
      /\ proc[p].pc = "scan" /\ proc[p].rows = {} /\ store' = store
  BY InvParts DEF SerialInv, ActivationGate, At
<1>2. /\ c.pc = "lock" /\ c.form = proc[p].form /\ c.repo = proc[p].repo
  BY <1>1 DEF Command
<1>3. CASE End(p)
  BY <1>1, <1>3, CommandSerial
<1>4. CASE ~End(p)
  <2>1. /\ Goto(p, "lock")
        /\ \A f \in OthersActive(p) : /\ proc[p].ctrs[f].repo # proc[p].repo
                                      /\ ~Intersects(TargetOf(p), f.line)
    BY <1>4 DEF ActivationGate, Decide
  <2>2. ASSUME NEW g \in ActiveForms(store), g.line # proc[p].form.line
        PROVE  Unrelated(store, g, proc[p].form.line, proc[p].repo)
    <3>1. /\ g \in Form /\ IsCurrent(store, g) /\ store.head[g].state = "active"
      BY DEF ActiveForms, CurrentIn
    <3>2. proc[p].ctrs[g] = [unit |-> store.head[g], repo |-> store.owner[g]]
      BY <1>1, <2>2 DEF Serial, ScanSees
    <3>3. proc[p].ctrs[g] # NoUnit
      <4>1. store.head[g] \in Unit /\ store.owner[g] \in Repo \cup {Runtime}
        BY <3>1, InvParts DEF StoreOK, Store, IsCurrent
      <4> QED  BY <3>2, <4>1, TransitionAssumption
    <3>4. ASSUME NEW h \in Form, proc[p].ctrs[h] # NoUnit, h.line = g.line
          PROVE  h.version <= g.version
      BY <1>1, <3>1, <3>4 DEF Serial, ReadIsCurrent, IsCurrent
    <3>5. g \in OthersActive(p)
      BY <2>2, <3>1, <3>2, <3>3, <3>4 DEF OthersActive, TargetOf
    <3> QED  BY <2>1, <3>2, <3>5 DEF Unrelated, TargetOf
  <2> HIDE DEF c
  <2>3. AtItsGate(c) /\ ScanSees(c) /\ GateHolds(c)
    BY <1>1, <1>2, <2>2 DEF Serial, AtItsGate, ScanSees, GateHolds
  <2> QED  BY <1>1, <2>1, <2>3, PassSerial DEF c, Pc
<1> QED  BY <1>3, <1>4

\* The plan is not retired when it is read, and stays so.
LEMMA ReadPlanSerial ==
  ASSUME OneAuthority, TransitionInv, SerialInv, NEW p \in Author, ReadPlan(p)
  PROVE  SerialInv'
<1> DEFINE plan == PlanOf[TargetOf(p)]
<1> DEFINE f == CurrentForm(store, plan)
<1>1. /\ proc \in [Author -> Command] /\ proc[p] \in Command /\ Serial(proc[p])
      /\ proc[p].pc = "lock" /\ store' = store
  BY InvParts DEF SerialInv, ReadPlan, At
<1>2. proc[p].form.line \in Ctr /\ plan \in Plan /\ plan \in Line
  BY <1>1, TransitionAssumption DEF Serial, AtItsGate, TargetOf, Line
<1>3. ASSUME InState(store, plan, "approved") \/ InState(store, plan, "immutable"),
             NEW q \in CurrentIn(store, "superseded"), q.line = plan
      PROVE  FALSE
  <2>1. InState(store, plan, "superseded")
    BY <1>2, <1>3, InStateForms
  <2> QED  BY <1>3, <2>1 DEF InState
<1>4. CASE InState(store, plan, "approved")
  <2> DEFINE v == Moved(Current(store, plan), "immutable", p)
  <2> DEFINE lock == [proc[p].lock EXCEPT ![f] = v]
  <2> DEFINE c == [proc[p] EXCEPT !.pc = "batch", !.lock = lock]
  <2>1. proc' = [proc EXCEPT ![p] = c]
    <3>1. proc' = [proc EXCEPT ![p].pc = "batch", ![p].lock[f] = v]
      BY <1>4 DEF ReadPlan
    <3> HIDE DEF v, f
    <3> QED  BY <3>1
  <2>2. f \in Form /\ store.head[f] # NoUnit
    BY <1>2, <1>4, CurrentExists DEF InState
  <2>3. v = Moved(store.head[f], "immutable", p)
    BY DEF Current
  <2>4. DOMAIN proc[p].lock = Form
    BY <1>1 DEF Command
  <2> HIDE DEF v, f
  <2>5. \A g \in Form : lock[g] = (IF g = f THEN v ELSE proc[p].lock[g])
    BY <2>4
  <2> HIDE DEF lock
  <2>6. /\ c.pc = "batch" /\ c.form = proc[p].form /\ c.unit = proc[p].unit
        /\ c.rows = proc[p].rows /\ c.ctrs = proc[p].ctrs /\ c.lock = lock
        /\ c.repo = proc[p].repo
    BY <1>1 DEF Command
  <2> HIDE DEF c
  <2>7. ReadIsCurrent(c)
    BY <1>1, <2>2, <2>3, <2>5, <2>6 DEF Serial, ReadIsCurrent
  <2>8. AtItsGate(c) /\ ScanSees(c) /\ GateHolds(c)
    BY <1>1, <1>3, <1>4, <2>6 DEF Serial, AtItsGate, ScanSees, GateHolds, TargetOf
  <2> QED  BY <1>1, <2>1, <2>7, <2>8, CommandSerial DEF Serial
<1>5. CASE ~InState(store, plan, "approved") /\ InState(store, plan, "immutable")
  <2> DEFINE c == [proc[p] EXCEPT !.pc = "batch"]
  <2>1. Goto(p, "batch")
    BY <1>5 DEF ReadPlan, Decide
  <2>2. c.pc = "batch" /\ c.form = proc[p].form /\ c.repo = proc[p].repo
    BY <1>1 DEF Command
  <2> HIDE DEF c
  <2>3. AtItsGate(c) /\ ScanSees(c) /\ GateHolds(c)
    BY <1>1, <1>3, <1>5, <2>2 DEF Serial, AtItsGate, ScanSees, GateHolds, TargetOf
  <2> QED  BY <1>1, <2>1, <2>3, PassSerial DEF c, Pc
<1>6. CASE ~InState(store, plan, "approved") /\ ~InState(store, plan, "immutable")
  <2>1. End(p)
    BY <1>6 DEF ReadPlan, Decide
  <2> QED  BY <1>1, <2>1, CommandSerial
<1> QED  BY <1>4, <1>5, <1>6

LEMMA SerialInit ==
  TransitionInit => SerialInv
<1> SUFFICES ASSUME TransitionInit  PROVE SerialInv
  OBVIOUS
<1>1. \A f \in Form : store.head[f] # NoUnit => store.head[f] = Born(f.line)
  BY DEF TransitionInit
<1>2. \A line : Born(line).state \notin {"active", "superseded"}
  BY DEF Born, BirthState
<1>3. CurrentIn(store, "active") = {} /\ CurrentIn(store, "superseded") = {}
  BY <1>1, <1>2 DEF CurrentIn, IsCurrent
<1>4. ActiveForms(store) = {}
  BY <1>3 DEF ActiveForms
<1>5. /\ Idle.pc = "idle" /\ Idle.rows = {}
      /\ \A f \in Form : Idle.ctrs[f] = NoUnit /\ Idle.lock[f] = NoUnit
  BY DEF Idle, NoneRead
<1>6. Serial(Idle)
  BY <1>5 DEF Serial, AtItsGate, ReadIsCurrent, ScanSees, GateHolds
<1>7. \A p \in Author : proc[p] = Idle
  BY DEF TransitionInit
<1> QED  BY <1>3, <1>4, <1>6, <1>7 DEF SerialInv, ActiveApart, RetiredIdle, Replaced

LEMMA SerialNext ==
  OneAuthority /\ TransitionInv /\ SerialInv /\ [TransitionNext]_transitionVars => SerialInv'
<1> SUFFICES ASSUME OneAuthority, TransitionInv, SerialInv, [TransitionNext]_transitionVars
             PROVE  SerialInv'
  OBVIOUS
<1>1. ASSUME NEW p \in Author, NEW line \in Line, NEW to \in State, NEW repo \in Repo,
             ReadLine(p, line, to, repo)
      PROVE  SerialInv'
  BY <1>1, ReadLineSerial
<1>2. ASSUME NEW p \in Author, Step(p)  PROVE SerialInv'
  BY <1>2, GatesSerial, ItemReadsSerial, ScanSerial, ActivationGateSerial, ReadPlanSerial,
     ActivateSerial, PutSerial DEF Step
<1>3. ASSUME NEW f \in Fresh, Publish(f)  PROVE SerialInv'
  BY <1>3, PublishSerial
<1>4. ASSUME store' = store, proc' = proc  PROVE SerialInv'
  <2>1. ASSUME NEW p \in Author  PROVE Serial(proc[p])'
    <3>1. Serial(proc[p])
      BY DEF SerialInv
    <3>2. proc'[p] = proc[p]
      BY <1>4
    <3> DEFINE c == proc[p]
    <3>3. \A d : Serial(d) => Serial(d)'
      BY <1>4, SameStore
    <3> QED  BY <1>4, <3>1, <3>2, <3>3, ClosureSame
             DEF Serial, AtItsGate, ReadIsCurrent, ScanSees, GateHolds, Unrelated
  <2> QED  BY <1>4, <2>1, SameStore DEF SerialInv
<1>5. ASSUME NEW n \in Note,
             DraftNote(n) \/ ResolveDraft(n) \/ PostNote(n) \/ RemoveNoteDraft(n)
      PROVE  SerialInv'
  <2>1. CASE RemoveNoteDraft(n)
    <3>1. store' = store /\ \A p \in Author : SameReads(proc[p], proc'[p])
      BY <2>1, RemovalSlips
    <3>2. ASSUME NEW p \in Author  PROVE Serial(proc'[p])
      BY <3>1 DEF SerialInv, SameReads, Serial, AtItsGate, ReadIsCurrent, ScanSees, GateHolds
    <3>3. \A d : Serial(d) => Serial(d)'
      BY <3>1, SameStore
    <3>4. ASSUME NEW p \in Author  PROVE Serial(proc[p])'
      <4>1. Serial(proc'[p])
        BY <3>2
      <4> QED  BY <3>1, <4>1, ClosureSame
               DEF Serial, AtItsGate, ReadIsCurrent, ScanSees, GateHolds, Unrelated
    <3> QED  BY <3>1, <3>4, SameStore DEF SerialInv
  <2>2. CASE ~RemoveNoteDraft(n)
    BY <1>4, <1>5, <2>2 DEF DraftNote, ResolveDraft, PostNote
  <2> QED  BY <2>1, <2>2
<1>6. CASE UNCHANGED transitionVars
  BY <1>4, <1>6 DEF transitionVars
<1> QED  BY <1>1, <1>2, <1>3, <1>5, <1>6 DEF TransitionNext

LEMMA SerialSoundness ==
  OneAuthority /\ TransitionSpec => []SerialInv
<1> SUFFICES ASSUME OneAuthority  PROVE TransitionSpec => []SerialInv
  OBVIOUS
<1>1. TransitionInv /\ SerialInv /\ [TransitionNext]_transitionVars => SerialInv'
  BY SerialNext
<1> QED  BY <1>1, SerialInit, TransitionSoundness, PTL DEF TransitionSpec

----------------------------------------------------------------------------
(* Completion *)

\* No work item is new, in a first instance or a next one, while the commands
\* run.
ItemsFixed == \A f \in Fresh : f.line \notin Item

ItemsFinished(st, c) ==
  \A t \in Ticket : t[1] = c /\ Published(st, t[2]) =>
    Current(st, t[2]).state \in {"done", "canceled"}

\* A completion that has passed its gate has no pending work item.
CompletionHolds(c) ==
  c.pc = "put" /\ c.to = "completed" /\ c.form.line \in Ctr =>
    ItemsFinished(store, c.form.line)

CompletionInv == \A p \in Author : CompletionHolds(proc[p])

\* What is written to other lines leaves the work items of a container.
LEMMA ItemsSame ==
  ASSUME NEW st, NEW w, \A g \in Form : g.line \in Item => w.head[g] = st.head[g],
         NEW c, ItemsFinished(st, c)
  PROVE  ItemsFinished(w, c)
<1> SUFFICES ASSUME NEW t \in Ticket, t[1] = c, Published(w, t[2])
             PROVE  Current(w, t[2]).state \in {"done", "canceled"}
  BY DEF ItemsFinished
<1> DEFINE item == t[2]
<1>1. item \in Item /\ item \in Line
  BY TransitionAssumption DEF Line
<1> HIDE DEF item
<1>2. Published(st, item)
  BY <1>1 DEF Published, item
<1>3. \A f \in Form : f.line = item => (IsCurrent(w, f) <=> IsCurrent(st, f))
  BY <1>1 DEF IsCurrent
<1>4. /\ CurrentForm(st, item) \in Form /\ CurrentForm(st, item).line = item
      /\ IsCurrent(st, CurrentForm(st, item))
  BY <1>1, <1>2, CurrentIsCurrent
<1>5. /\ CurrentForm(w, item) \in Form /\ CurrentForm(w, item).line = item
      /\ IsCurrent(w, CurrentForm(w, item))
  BY <1>1, CurrentIsCurrent DEF item
<1>6. CurrentForm(w, item) = CurrentForm(st, item)
  BY <1>3, <1>4, <1>5, CurrentUnique
<1>7. Current(w, item) = Current(st, item)
  BY <1>1, <1>4, <1>6 DEF Current
<1> QED  BY <1>2, <1>7 DEF ItemsFinished, item

LEMMA CommandCompletes ==
  ASSUME OneAuthority, proc \in [Author -> Command], store' = store, NEW p \in Author,
         NEW c, proc' = [proc EXCEPT ![p] = c], CompletionHolds(c)
  PROVE  CompletionInv'
BY DEF OneAuthority, CompletionInv, CompletionHolds, ItemsFinished, Published, Current, CurrentForm

LEMMA CompletionNext ==
  OneAuthority /\ ItemsFixed /\ ~ReadFaults /\ TransitionInv /\ SerialInv /\ CompletionInv
    /\ [TransitionNext]_transitionVars => CompletionInv'
<1> SUFFICES ASSUME OneAuthority, ItemsFixed, ~ReadFaults, TransitionInv, SerialInv,
                    CompletionInv, [TransitionNext]_transitionVars
             PROVE  CompletionInv'
  OBVIOUS
<1>0. proc \in [Author -> Command]
  BY InvParts
<1>1. ASSUME NEW p \in Author, NEW line \in Line, NEW to \in State, NEW repo \in Repo,
             ReadLine(p, line, to, repo)
      PROVE  CompletionInv'
  <2> DEFINE open == IF line \in Item THEN OpenNotes(line) ELSE {}
             f == CurrentForm(store, line)
             u == store.head[f]
             c == [Idle EXCEPT !.pc = FirstGate(line, to), !.form = f, !.unit = u,
                     !.to = to, !.repo = repo, !.open = open]
  <2>1. proc' = [proc EXCEPT ![p] = c] /\ store' = store /\ f.line = line
    BY <1>1, CurrentExists DEF ReadLine
  <2>2. c.pc = FirstGate(line, to) /\ c.form = f /\ c.to = to
    BY DEF Idle
  <2>3. line \in Ctr => FirstGate(line, to) # "put"
    BY LinesAssumption DEF FirstGate
  <2> HIDE DEF c, f
  <2> QED  BY <1>0, <2>1, <2>2, <2>3, CommandCompletes DEF CompletionHolds
<1>2. ASSUME NEW p \in Author, Step(p)  PROVE CompletionInv'
  <2> DEFINE o == proc[p]
  <2>0. o \in Command /\ AtItsGate(o)
    BY <1>0 DEF SerialInv, Serial
  <2>1. CASE End(p)
    BY <1>0, <2>1 DEF OneAuthority, End, CompletionInv, CompletionHolds, Idle
  <2>2. ASSUME store' = store, NEW c, proc' = [proc EXCEPT ![p] = c],
               \/ c.pc # "put" \/ c.form.line \notin Ctr
               \/ ItemsFinished(store, c.form.line)
        PROVE  CompletionInv'
    BY <1>0, <2>2, CommandCompletes DEF CompletionHolds
  <2>3. ASSUME store' = store, NEW pc, Goto(p, pc),
               \/ pc # "put" \/ o.form.line \notin Ctr
               \/ ItemsFinished(store, o.form.line)
        PROVE  CompletionInv'
    <3> DEFINE c == [o EXCEPT !.pc = pc]
    <3>1. proc' = [proc EXCEPT ![p] = c] /\ c.pc = pc /\ c.form = o.form
      BY <2>0, <2>3 DEF Goto, Command
    <3> HIDE DEF c
    <3> QED  BY <2>2, <2>3, <3>1
  <2>4. CASE CollectDrafts(p) \/ ActivationGate(p)
    BY <2>1, <2>3, <2>4 DEF CollectDrafts, ActivationGate, Decide
  <2>5. CASE RetireGate(p) \/ ReplacedGate(p)
    <3>1. o.form.line \notin Ctr /\ store' = store /\ (End(p) \/ Goto(p, "put"))
      BY <2>0, <2>5, LinesAssumption DEF AtItsGate, RetireGate, ReplacedGate, At, Decide
    <3> QED  BY <2>1, <2>3, <3>1
  <2>6. CASE CompletionGate(p)
    <3>1. store' = store /\ (End(p) \/ (Goto(p, "put") /\ ItemsFinished(store, o.form.line)))
      BY <2>6 DEF CompletionGate, Decide, ItemsFinished, Finished, TargetOf
    <3> QED  BY <2>1, <2>3, <3>1
  <2>7. CASE CollectStored(p)
    <3> PICK seen : proc' = [proc EXCEPT ![p].pc = "drafts", ![p].seen = seen]
      BY <2>7 DEF CollectStored
    <3> DEFINE c == [o EXCEPT !.pc = "drafts", !.seen = seen]
    <3>1. proc' = [proc EXCEPT ![p] = c] /\ c.pc = "drafts"
      BY <2>0 DEF Command
    <3>2. store' = store
      BY <2>7 DEF CollectStored
    <3> HIDE DEF c
    <3> QED  BY <2>2, <3>1, <3>2
  <2>8. CASE Membership(p) /\ ~End(p)
    <3> DEFINE c == [o EXCEPT !.pc = "put", !.warned = TRUE]
    <3>1. store' = store /\ o.form.line \notin Ctr
      BY <2>0, <2>8, LinesAssumption DEF Membership, AtItsGate, At
    <3>2. Goto(p, "put") \/ proc' = [proc EXCEPT ![p] = c]
      BY <2>8 DEF Membership
    <3>3. c.form = o.form
      BY <2>0 DEF Command
    <3> HIDE DEF c
    <3> QED  BY <2>2, <2>3, <3>1, <3>2, <3>3
  <2>9. CASE ScanRefs(p)
    <3> PICK rows : proc' = [proc EXCEPT ![p].pc = "scan", ![p].rows = rows]
      BY <2>9 DEF ScanRefs
    <3> DEFINE c == [o EXCEPT !.pc = "scan", !.rows = rows]
    <3>1. proc' = [proc EXCEPT ![p] = c] /\ c.pc = "scan"
      BY <2>0 DEF Command
    <3>2. store' = store
      BY <2>9 DEF ScanRefs
    <3> HIDE DEF c
    <3> QED  BY <2>2, <3>1, <3>2
  <2>10. CASE ScanUnit(p)
    <3> PICK r, e : proc' = [proc EXCEPT ![p].rows = @ \ {r}, ![p].ctrs[r[1]] = e]
      BY <2>10 DEF ScanUnit
    <3> DEFINE c == [o EXCEPT !.rows = @ \ {r}, !.ctrs[r[1]] = e]
    <3>1. proc' = [proc EXCEPT ![p] = c] /\ c.pc = "scan" /\ store' = store
      BY <2>0, <2>10 DEF Command, ScanUnit, At
    <3> HIDE DEF c
    <3> QED  BY <2>2, <3>1
  <2>11. CASE ReadPlan(p)
    <3>1. \/ End(p) \/ Goto(p, "batch")
          \/ \E f, l : proc' = [proc EXCEPT ![p].pc = "batch", ![p].lock[f] = l]
      BY <2>11 DEF ReadPlan, Decide
    <3>2. ASSUME NEW f, NEW l, proc' = [proc EXCEPT ![p].pc = "batch", ![p].lock[f] = l]
          PROVE  CompletionInv'
      <4> DEFINE c == [o EXCEPT !.pc = "batch", !.lock[f] = l]
      <4>1. proc' = [proc EXCEPT ![p] = c] /\ c.pc = "batch" /\ store' = store
        BY <2>0, <2>11, <3>2 DEF Command, ReadPlan
      <4> HIDE DEF c
      <4> QED  BY <2>2, <4>1
    <3> QED  BY <2>1, <2>3, <2>11, <3>1, <3>2 DEF ReadPlan
  <2>12. Activate(p) \/ Put(p) \/ Stop(p) => End(p)
    BY DEF Activate, Put, Stop
  <2>13. ~CompletionUnread(p)
    BY DEF CompletionUnread
  <2>14. \/ CollectStored(p) \/ CollectDrafts(p) \/ (Membership(p) /\ ~End(p)) \/ ScanRefs(p)
         \/ ScanUnit(p) \/ ActivationGate(p) \/ ReadPlan(p) \/ CompletionGate(p)
         \/ RetireGate(p) \/ ReplacedGate(p) \/ End(p)
    BY <1>2, <2>12, <2>13 DEF Step
  <2> QED  BY <2>1, <2>4, <2>5, <2>6, <2>7, <2>8, <2>9, <2>10, <2>11, <2>14
<1>3. ASSUME NEW f \in Fresh, Publish(f)  PROVE CompletionInv'
  <2> DEFINE u == Born(f.line)
  <2>1. /\ store' = Write(store, f, u, Runtime) /\ proc' = proc /\ store \in Store
        /\ f \in Form /\ f.line \notin Item
    BY <1>3, InvParts, TransitionAssumption DEF Publish, StoreOK, ItemsFixed
  <2> HIDE DEF u
  <2>2. \A g \in Form : g.line \in Item => store'.head[g] = store.head[g]
    BY <2>1, WriteHeads
  <2>3. \A c : ItemsFinished(store, c) => ItemsFinished(store', c)
    BY <2>2, ItemsSame
  <2>4. ASSUME NEW p \in Author  PROVE CompletionHolds(proc[p])'
    <3>1. CompletionHolds(proc[p]) /\ proc'[p] = proc[p]
      BY <2>1 DEF CompletionInv
    <3>2. ASSUME proc'[p].pc = "put", proc'[p].to = "completed", proc'[p].form.line \in Ctr
          PROVE  ItemsFinished(store', proc'[p].form.line)
      BY <2>3, <3>1, <3>2 DEF CompletionHolds
    <3> QED  BY <3>2 DEF CompletionHolds
  <2> QED  BY <2>4 DEF CompletionInv
<1>4. CASE store' = store /\ proc' = proc
  BY <1>4 DEF CompletionInv, CompletionHolds, ItemsFinished, Published, Current, CurrentForm
<1>5. ASSUME NEW n \in Note, RemoveNoteDraft(n)  PROVE CompletionInv'
  <2>1. store' = store /\ \A p \in Author : SameReads(proc[p], proc'[p])
    BY <1>5, RemovalSlips
  <2>2. ASSUME NEW p \in Author, proc'[p].pc = "put", proc'[p].to = "completed",
               proc'[p].form.line \in Ctr
        PROVE  ItemsFinished(store', proc'[p].form.line)
    BY <2>1, <2>2 DEF CompletionInv, CompletionHolds, SameReads
  <2>3. ASSUME NEW p \in Author  PROVE CompletionHolds(proc[p])'
    BY <2>2 DEF CompletionHolds
  <2> QED  BY <2>3 DEF CompletionInv
<1> QED  BY <1>1, <1>2, <1>3, <1>4, <1>5 DEF TransitionNext, transitionVars, DraftNote,
         ResolveDraft, PostNote

\* A container is completed by nothing but the put of its completion.
LEMMA CompletedByPut ==
  ASSUME TransitionInv, SerialInv, TransitionNext, NEW c \in Ctr,
         InState(store, c, "active"), InState(store', c, "completed")
  PROVE  \E p \in Author : /\ proc[p].pc = "put" /\ proc[p].to = "completed"
                           /\ proc[p].form.line = c
<1>0. c \in Line /\ StoreOK(store) /\ store \in Store
  BY InvParts DEF Line, StoreOK
<1>1. PICK f \in CurrentIn(store, "active") : f.line = c
  BY <1>0, InStateForms
<1>2. PICK g \in CurrentIn(store', "completed") : g.line = c
  BY <1>0, InStateForms
<1>3. /\ f \in Form /\ IsCurrent(store, f) /\ store.head[f].state = "active"
      /\ g \in Form /\ IsCurrent(store', g) /\ store'.head[g].state = "completed"
  BY DEF CurrentIn
\* A completed unit was not in its place before.
<1>4. ASSUME Grows(store, store')  PROVE store'.head[g] # store.head[g]
  <2> SUFFICES ASSUME store'.head[g] = store.head[g]  PROVE FALSE
    OBVIOUS
  <2>1. IsCurrent(store, g)
    BY <1>3, <1>4 DEF IsCurrent, Grows
  <2>2. f = g
    BY <1>1, <1>2, <1>3, <2>1, CurrentUnique
  <2> QED  BY <1>3, <2>2
<1>5. CASE \E p \in Author : Put(p)
  <2> PICK p \in Author : Put(p)
    BY <1>5
  <2> DEFINE u == Moved(proc[p].unit, proc[p].to, p)
  <2>1. /\ proc[p] \in Command /\ CommandOK(store, proc[p]) /\ proc[p].pc = "put"
        /\ store' = Write(store, proc[p].form, u, proc[p].repo)
    BY InvParts DEF Put, At
  <2>2. u \in Unit /\ Replays(proc[p].form.line, u) /\ u.state = proc[p].to /\ proc[p].form \in Form
    BY <2>1, PublishedUnit
  <2>3. proc[p].repo \in Repo \cup {Runtime}
    BY <2>1 DEF Command
  <2> HIDE DEF u
  <2>4. Grows(store, store')
    BY <1>0, <2>1, <2>2, <2>3, WriteSound
  <2>5. g = proc[p].form /\ store'.head[g] = u
    BY <1>0, <1>3, <1>4, <2>1, <2>2, <2>4, WriteHeads
  <2> QED  BY <1>2, <1>3, <2>1, <2>2, <2>5
<1>6. CASE \E p \in Author : Activate(p)
  <2> PICK p \in Author : Activate(p)
    BY <1>6
  <2>1. /\ Grows(store, store')
        /\ \A h \in Form : \/ store'.head[h] = store.head[h]
                           \/ store'.head[h].state \in {"active", "immutable"}
    BY ActivateHeads
  <2> QED  BY <1>3, <1>4, <2>1
<1>7. CASE \E h \in Fresh : Publish(h)
  <2> PICK h \in Fresh : Publish(h)
    BY <1>7
  <2> DEFINE u == Born(h.line)
  <2>1. store' = Write(store, h, u, Runtime) /\ h \in Form /\ h.line \in Line
    BY TransitionAssumption DEF Publish, Form
  <2>2. u \in Unit /\ Replays(h.line, u) /\ u.state # "completed" /\ Runtime \in Repo \cup {Runtime}
    BY <2>1, BornReplays DEF Born, BirthState
  <2> HIDE DEF u
  <2>3. Grows(store, store')
    BY <1>0, <2>1, <2>2, WriteSound
  <2> QED  BY <1>0, <1>3, <1>4, <2>1, <2>2, <2>3, WriteHeads
<1>8. CASE store' = store
  <2>1. Grows(store, store')
    BY <1>8 DEF Grows
  <2> QED  BY <1>4, <1>8, <2>1
<1> QED  BY <1>5, <1>6, <1>7, <1>8 DEF TransitionNext, Step, ReadLine, CollectStored,
         CollectDrafts, Membership, ScanRefs, ScanUnit, ActivationGate, ReadPlan, CompletionGate,
         CompletionUnread, RetireGate, ReplacedGate, Stop, DraftNote, ResolveDraft, PostNote,
         RemoveNoteDraft

----------------------------------------------------------------------------
(* Results *)

\* An active container's line, from its current form and back.
LEMMA ActiveCtrForm ==
  ASSUME NEW c \in ActiveCtrs
  PROVE  CurrentForm(store, c) \in ActiveForms(store) /\ CurrentForm(store, c).line = c
<1>1. c \in Ctr /\ c \in Line /\ InState(store, c, "active")
  BY DEF ActiveCtrs, Line
<1> QED  BY <1>1, CurrentIsCurrent DEF InState, Current, ActiveForms, CurrentIn

\* runtime/container.go:17-19: under one authority a repository never has two
\* active containers, with any number of containers, instances and
\* repositories, and with instances published between the reads of the gate.
THEOREM OneActive ==
  OneAuthority /\ TransitionSpec => []OneActivePerRepo
<1>1. SerialInv => OneActivePerRepo
  <2> SUFFICES ASSUME SerialInv, NEW c \in ActiveCtrs, NEW d \in ActiveCtrs, c # d
               PROVE  OwnerOf(c) # OwnerOf(d)
    BY DEF OneActivePerRepo
  <2> QED  BY ActiveCtrForm DEF SerialInv, ActiveApart, Unrelated, OwnerOf
<1> QED  BY <1>1, SerialSoundness, PTL

\* runtime/container.go:19-22: under one authority, and while no plan line is
\* new, the plan closures of two active containers are disjoint, whichever
\* repositories they are of.
THEOREM ClosuresStayDisjoint ==
  OneAuthority /\ ClosuresFixed /\ TransitionSpec => []ActiveClosuresDisjoint
<1> SUFFICES ASSUME OneAuthority, ClosuresFixed
             PROVE  TransitionSpec => []ActiveClosuresDisjoint
  OBVIOUS
<1>1. SerialInv => ActiveClosuresDisjoint
  <2> SUFFICES ASSUME SerialInv, NEW c \in ActiveCtrs, NEW d \in ActiveCtrs, c # d
               PROVE  ~Intersects(c, d)
    BY DEF ActiveClosuresDisjoint
  <2>1. PICK f \in ActiveForms(store) : f.line = c
    BY ActiveCtrForm
  <2>2. PICK g \in ActiveForms(store) : g.line = d
    BY ActiveCtrForm
  <2> QED  BY <2>1, <2>2 DEF SerialInv, ActiveApart, Unrelated
<1> QED  BY <1>1, SerialSoundness, PTL

\* runtime/transition.go:476-479 and rule R9: under one authority a retired
\* plan has no active container, and a superseded decision has a superseding
\* one that is published.
THEOREM SupersededStaysDone ==
  OneAuthority /\ TransitionSpec => []SupersededIsDone
<1>1. SerialInv => RetiredPlansIdle
  <2> SUFFICES ASSUME SerialInv, NEW q \in Plan, InState(store, q, "superseded"),
                      NEW c \in ActiveOn(q)
               PROVE  FALSE
    BY DEF RetiredPlansIdle
  <2>1. PICK f \in CurrentIn(store, "superseded") : f.line = q
    BY InStateForms DEF Line
  <2>2. c \in ActiveCtrs /\ PlanOf[c] = q
    BY DEF ActiveOn, ActiveCtrs
  <2>3. PICK g \in ActiveForms(store) : g.line = c
    BY <2>2, ActiveCtrForm
  <2> QED  BY <2>1, <2>2, <2>3 DEF SerialInv, RetiredIdle
<1>2. SerialInv => SupersededIsReplaced
  <2> SUFFICES ASSUME SerialInv, NEW a \in Adr, InState(store, a, "superseded")
               PROVE  \E s \in Supersedes : s[2] = a /\ Published(store, s[1])
    BY DEF SupersededIsReplaced
  <2>1. PICK f \in CurrentIn(store, "superseded") : f.line = a
    BY InStateForms DEF Line
  <2> QED  BY <2>1 DEF SerialInv, Replaced, HasReplacement
<1>3. SerialInv => SupersededIsDone
  BY <1>1, <1>2 DEF SupersededIsDone
<1> QED  BY <1>3, SerialSoundness, PTL

\* transition.go:715-718: under one authority, where reads do not fail and no
\* work item is new, a container is completed only when every work item its
\* tickets register is done or canceled, at the put and not at the gate alone.
THEOREM CompletionsAreDone ==
  OneAuthority /\ ItemsFixed /\ ~ReadFaults /\ TransitionSpec => CompletedWhenDone
<1> SUFFICES ASSUME OneAuthority, ItemsFixed, ~ReadFaults
             PROVE  TransitionSpec => CompletedWhenDone
  OBVIOUS
<1> DEFINE Done == \A c \in Ctr :
                     InState(store, c, "active") /\ InState(store', c, "completed") =>
                       \A t \in Ticket : t[1] = c /\ Published(store, t[2]) => Finished(t[2])
<1>1. TransitionInit => CompletionInv
  BY DEF TransitionInit, CompletionInv, CompletionHolds, Idle
<1>2. TransitionInv /\ SerialInv /\ CompletionInv /\ [TransitionNext]_transitionVars
        => CompletionInv'
  BY CompletionNext
<1>3. TransitionInv /\ SerialInv /\ CompletionInv /\ TransitionNext => Done
  <2> SUFFICES ASSUME TransitionInv, SerialInv, CompletionInv, TransitionNext, NEW c \in Ctr,
                      InState(store, c, "active"), InState(store', c, "completed")
               PROVE  ItemsFinished(store, c)
    BY DEF ItemsFinished, Finished
  <2> QED  BY CompletedByPut DEF CompletionInv, CompletionHolds
<1>4. TransitionSpec => [](TransitionInv /\ SerialInv /\ CompletionInv)
  BY <1>1, <1>2, SerialSoundness, TransitionSoundness, PTL DEF TransitionSpec
<1> HIDE DEF Done
<1>5. TransitionSpec => [][Done]_transitionVars
  BY <1>3, <1>4, PTL DEF TransitionSpec
<1> QED  BY <1>5 DEF CompletedWhenDone, Done
=============================================================================
