--------------------------- MODULE EkaTransition ----------------------------
(***************************************************************************)
(* The transition commands of the authoring API (runtime/transition.go and *)
(* the activation lock of runtime/container.go): each command is a process *)
(* that reads its line, evaluates the gates of the requested state, and    *)
(* publishes the new unit.                                                 *)
(*                                                                         *)
(* Every read of the store and of the drafts directory, and the publishing *)
(* put or batch, is a step of its own: Transition holds no transaction     *)
(* over its pipeline, so whatever other commands do in between is decided  *)
(* upon or overwritten unseen.  Relationships are constants (relate is a   *)
(* component of its own), tickets are registered before the commands run,  *)
(* and the adr- variant stands for the content-state lifecycles.           *)
(***************************************************************************)
EXTENDS EkaLines, FiniteSets

CONSTANTS
  PlanOf,      \* the depends-on plan of a container
  Deps,        \* the depends-on/derives-from targets of a plan
  Ticket,      \* registered tickets: pairs of a container and a work item
  Supersedes,  \* pairs of an adr- line and the one it supersedes
  Note,        \* cmt- lines
  NoteOn,      \* the work item a note discusses
  Implementer, \* the notes with role implementation
  Births,      \* the sets of forms that may be published before the commands run
  Fresh,       \* forms published while they run
  Posted,      \* notes whose drafts are published while they run
  Acts,        \* bound: the repositories that transition a line
  MaxLog,      \* bound: change-log entries of a work item
  ReadFaults,  \* the store can fail a read (a busy or closed database)
  NoForm

ASSUME TransitionAssumption ==
  /\ PlanOf \in [Ctr -> Plan]
  /\ Deps \in [Plan -> SUBSET Plan]
  /\ Ticket \subseteq Ctr \X Item
  /\ Supersedes \subseteq {s \in Adr \X Adr : s[1] # s[2]}
  /\ NoteOn \in [Note -> Item]
  /\ Implementer \subseteq Note
  /\ Births \subseteq SUBSET Form /\ Fresh \subseteq Form
  /\ Posted \subseteq Note
  /\ Acts \in [Line -> SUBSET Repo]
  /\ MaxLog \in Nat
  /\ ReadFaults \in BOOLEAN
  /\ NoForm \notin Form
  /\ NoUnit \notin [unit : Unit, repo : Repo \cup {Runtime}]

VARIABLES
  store,  \* the references and the payload archive of the project
  notes,  \* per note: its draft file and its published state
  proc    \* per authority: the command it runs

transitionVars == <<store, notes, proc>>

NoteState == {"none", "open", "resolved"}

Pc == {"idle", "stored", "drafts", "member", "refs", "scan", "lock",
       "batch", "items", "retire", "replaced", "put"}

\* A command: the unit it read, what it asks for, and what its gates saw.
Command ==
  [pc     : Pc,
   form   : Form \cup {NoForm},
   unit   : Unit \cup {NoUnit},
   to     : State \cup {"none"},
   repo   : Repo \cup {Runtime},
   seen   : SUBSET (Note \X {"open", "resolved"}),   \* gate notes
   rows   : SUBSET (Form \X (Repo \cup {Runtime})),  \* reference rows to read
   ctrs   : [Form -> [unit : Unit, repo : Repo \cup {Runtime}] \cup {NoUnit}],
   lock   : [Form -> Unit \cup {NoUnit}],            \* the plan put of a batch
   warned : BOOLEAN,                                 \* TransitionResult.Warning
   open   : SUBSET Note,                             \* history: open at the start
   slipped : SUBSET Note]                            \* history: left the drafts unread

NoneRead == [f \in Form |-> NoUnit]

Idle == [pc |-> "idle", form |-> NoForm, unit |-> NoUnit, to |-> "none",
         repo |-> Runtime, seen |-> {}, rows |-> {}, ctrs |-> NoneRead,
         lock |-> NoneRead, warned |-> FALSE, open |-> {}, slipped |-> {}]

TransitionInit ==
  /\ \E born \in Births :
       store = [head  |-> [f \in Form |-> IF f \in born THEN Born(f.line) ELSE NoUnit],
                past  |-> [f \in Form |-> IF f \in born THEN {Born(f.line)} ELSE {}],
                owner |-> [f \in Form |-> Runtime]]
  /\ notes = [n \in Note |-> [draft |-> "none", unit |-> "none", put |-> FALSE]]
  /\ proc = [p \in Author |-> Idle]

At(p, pc) == proc[p].pc = pc

Goto(p, pc) == proc' = [proc EXCEPT ![p].pc = pc]

\* The command ends: published, refused, or stopped by an error.
End(p) == proc' = [proc EXCEPT ![p] = Idle]

\* A gate passes or refuses.
Decide(p, pass, pc) == IF pass THEN Goto(p, pc) ELSE End(p)

----------------------------------------------------------------------------
(* The line and the request *)

OpenNotes(item) ==
  {n \in Note : NoteOn[n] = item /\ "open" \in {notes[n].draft, notes[n].unit}}

\* The first gate of a legal request.
FirstGate(line, to) ==
  IF line \in Item THEN "stored"
  ELSE IF line \in Ctr THEN (IF to = "active" THEN "refs" ELSE "items")
  ELSE IF line \in Plan /\ to = "superseded" THEN "retire"
  ELSE IF line \in Adr /\ to = "superseded" THEN "replaced"
  ELSE "put"

ReadLine(p, line, to, repo) ==
  LET f == CurrentForm(store, line)
      u == store.head[f]
  IN  /\ At(p, "idle") /\ repo \in Acts[line]
      /\ Published(store, line)
      /\ <<u.state, to>> \in RequestSteps(line)
      /\ line \in Item => Len(u.log) < MaxLog
      /\ proc' = [proc EXCEPT ![p] =
                    [Idle EXCEPT !.pc = FirstGate(line, to), !.form = f, !.unit = u,
                       !.to = to, !.repo = repo,
                       !.open = IF line \in Item THEN OpenNotes(line) ELSE {}]]
      /\ UNCHANGED <<store, notes>>

TargetOf(p) == proc[p].form.line

----------------------------------------------------------------------------
(* Work items: the note gates and the container membership *)

\* Faulty variant: a failed read of the store counts as no notes.
CollectStoredUnread(p) ==
  /\ At(p, "stored")
  /\ Goto(p, "drafts")
  /\ UNCHANGED <<store, notes>>

\* Published cmt- units of the project: one read of the store.
CollectStored(p) ==
  /\ At(p, "stored")
  /\ proc' = [proc EXCEPT ![p].pc = "drafts",
                ![p].seen = {<<n, notes[n].unit>> :
                   n \in {m \in Note : NoteOn[m] = TargetOf(p) /\ notes[m].unit # "none"}}]
  /\ UNCHANGED <<store, notes>>

\* gateViolations: in-review needs a resolved implementation note, done has
\* every note resolved.
NotesPass(to, seen) ==
  /\ to = "in-review" => \E n \in Implementer : <<n, "resolved">> \in seen
  /\ to = "done" => \A s \in seen : s[2] = "resolved"

\* cmt- drafts under EKA_HOME/drafts: a later read of a directory.
CollectDrafts(p) ==
  LET drafts == {<<n, notes[n].draft>> :
        n \in {m \in Note : NoteOn[m] = TargetOf(p) /\ notes[m].draft # "none"}}
  IN  /\ At(p, "drafts")
      /\ Decide(p, NotesPass(proc[p].to, proc[p].seen \cup drafts), "member")
      /\ UNCHANGED <<store, notes>>

\* registeredInActiveContainer: a ticket of the item whose container has an
\* active unit, whichever instance it is.
Registered(item) ==
  \E t \in Ticket :
    /\ t[2] = item
    /\ \E f \in Form : /\ f.line = t[1] /\ store.head[f] # NoUnit
                       /\ store.head[f].state = "active"

\* Not registered: the command refuses, or goes on with a warning when the
\* caller confirmed.
Membership(p) ==
  /\ At(p, "member")
  /\ IF Registered(TargetOf(p))
       THEN Goto(p, "put")
       ELSE \/ End(p)
            \/ proc' = [proc EXCEPT ![p].pc = "put", ![p].warned = TRUE]
  /\ UNCHANGED <<store, notes>>

----------------------------------------------------------------------------
(* Containers: activation *)

\* RefsByProject: the reference rows; their units are read one by one later.
ScanRefs(p) ==
  /\ At(p, "refs")
  /\ proc' = [proc EXCEPT ![p].pc = "scan",
                ![p].rows = {<<f, store.owner[f]>> :
                   f \in {g \in Form : g.line \in Ctr /\ store.head[g] # NoUnit}}]
  /\ UNCHANGED <<store, notes>>

ScanUnit(p) ==
  /\ At(p, "scan")
  /\ \E r \in proc[p].rows :
       proc' = [proc EXCEPT ![p].rows = @ \ {r},
                  ![p].ctrs[r[1]] = [unit |-> store.head[r[1]], repo |-> r[2]]]
  /\ UNCHANGED <<store, notes>>

\* planClosure: every line reached over depends-on and derives-from; a line
\* that is not in the store is recorded and leads nowhere.
Closure(plan) ==
  {q \in Plan : \A S \in SUBSET Plan :
     /\ plan \in S
     /\ \A x \in S : Published(store, x) => Deps[x] \subseteq S
     => q \in S}

Intersects(c, d) == Closure(PlanOf[c]) \cap Closure(PlanOf[d]) # {}

\* otherActiveContainers over what the scan read: highest instance per line.
OthersActive(p) ==
  LET ctrs == proc[p].ctrs
      read == {f \in Form : ctrs[f] # NoUnit}
  IN  {f \in read : /\ f.line # TargetOf(p)
                    /\ ctrs[f].unit.state = "active"
                    /\ \A g \in read : g.line = f.line => g.version <= f.version}

\* Faulty variants: containers of other repositories are not compared; those
\* of the same repository are not.
ActivationGateRepoOnly(p) ==
  /\ At(p, "scan") /\ proc[p].rows = {}
  /\ Decide(p, \A f \in OthersActive(p) : proc[p].ctrs[f].repo # proc[p].repo, "lock")
  /\ UNCHANGED <<store, notes>>

ActivationGateClosureOnly(p) ==
  /\ At(p, "scan") /\ proc[p].rows = {}
  /\ Decide(p, \A f \in OthersActive(p) : ~Intersects(TargetOf(p), f.line), "lock")
  /\ UNCHANGED <<store, notes>>

\* No other active container of the acting repository; a plan closure that is
\* disjoint from that of every active container of another one.
ActivationGate(p) ==
  /\ At(p, "scan") /\ proc[p].rows = {}
  /\ Decide(p, \A f \in OthersActive(p) :
                 /\ proc[p].ctrs[f].repo # proc[p].repo
                 /\ ~Intersects(TargetOf(p), f.line), "lock")
  /\ UNCHANGED <<store, notes>>

\* Faulty variant: the batch holds the container alone.
ReadPlanUnlocked(p) ==
  LET plan == PlanOf[TargetOf(p)]
  IN  /\ At(p, "lock")
      /\ Decide(p, InState(store, plan, "immutable") \/ InState(store, plan, "approved"),
                "batch")
      /\ UNCHANGED <<store, notes>>

\* lockPlanPuts: an approved plan is locked by the batch, an immutable one
\* needs no lock, any other state refuses.
ReadPlan(p) ==
  LET plan == PlanOf[TargetOf(p)]
  IN  /\ At(p, "lock")
      /\ IF InState(store, plan, "approved")
           THEN proc' = [proc EXCEPT ![p].pc = "batch",
                           ![p].lock[CurrentForm(store, plan)] =
                              Moved(Current(store, plan), "immutable", p)]
           ELSE Decide(p, InState(store, plan, "immutable"), "batch")
      /\ UNCHANGED <<store, notes>>

\* PutUnits: the active container and its locked plan in one transaction.
Activate(p) ==
  LET c == proc[p]
      activated == Write(store, c.form, Moved(c.unit, "active", p), c.repo)
      locks == {f \in Form : c.lock[f] # NoUnit}
  IN  /\ At(p, "batch")
      /\ store' = IF locks = {} THEN activated
                  ELSE LET f == CHOOSE g \in locks : TRUE
                       IN  Write(activated, f, c.lock[f], c.repo)
      /\ End(p)
      /\ UNCHANGED notes

----------------------------------------------------------------------------
(* Containers: completion; plans and decisions: retirement *)

Finished(item) == Current(store, item).state \in {"done", "canceled"}

\* Faulty variant: a canceled or reviewed item will do.
CompletionGateLoose(p) ==
  /\ At(p, "items")
  /\ Decide(p, \A t \in Ticket : t[1] = TargetOf(p) /\ Published(store, t[2]) =>
                 Current(store, t[2]).state \in {"in-review", "done", "canceled"}, "put")
  /\ UNCHANGED <<store, notes>>

\* containerWorkItems, current instances, in one read of the project.
CompletionGate(p) ==
  /\ At(p, "items")
  /\ Decide(p, \A t \in Ticket :
                 t[1] = TargetOf(p) /\ Published(store, t[2]) => Finished(t[2]), "put")
  /\ UNCHANGED <<store, notes>>

\* ... or none at all when the read fails: there is nothing pending then.
CompletionUnread(p) ==
  /\ ReadFaults
  /\ At(p, "items")
  /\ Goto(p, "put")
  /\ UNCHANGED <<store, notes>>

ActiveOn(plan) == {c \in Ctr : PlanOf[c] = plan /\ InState(store, c, "active")}

\* Faulty variant: retirement without the gate.
RetireGateNot(p) ==
  /\ At(p, "retire")
  /\ Goto(p, "put")
  /\ UNCHANGED <<store, notes>>

\* activeContainersForPlan.
RetireGate(p) ==
  /\ At(p, "retire")
  /\ Decide(p, ActiveOn(TargetOf(p)) = {}, "put")
  /\ UNCHANGED <<store, notes>>

\* hasSuperseder: a published decision that supersedes this one.
ReplacedGate(p) ==
  /\ At(p, "replaced")
  /\ Decide(p, \E s \in Supersedes : s[2] = TargetOf(p) /\ Published(store, s[1]), "put")
  /\ UNCHANGED <<store, notes>>

\* Transition and publishStateTransition: one put of the unit that was read.
Put(p) ==
  LET c == proc[p]
  IN  /\ At(p, "put")
      /\ store' = Write(store, c.form, Moved(c.unit, c.to, p), c.repo)
      /\ End(p)
      /\ UNCHANGED notes

\* A failed read, a busy store, or the end of the process.
Stop(p) ==
  /\ ~At(p, "idle")
  /\ End(p)
  /\ UNCHANGED <<store, notes>>

----------------------------------------------------------------------------
(* Publication and notes, as the gates see them *)

\* A new line, or the next instance of one, with its template's state; what a
\* decision supersedes resolves (Rule 5).
Publish(f) ==
  /\ f \in Fresh /\ store.head[f] = NoUnit
  /\ \A g \in Form : g.line = f.line /\ store.head[g] # NoUnit => g.version < f.version
  /\ f.version = 1 \/ Published(store, f.line)
  /\ \A s \in Supersedes : s[1] = f.line => Published(store, s[2])
  /\ store' = Write(store, f, Born(f.line), Runtime)
  /\ UNCHANGED <<notes, proc>>

SetNote(n, field, value) == notes' = [notes EXCEPT ![n] = [@ EXCEPT ![field] = value]]

\* NoteDraft, on a published work item; or ResolveNote of a published note,
\* which scaffolds a draft.
DraftNote(n) ==
  /\ Published(store, NoteOn[n])
  /\ notes[n].draft = "none" /\ notes[n].unit # "resolved"
  /\ SetNote(n, "draft", "open")
  /\ UNCHANGED <<store, proc>>

ResolveDraft(n) ==
  /\ notes[n].draft = "open" /\ ~notes[n].put
  /\ SetNote(n, "draft", "resolved")
  /\ UNCHANGED <<store, proc>>

\* Publish: the put of the next instance, then the removal of the draft.
PostNote(n) ==
  /\ n \in Posted
  /\ notes[n].draft # "none" /\ ~notes[n].put
  /\ notes' = [notes EXCEPT ![n] = [@ EXCEPT !.unit = notes[n].draft, !.put = TRUE]]
  /\ UNCHANGED <<store, proc>>

\* A command that has read the published notes, without this one, and not yet
\* the drafts will not see it: it slips through between the two reads.
Slips(p, n) == At(p, "drafts") /\ \A s \in proc[p].seen : s[1] # n

RemoveNoteDraft(n) ==
  /\ notes[n].put
  /\ notes' = [notes EXCEPT ![n] = [@ EXCEPT !.draft = "none", !.put = FALSE]]
  /\ proc' = [p \in Author |->
                IF Slips(p, n) THEN [proc[p] EXCEPT !.slipped = @ \cup {n}] ELSE proc[p]]
  /\ UNCHANGED store

Step(p) ==
  \/ CollectStored(p) \/ CollectDrafts(p) \/ Membership(p)
  \/ ScanRefs(p) \/ ScanUnit(p) \/ ActivationGate(p) \/ ReadPlan(p) \/ Activate(p)
  \/ CompletionGate(p) \/ CompletionUnread(p) \/ RetireGate(p) \/ ReplacedGate(p)
  \/ Put(p) \/ Stop(p)

TransitionNext ==
  \/ \E p \in Author, line \in Line, to \in State, repo \in Repo :
       ReadLine(p, line, to, repo)
  \/ \E p \in Author : Step(p)
  \/ \E f \in Fresh : Publish(f)
  \/ \E n \in Note : DraftNote(n) \/ ResolveDraft(n) \/ PostNote(n) \/ RemoveNoteDraft(n)

TransitionSpec == TransitionInit /\ [][TransitionNext]_transitionVars

----------------------------------------------------------------------------
(* Properties of any number of concurrent commands *)

\* Type invariant of the store, the notes and the commands: a reference leads
\* to an archived payload, and a command holds units it has read.
TransitionTypeOK ==
  /\ store \in [head  : [Form -> Unit \cup {NoUnit}],
                past  : [Form -> SUBSET Unit],
                owner : [Form -> Repo \cup {Runtime}]]
  /\ \A f \in Form : store.head[f] # NoUnit => store.head[f] \in store.past[f]
  /\ notes \in [Note -> [draft : NoteState, unit : NoteState, put : BOOLEAN]]
  /\ proc \in [Author -> Command]

\* Every payload ever published, current or overtaken by another command's,
\* carries a change log that is a path of its state table and ends in its
\* state: what the conformance rule on change logs checks of each unit.
LogsReplay ==
  \A f \in Form : \A u \in store.past[f] : Replays(f.line, u)

\* container.go:22-26: the active container and its locked plan land together
\* or not at all: a container that was ever active has a plan that was
\* immutable, whatever other commands published since.
ActiveHasLock ==
  \A f \in Form : f.line \in Ctr =>
    ((\E u \in store.past[f] : u.state = "active")
     => \E g \in Form : /\ g.line = PlanOf[f.line]
                        /\ \E u \in store.past[g] : u.state = "immutable")

\* Conformance R9: a superseded decision has a published replacement.
SupersededIsReplaced ==
  \A a \in Adr : InState(store, a, "superseded") =>
    \E s \in Supersedes : s[2] = a /\ Published(store, s[1])

----------------------------------------------------------------------------
(* Properties of commands that run one after the other *)

ActiveCtrs == {c \in Ctr : InState(store, c, "active")}

OwnerOf(c) == store.owner[CurrentForm(store, c)]

\* container.go:17-19: one active container per source repository.
OneActivePerRepo ==
  \A c, d \in ActiveCtrs : c # d => OwnerOf(c) # OwnerOf(d)

\* container.go:19-22: the plan closures of active containers are disjoint.
ActiveClosuresDisjoint ==
  \A c, d \in ActiveCtrs : c # d => ~Intersects(c, d)

\* transition.go:476-479: a retired plan has no active container: neither a
\* retirement under one nor an activation on a retired plan.
RetiredPlansIdle ==
  \A q \in Plan : InState(store, q, "superseded") => ActiveOn(q) = {}

\* What is superseded can be given up: nothing runs on a retired plan, and a
\* superseded decision has its replacement, whatever is published, activated
\* and pulled back while the gates are evaluated.
SupersededIsDone == RetiredPlansIdle /\ SupersededIsReplaced

\* transition.go:715-718: a container is completed when every work item its
\* tickets register is done or canceled.
CompletedWhenDone ==
  [][\A c \in Ctr :
       InState(store, c, "active") /\ InState(store', c, "completed") =>
         \A t \in Ticket : t[1] = c /\ Published(store, t[2]) => Finished(t[2])]_transitionVars

\* transition.go:172-173: done requires every note resolved: a note that is
\* open from the start of a command until it publishes stops it, whatever is
\* drafted, resolved and published meanwhile, unless its draft was published
\* and removed just between the two reads of the gate.
DoneSeesOpenNotes ==
  \A p \in Author : At(p, "put") /\ proc[p].to = "done" =>
    proc[p].open \cap OpenNotes(TargetOf(p)) \subseteq proc[p].slipped

----------------------------------------------------------------------------
(* What comments of the code say, and the code does not do *)

\* transition.go:172-173, of every note: one whose draft is published between
\* the two reads of the gate is in neither.
DoneSeesEveryNote ==
  \A p \in Author : At(p, "put") /\ proc[p].to = "done" =>
    proc[p].open \cap OpenNotes(TargetOf(p)) = {}

\* transition.go:478-479: a transition appends to the history of its form and
\* never edits it: no published entry is lost.
HistoryKept ==
  [][\A f \in Form : store.head[f] # NoUnit =>
       LET old == store.head[f].log
           new == store'.head[f].log
       IN  Len(old) <= Len(new) /\ SubSeq(new, 1, Len(old)) = old]_transitionVars

\* transition.go:176-178: without a warning, the work item is registered in
\* the current active container.
UnwarnedIsRegistered ==
  [][\A p \in Author :
       At(p, "member") /\ proc'[p].pc = "put" /\ ~proc'[p].warned =>
         \E t \in Ticket : t[2] = TargetOf(p) /\ InState(store, t[1], "active")]_transitionVars
=============================================================================
