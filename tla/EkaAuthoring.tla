---------------------------- MODULE EkaAuthoring ----------------------------
(***************************************************************************)
(* The authoring commands over the drafts of one project: eka new and its  *)
(* batch, note, publish and its batch, inline publication, relate, note    *)
(* resolve, discard and the editor (runtime/draft.go, batch.go, note.go,   *)
(* note_resolve.go, relate.go).                                            *)
(*                                                                         *)
(* A command is a process.  Every look at the drafts directory or at the   *)
(* store, and every write, is a step of its own: nothing is locked between *)
(* them, and the process may end anywhere.  A file is written by an open   *)
(* and a write; a process that ends in between leaves a torn file, which   *)
(* ScanFile refuses.  Contents are told apart by the creation they stem    *)
(* from and the number of editor saves since.                              *)
(***************************************************************************)
EXTENDS Integers, Sequences, FiniteSets

CONSTANTS
  Line,        \* artifact lines of the project
  Note,        \* the cmt- lines among them
  Strict,      \* lines whose unresolved references refuse a publication: the
               \* content-state is not draft
  Derived,     \* the ids a note or a reply on a line may get, in order
  Scaffolds,   \* requests of eka new: sequences of a line and its references
  Related,     \* pairs of a line and the target relate adds to it
  Author,
  Sessions,    \* which verbs each author uses
  MaxVersion,  \* bound: instance versions of a line
  MaxTicket,   \* bound, per line: creations of its draft
  MaxEdit,     \* bound: editor saves of one draft
  Gone,        \* no draft file
  Torn,        \* a draft file without its content
  NoUnit       \* the form is not published

Version == 1..MaxVersion

Content == [ticket : Nat, edit : 0..MaxEdit, rels : SUBSET Line,
            open : BOOLEAN]

Request == [line : Line, rels : SUBSET Line]

\* "repoint" is relate by one who names published lines only; "cmt" is for the
\* note lines that eka new and inline publication name.
Verb == {"new", "cmt", "note", "publish", "batch", "inline", "relate", "repoint",
         "resolve", "reply", "discard", "edit", "crash"}

ASSUME AuthoringAssumption ==
  /\ Note \subseteq Line /\ Strict \subseteq Line
  /\ Derived \in [Line -> Seq(Note)]
  /\ Scaffolds \subseteq Seq(Request) \ {<<>>}
  /\ Related \subseteq {r \in Line \X Line : r[1] # r[2]}
  /\ \A s \in Sessions : s \in [Author -> SUBSET Verb]
  /\ MaxVersion \in Nat /\ MaxTicket \in [Line -> Nat] /\ MaxEdit \in Nat
  /\ NoUnit \notin Content /\ Torn \notin Content /\ Gone # Torn
  /\ Gone \notin Content

VARIABLES
  file,     \* per line: the body of its draft file
  tickets,  \* per line: how many drafts of it were created
  head,     \* per line and version: the content its reference leads to
  past,     \* per line and version: every payload archived for it
  proc,     \* per author: the command under way
  may       \* per author: the verbs of the session

vars == <<file, tickets, head, past, proc, may>>

Idle == [verb |-> "none", pc |-> "idle", line |-> CHOOSE l \in Line : TRUE,
         todo |-> <<>>, made |-> {}, left |-> {}, read |-> NoUnit, version |-> 0,
         stage |-> "none", drafted |-> FALSE, refs |-> [l \in Line |-> {}],
         queue |-> {}]

Init ==
  /\ file = [l \in Line |-> Gone]
  /\ tickets = [l \in Line |-> 0]
  /\ head = [l \in Line |-> [v \in Version |-> NoUnit]]
  /\ past = [l \in Line |-> [v \in Version |-> {}]]
  /\ proc = [a \in Author |-> Idle]
  /\ may \in Sessions

At(a, pc) == proc[a].pc = pc

Goto(a, pc) == proc' = [proc EXCEPT ![a].pc = pc]

End(a) == proc' = [proc EXCEPT ![a] = Idle]

Start(a, verb, pc, l) ==
  /\ At(a, "idle") /\ verb \in may[a]
  /\ proc' = [proc EXCEPT ![a] = [Idle EXCEPT !.verb = verb, !.pc = pc, !.line = l]]

StoreStays == UNCHANGED <<head, past, may>>
AllStays   == UNCHANGED <<file, tickets, head, past, may>>

----------------------------------------------------------------------------
(* What a command sees *)

Readable(l) == file[l] \notin {Gone, Torn}

Instances(l) == {v \in Version : head[l][v] # NoUnit}

Published(l) == Instances(l) # {}

\* MaxInstanceVersion.
MaxInstanceVersion(l) ==
  IF Published(l) THEN CHOOSE v \in Instances(l) : \A w \in Instances(l) : w <= v ELSE 0

\* UnitsByLine is ordered by form: units[0] is the lowest instance.
FirstInstance(l) == CHOOSE v \in Instances(l) : \A w \in Instances(l) : v <= w

\* Rule 5 of ValidateCKO: every reference of a strict line resolves in the
\* store; publication also takes a draft of the target.
Resolves(l, rels, tolerant) ==
  l \in Strict => \A t \in rels : Published(t) \/ (tolerant /\ Readable(t))

----------------------------------------------------------------------------
(* newDraftFile *)

MayWrite(a, l) == l \in Note => "cmt" \in may[a]

\* eka new (a request of one) and the batch scaffold.
New(a, reqs) ==
  /\ At(a, "idle") /\ "new" \in may[a]
  /\ \A i \in DOMAIN reqs : MayWrite(a, reqs[i].line)
  /\ proc' = [proc EXCEPT ![a] = [Idle EXCEPT !.verb = "new", !.pc = "create",
                                    !.todo = reqs]]
  /\ AllStays

\* The deterministic template of a request.
Template(r) == [ticket |-> tickets[r.line] + 1, edit |-> 0, rels |-> r.rels,
                open |-> r.line \in Note]

Creatable(l) == file[l] = Gone /\ tickets[l] < MaxTicket[l]

\* Where a scaffold returns to when nothing is left of the request.
AfterCreate(c) ==
  IF Len(c.todo) > 1 THEN "create"
  ELSE IF c.verb # "resolve" THEN "idle"
  ELSE IF c.stage = "reply" THEN "stat" ELSE "redraft"

\* O_CREATE | O_EXCL, then the content.
Create(a) ==
  LET c == proc[a]
      r == Head(c.todo)
      pc == AfterCreate(c)
  IN  /\ At(a, "create") /\ Creatable(r.line)
      /\ file' = [file EXCEPT ![r.line] = Template(r)]
      /\ tickets' = [tickets EXCEPT ![r.line] = @ + 1]
      /\ IF pc = "idle" THEN End(a)
         ELSE proc' = [proc EXCEPT ![a].pc = pc, ![a].todo = Tail(@),
                         ![a].made = @ \cup {<<r.line, tickets[r.line] + 1>>}]
      /\ StoreStays

\* The file exists, or cannot be written: the run is refused and removes what
\* it created.
CreateFails(a) ==
  /\ At(a, "create") /\ ~Creatable(Head(proc[a].todo).line)
  /\ IF proc[a].verb = "new"
       THEN proc' = [proc EXCEPT ![a].pc = "rollback", ![a].left = proc[a].made]
       ELSE End(a)
  /\ AllStays

\* rollbackCreated: by path, whatever the file holds by now.
Rollback(a) ==
  /\ At(a, "rollback")
  /\ \E m \in proc[a].left :
       /\ file' = [file EXCEPT ![m[1]] = Gone]
       /\ proc' = [proc EXCEPT ![a].left = @ \ {m}]
  /\ UNCHANGED tickets /\ StoreStays

\* Faulty variant: the draft created last stays.
RolledBackShort(a) ==
  /\ At(a, "rollback") /\ Cardinality(proc[a].left) <= 1
  /\ Goto(a, "refused")
  /\ AllStays

RolledBack(a) ==
  /\ At(a, "rollback") /\ proc[a].left = {}
  /\ Goto(a, "refused")
  /\ AllStays

\* NoteDraft and NoteReply: the lowest id that is neither drafted nor
\* published, for a subject that is; the id is taken by the create alone.
Free(l) == {i \in DOMAIN Derived[l] :
              LET r == Derived[l][i] IN file[r] = Gone /\ ~Published(r)}

Derive(a, l, verb, stage) ==
  /\ file[l] # Gone \/ Published(l)
  /\ Free(l) # {}
  /\ LET i == CHOOSE j \in Free(l) : \A k \in Free(l) : j <= k
     IN  proc' = [proc EXCEPT ![a] = [Idle EXCEPT !.verb = verb, !.pc = "create",
                    !.line = l, !.stage = stage,
                    !.todo = <<[line |-> Derived[l][i], rels |-> {l}]>>]]
  /\ AllStays

NoteDraft(a, l) ==
  /\ At(a, "idle") /\ (IF l \in Note THEN "reply" ELSE "note") \in may[a]
  /\ Derive(a, l, "note", "none")

----------------------------------------------------------------------------
(* Publish *)

Publish(a, l) == Start(a, "publish", "scan", l) /\ AllStays

\* PublishInline: the content comes with the call.
PublishInline(a, r) ==
  /\ At(a, "idle") /\ "inline" \in may[a] /\ MayWrite(a, r.line)
  /\ tickets[r.line] < MaxTicket[r.line]
  /\ proc' = [proc EXCEPT ![a] = [Idle EXCEPT !.verb = "inline", !.pc = "version",
                                    !.line = r.line, !.read = Template(r)]]
  /\ tickets' = [tickets EXCEPT ![r.line] = @ + 1]
  /\ UNCHANGED file /\ StoreStays

\* Faulty variant: a batch goes on after a draft it cannot read.
ScanRetries(a) ==
  LET c == proc[a]
  IN  /\ At(a, "scan")
      /\ IF Readable(c.line)
           THEN proc' = [proc EXCEPT ![a].pc = "version", ![a].read = file[c.line]]
           ELSE IF c.verb = "batch"
             THEN proc' = [proc EXCEPT ![a].pc = "next", ![a].queue = @ \cup {c.line}]
             ELSE End(a)
      /\ AllStays

\* resolveDraftFile, ScanFile and the identity checks.
Scan(a) ==
  LET c == proc[a]
  IN  /\ At(a, "scan")
      /\ IF Readable(c.line)
           THEN proc' = [proc EXCEPT ![a].pc = "version", ![a].read = file[c.line]]
           ELSE End(a)
      /\ AllStays

\* Faulty variant: the highest version again.
AssignVersionSame(a) ==
  LET max == MaxInstanceVersion(proc[a].line)
  IN  /\ At(a, "version")
      /\ IF max = MaxVersion THEN End(a)
         ELSE proc' = [proc EXCEPT ![a].pc = "validate",
                         ![a].version = IF max = 0 THEN 1 ELSE max]
      /\ AllStays

\* The next version, or an explicit one that exceeds the highest.
AssignVersion(a) ==
  LET c == proc[a]
      max == MaxInstanceVersion(c.line)
  IN  /\ At(a, "version")
      /\ IF max = MaxVersion THEN End(a)
         ELSE \E v \in (max + 1)..MaxVersion :
                /\ c.verb \in {"batch", "resolve"} => v = max + 1
                /\ proc' = [proc EXCEPT ![a].pc = "validate", ![a].version = v]
      /\ AllStays

\* ValidateCKO with the store and the drafts.
Validate(a) ==
  /\ At(a, "validate")
  /\ IF Resolves(proc[a].line, proc[a].read.rels, TRUE) THEN Goto(a, "put") ELSE End(a)
  /\ AllStays

\* Faulty variant: the reference moves to a payload the archive holds.
WriteUnitBlind(l, v, c) ==
  /\ head' = [head EXCEPT ![l][v] = c]
  /\ past' = [past EXCEPT ![l][v] = @ \cup {c}]

\* PutUnit: a payload the archive holds for the form leaves its reference.
WriteUnit(l, v, c) ==
  /\ head' = IF c \in past[l][v] THEN head ELSE [head EXCEPT ![l][v] = c]
  /\ past' = [past EXCEPT ![l][v] = @ \cup {c}]

PutUnit(a) ==
  LET c == proc[a]
  IN  /\ At(a, "put")
      /\ WriteUnit(c.line, c.version, c.read)
      /\ IF c.verb = "inline" THEN End(a) ELSE Goto(a, "remove")
      /\ UNCHANGED <<file, tickets, may>>

\* removeDraftAfterPublish: whatever the path holds by now; a file that is
\* gone is taken for a concurrent publication.
RemoveDraft(a) ==
  LET c == proc[a]
  IN  /\ At(a, "remove")
      /\ file' = [file EXCEPT ![c.line] = Gone]
      /\ CASE c.verb = "batch"   -> Goto(a, "next")
           [] c.verb = "resolve" -> Goto(a, "resolved")
           [] OTHER              -> End(a)
      /\ UNCHANGED tickets /\ StoreStays

----------------------------------------------------------------------------
(* PublishBatch *)

PublishBatch(a) == Start(a, "batch", "list", Idle.line) /\ AllStays

\* The drafts of the project and their references; a torn one refuses.
ListDrafts(a) ==
  LET pending == {l \in Line : file[l] # Gone}
  IN  /\ At(a, "list")
      /\ IF pending = {} \/ \E l \in pending : file[l] = Torn
           THEN End(a)
           ELSE proc' = [proc EXCEPT ![a].pc = "edges", ![a].queue = pending,
                  ![a].refs = [l \in Line |-> IF l \in pending THEN file[l].rels ELSE {}]]
      /\ AllStays

\* batchTopoOrder fails: drafts that wait for each other.
Cyclic(refs, S) == \E C \in SUBSET S : C # {} /\ \A l \in C : refs[l] \cap C # {}

\* Faulty variant: a target that is neither pending nor published passes.
CheckEdgesLoose(a) ==
  LET c == proc[a]
  IN  /\ At(a, "edges")
      /\ IF Cyclic(c.refs, c.queue) THEN End(a) ELSE Goto(a, "next")
      /\ AllStays

\* Every target is pending or published, and the drafts can be ordered.
CheckEdges(a) ==
  LET c == proc[a]
  IN  /\ At(a, "edges")
      /\ IF /\ \A l \in c.queue, t \in Line : t \in c.refs[l] => t \in c.queue \/ Published(t)
            /\ ~Cyclic(c.refs, c.queue)
           THEN Goto(a, "next") ELSE End(a)
      /\ AllStays

\* The next draft none of whose targets waits; its own Publish.
NextDraft(a) ==
  LET c == proc[a]
  IN  /\ At(a, "next")
      /\ \/ c.queue = {} /\ End(a)
         \/ \E l \in c.queue :
              /\ c.refs[l] \cap c.queue = {}
              /\ proc' = [proc EXCEPT ![a].pc = "scan", ![a].line = l,
                                      ![a].queue = @ \ {l}]
      /\ AllStays

----------------------------------------------------------------------------
(* Relate *)

Relate(a, r) ==
  /\ At(a, "idle")
  /\ "relate" \in may[a] \/ ("repoint" \in may[a] /\ Published(r[1]))
  /\ proc' = [proc EXCEPT ![a] = [Idle EXCEPT !.verb = "relate", !.pc = "current",
                                    !.line = r[1], !.refs[r[1]] = {r[2]}]]
  /\ AllStays

Added(c) == c.refs[c.line]

\* The current instance, else the draft; nothing to do when the edge is there.
ReadCurrent(a) ==
  LET c == proc[a]
      v == MaxInstanceVersion(c.line)
      old == IF v > 0 THEN head[c.line][v] ELSE file[c.line]
      next == [old EXCEPT !.rels = @ \cup Added(c)]
  IN  /\ At(a, "current")
      /\ IF old \in {Gone, Torn} \/ next = old THEN End(a)
         ELSE proc' = [proc EXCEPT ![a].pc = IF v > 0 THEN "gate" ELSE "reread",
                                   ![a].read = next, ![a].version = v]
      /\ AllStays

\* ValidateCKO of the would-be unit: here no draft is tolerated.
RelateGate(a) ==
  /\ At(a, "gate")
  /\ IF Resolves(proc[a].line, proc[a].read.rels, FALSE) THEN Goto(a, "repoint") ELSE End(a)
  /\ AllStays

\* RepointUnit at the instance that was read.
Repoint(a) ==
  LET c == proc[a]
  IN  /\ At(a, "repoint")
      /\ head' = [head EXCEPT ![c.line][c.version] = c.read]
      /\ past' = [past EXCEPT ![c.line][c.version] = @ \cup {c.read}]
      /\ End(a)
      /\ UNCHANGED <<file, tickets, may>>

\* rewriteDraftRelationships reads the file again: the scan decides the
\* references, this read the rest.
Reread(a) ==
  LET c == proc[a]
  IN  /\ At(a, "reread")
      /\ IF Readable(c.line)
           THEN proc' = [proc EXCEPT ![a].pc = "rewrite",
                           ![a].read = [file[c.line] EXCEPT !.rels = c.read.rels]]
           ELSE End(a)
      /\ AllStays

\* os.WriteFile: also creates the file.
Rewrite(a) ==
  LET c == proc[a]
  IN  /\ At(a, "rewrite")
      /\ file' = [file EXCEPT ![c.line] = c.read]
      /\ IF c.verb = "relate" THEN End(a)
         ELSE Goto(a, IF c.stage = "scaffold" THEN "scan" ELSE "published")
      /\ UNCHANGED tickets /\ StoreStays

----------------------------------------------------------------------------
(* ResolveNote *)

ResolveNote(a, n) == Start(a, "resolve", "stat", n) /\ AllStays

\* With a reply that documents the resolution.
ResolveWithReply(a, n) ==
  /\ At(a, "idle") /\ {"resolve", "reply"} \subseteq may[a]
  /\ Derive(a, n, "resolve", "reply")

StatDraft(a) ==
  LET there == file[proc[a].line] # Gone
  IN  /\ At(a, "stat")
      /\ proc' = [proc EXCEPT ![a].pc = IF there THEN "redraft" ELSE "published",
                              ![a].drafted = there, ![a].stage = "draft"]
      /\ AllStays

\* resolveDraftNote: read the draft, and rewrite it unless it is resolved.
Redraft(a) ==
  LET c == proc[a]
  IN  /\ At(a, "redraft")
      /\ IF ~Readable(c.line) THEN End(a)
         ELSE IF file[c.line].open
           THEN proc' = [proc EXCEPT ![a].pc = "rewrite",
                           ![a].read = [file[c.line] EXCEPT !.open = FALSE]]
         ELSE Goto(a, IF c.stage = "scaffold" THEN "scan" ELSE "published")
      /\ AllStays

OpenInstances(l) == {v \in Instances(l) : head[l][v].open}

\* Faulty variant: a draft is taken for the whole line.
CheckInstancesOrDraft(a) ==
  LET c == proc[a]
  IN  /\ At(a, "published")
      /\ IF ~c.drafted /\ ~Published(c.line) THEN End(a)
         ELSE IF c.drafted \/ OpenInstances(c.line) = {} THEN Goto(a, "resolved")
         ELSE Goto(a, "base")
      /\ AllStays

\* An open instance, whichever it is, has the line resolved by publication.
CheckInstances(a) ==
  LET c == proc[a]
  IN  /\ At(a, "published")
      /\ IF ~c.drafted /\ ~Published(c.line) THEN End(a)
         ELSE IF OpenInstances(c.line) = {} THEN Goto(a, "resolved")
         ELSE Goto(a, "base")
      /\ AllStays

\* resolvePublishedNote: units[0] is the base; when that one is resolved there
\* is nothing to do; else it is scaffolded, resolved and published.
ReadBase(a) ==
  LET c == proc[a]
      u == head[c.line][FirstInstance(c.line)]
  IN  /\ At(a, "base")
      /\ IF u.open
           THEN proc' = [proc EXCEPT ![a].pc = "create", ![a].stage = "scaffold",
                           ![a].todo = <<[line |-> c.line, rels |-> u.rels]>>]
           ELSE Goto(a, "resolved")
      /\ AllStays

----------------------------------------------------------------------------
(* The drafts directory from outside, and the end of a process *)

DiscardDraft(a, l) ==
  /\ At(a, "idle") /\ "discard" \in may[a]
  /\ file[l] # Gone
  /\ file' = [file EXCEPT ![l] = Gone]
  /\ UNCHANGED <<tickets, proc>> /\ StoreStays

\* eka edit: the editor saves the file.
EditDraft(a, l) ==
  /\ At(a, "idle") /\ "edit" \in may[a]
  /\ Readable(l) /\ file[l].edit < MaxEdit
  /\ file' = [file EXCEPT ![l].edit = @ + 1]
  /\ UNCHANGED <<tickets, proc>> /\ StoreStays

\* A command reports its refusal or its resolution.
Report(a) ==
  /\ proc[a].pc \in {"refused", "resolved"}
  /\ End(a)
  /\ AllStays

Crash(a) ==
  /\ "crash" \in may[a] /\ ~At(a, "idle")
  /\ End(a)
  /\ AllStays

\* Between the open and the write of a draft file.
CrashTorn(a) ==
  LET c == proc[a]
  IN  /\ "crash" \in may[a]
      /\ \/ /\ At(a, "create") /\ Creatable(Head(c.todo).line)
            /\ file' = [file EXCEPT ![Head(c.todo).line] = Torn]
            /\ tickets' = [tickets EXCEPT ![Head(c.todo).line] = @ + 1]
         \/ /\ At(a, "rewrite")
            /\ file' = [file EXCEPT ![c.line] = Torn]
            /\ UNCHANGED tickets
      /\ End(a)
      /\ StoreStays

----------------------------------------------------------------------------

Begin(a) ==
  \/ \E reqs \in Scaffolds : New(a, reqs)
  \/ \E reqs \in Scaffolds : Len(reqs) = 1 /\ PublishInline(a, reqs[1])
  \/ \E l \in Line : \/ NoteDraft(a, l) \/ Publish(a, l)
                     \/ DiscardDraft(a, l) \/ EditDraft(a, l)
  \/ \E r \in Related : Relate(a, r)
  \/ \E n \in Note : ResolveNote(a, n) \/ ResolveWithReply(a, n)
  \/ PublishBatch(a)

Step(a) ==
  \/ Create(a) \/ CreateFails(a) \/ Rollback(a) \/ RolledBack(a)
  \/ Scan(a) \/ AssignVersion(a) \/ Validate(a) \/ PutUnit(a) \/ RemoveDraft(a)
  \/ ListDrafts(a) \/ CheckEdges(a) \/ NextDraft(a)
  \/ ReadCurrent(a) \/ RelateGate(a) \/ Repoint(a) \/ Reread(a) \/ Rewrite(a)
  \/ StatDraft(a) \/ Redraft(a) \/ CheckInstances(a) \/ ReadBase(a)
  \/ Report(a)

Next == \E a \in Author : Begin(a) \/ Step(a) \/ Crash(a) \/ CrashTorn(a)

Spec == Init /\ [][Next]_vars

\* A running command is scheduled again and again.
FairSpec == Spec /\ \A a \in Author : WF_vars(Step(a))

----------------------------------------------------------------------------
(* Properties *)

Body == {Gone, Torn} \cup Content

\* Type invariant: files and references hold contents of drafts that were
\* created, and a reference leads to an archived payload.
AuthoringTypeOK ==
  /\ file \in [Line -> Body]
  /\ tickets \in [Line -> Nat] /\ \A l \in Line : tickets[l] <= MaxTicket[l]
  /\ \A l \in Line : Readable(l) => file[l].ticket <= tickets[l]
  /\ \A l \in Line, v \in Version :
       head[l][v] # NoUnit =>
         head[l][v] \in past[l][v] /\ head[l][v].ticket \in 1..tickets[l]
  /\ may \in Sessions

\* draft.go:812-838 ("immutable Canonical Knowledge Object") and relate.go
\* (edges are only added): whatever is put at a published form again, by a
\* publication that was decided on earlier or by relate, its content stays the
\* one it was published with and no edge is lost.
PublishedStays ==
  [][\A l \in Line, v \in Version :
       LET old == head[l][v]
           new == head'[l][v]
       IN  old # NoUnit =>
             /\ new.ticket = old.ticket /\ new.edit = old.edit
             /\ old.rels \subseteq new.rels]_vars

\* batch.go:263-269 (the published set must be coherent): whatever was
\* published, discarded or related since a batch listed the drafts, what it
\* publishes refers to published lines only, but for references that others
\* added to the draft after the list; and of a strict line these lead at least
\* to a line that was drafted.
BatchIsCoherent ==
  \A a \in Author :
    LET c == proc[a]
    IN  At(a, "remove") /\ c.verb = "batch" =>
          \A t \in c.read.rels :
            \/ Published(t)
            \/ t \notin c.refs[c.line] /\ (c.line \in Strict => tickets[t] > 0)

\* batch.go:96-102: a refused batch leaves none of its drafts behind.
RefusedLeavesNothing ==
  \A a \in Author : At(a, "refused") =>
    \A m \in proc[a].made : Readable(m[1]) => file[m[1]].ticket # m[2]

\* note_resolve.go:216-220: a resolution that succeeds covers the draft and the
\* current instance, which is what the gates read, but for a line whose first
\* instance is resolved while a later one is open: there it looks no further.
ResolutionCoversLine ==
  \A a \in Author : At(a, "resolved") =>
    LET n == proc[a].line
        last == MaxInstanceVersion(n)
    IN  /\ Readable(n) => ~file[n].open
        /\ Published(n) /\ head[n][last].open =>
             FirstInstance(n) # last /\ ~head[n][FirstInstance(n)].open

\* Every command ends, also a batch whose drafts are published or discarded
\* by another one.
CommandsEnd == \A a \in Author : ~At(a, "idle") ~> At(a, "idle")

----------------------------------------------------------------------------
(* What comments of the code say, and the code does not do *)

\* batch.go:263-269: "the published set must be coherent": all that a batch has
\* published refers to published lines.
BatchPublishesClosed ==
  \A a \in Author :
    At(a, "remove") /\ proc[a].verb = "batch" => \A t \in proc[a].read.rels : Published(t)

\* note_resolve.go:216-220: a resolution that succeeds covers the whole line:
\* no draft and no current instance of it is open.
ResolutionCoversAll ==
  \A a \in Author : At(a, "resolved") =>
    LET n == proc[a].line
    IN  /\ Readable(n) => ~file[n].open
        /\ Published(n) => ~head[n][MaxInstanceVersion(n)].open

\* draft.go:33-34: "The draft file is the single-use ticket": the content of
\* one draft is published as one instance.
TicketIsSingleUse ==
  \A l \in Line : \A v, w \in Instances(l) : head[l][v].ticket = head[l][w].ticket => v = w

\* note_resolve.go:161-163: "A note already resolved reports AlreadyResolved":
\* no instance is published for a line whose current one is resolved.
ResolvedOnce ==
  [][\A a \in Author :
       At(a, "put") /\ proc[a].verb = "resolve" /\ proc'[a].pc = "remove" =>
         LET n == proc[a].line
         IN  Published(n) => head[n][MaxInstanceVersion(n)].open]_vars

\* draft.go:39-41 (a failed publication leaves the draft, a successful one
\* removes what it published): a draft that publication removes is archived.
RemovedIsArchived ==
  [][\A a \in Author :
       At(a, "remove") /\ ~At(a, "idle") =>
         LET l == proc[a].line
         IN  Readable(l) /\ file'[l] = Gone =>
               \E v \in Version : file[l] \in past[l][v]]_vars
=============================================================================
