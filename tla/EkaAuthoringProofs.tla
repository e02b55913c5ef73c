------------------------- MODULE EkaAuthoringProofs -------------------------
(***************************************************************************)
(* Proofs about EkaAuthoring for any number of authors, lines, instances   *)
(* and drafts, with commands that interleave and end anywhere.             *)
(*                                                                         *)
(* The argument about a batch: it lists its drafts once, and what others   *)
(* publish or discard meanwhile does not change the list.  A target of a   *)
(* listed draft was published when the edges were checked, is still on the *)
(* list, or was taken from it by this batch, which goes on only after it   *)
(* has published the line; and no command unpublishes one.  A reference    *)
(* that the batch reads with the draft and did not list has passed its     *)
(* gate alone, which for a strict line takes a draft of the target.        *)
(***************************************************************************)
EXTENDS EkaAuthoring, EkaLemmas

AnyPc == {"idle", "create", "rollback", "refused", "scan", "version", "validate", "put",
          "remove", "list", "edges", "next", "current", "gate", "repoint", "reread",
          "rewrite", "stat", "redraft", "published", "base", "resolved"}

Made == SUBSET (Line \X Nat)

Command ==
  [verb : {"none"} \cup Verb, pc : AnyPc, line : Line \cup {Idle.line}, todo : Seq(Request),
   made : Made, left : Made, read : Content \cup {NoUnit}, version : Nat,
   stage : {"none", "reply", "draft", "scaffold"}, drafted : BOOLEAN,
   refs : [Line -> SUBSET Line], queue : SUBSET Line]

\* Contents of drafts of line l that were created.
Created(tk, l) == {c \in Content : c.ticket \in 1..tk[l]}

\* Files, tickets, references and archive fit together.
DataOK(fl, tk, hd, ps) ==
  /\ fl \in [Line -> Body] /\ tk \in [Line -> Nat]
  /\ hd \in [Line -> [Version -> Content \cup {NoUnit}]]
  /\ ps \in [Line -> [Version -> SUBSET Content]]
  /\ \A l \in Line :
       /\ fl[l] \in Content => fl[l] \in Created(tk, l)
       /\ tk[l] <= MaxTicket[l]
       /\ \A v \in Version :
            /\ hd[l][v] # NoUnit => hd[l][v] \in ps[l][v]
            /\ hd[l][v] = NoUnit => ps[l][v] = {}
            /\ ps[l][v] \subseteq Created(tk, l)

HasInstance(hd, l) == \E v \in Version : hd[l][v] # NoUnit

Lineless == {"idle", "create", "rollback", "refused", "list", "edges", "next"}

\* The commands that go on to the store.
Storing == {"publish", "batch", "inline", "relate", "resolve"}

\* What a command holds at its step.
HoldsOK(tk, c) ==
  /\ c.pc \notin Lineless \/ c.verb = "resolve" => c.line \in Line
  /\ c.pc = "create" => c.todo # <<>>
  /\ c.pc \notin {"idle", "create", "rollback", "refused"} => c.verb \in Storing
  /\ c.pc \in {"version", "validate", "put", "remove", "gate", "repoint", "reread",
              "rewrite"} => c.read \in Created(tk, c.line)
  /\ c.pc \in {"put", "remove"} /\ c.line \in Strict => \A t \in c.read.rels : tk[t] > 0
  /\ c.pc \in {"validate", "put", "gate", "repoint"} => c.version \in Version

\* Every target of a draft on the list is on it, published, or under way.
ListOK(hd, c) ==
  \A l \in c.queue : \A t \in c.refs[l] :
    \/ t \in c.queue \/ HasInstance(hd, t)
    \/ c.pc # "next" /\ t = c.line

\* What a command knows of the store.
StoreOK(hd, c) ==
  /\ c.pc = "base" => HasInstance(hd, c.line)
  /\ c.verb = "batch" =>
       /\ c.pc \in {"list", "edges", "next", "scan", "version", "validate", "put", "remove"}
       /\ c.pc \notin {"list", "edges"} => ListOK(hd, c)
       /\ c.pc \in {"scan", "version", "validate", "put", "remove"} =>
            \A t \in c.refs[c.line] : HasInstance(hd, t)
       /\ c.pc = "remove" => HasInstance(hd, c.line)

CommandOK(tk, hd, c) == c \in Command /\ HoldsOK(tk, c) /\ StoreOK(hd, c)

AuthoringInv ==
  /\ DataOK(file, tickets, head, past) /\ may \in Sessions
  /\ proc \in [Author -> Command]
  /\ \A a \in Author : CommandOK(tickets, head, proc[a])

\* Tickets are given in order, and no form loses its reference.
Grows(tk, hd, tk2, hd2) ==
  /\ \A l \in Line : tk[l] <= tk2[l] /\ tk[l] \in Nat /\ tk2[l] \in Nat
  /\ \A l \in Line : HasInstance(hd, l) => HasInstance(hd2, l)

----------------------------------------------------------------------------
(* Frames *)

LEMMA CommandFrame ==
  ASSUME NEW tk, NEW hd, NEW tk2, NEW hd2, Grows(tk, hd, tk2, hd2),
         NEW c, CommandOK(tk, hd, c)
  PROVE  CommandOK(tk2, hd2, c)
<1>1. c \in Command /\ HoldsOK(tk, c) /\ StoreOK(hd, c)
  BY DEF CommandOK
<1>2. \A l \in Line : Created(tk, l) \subseteq Created(tk2, l)
  BY DEF Grows, Created
<1>3. HoldsOK(tk2, c)
  <2>1. c.pc \in {"put", "remove"} /\ c.line \in Strict =>
          \A t \in c.read.rels : t \in Line /\ tk[t] > 0
    BY <1>1 DEF HoldsOK, Lineless, Created, Content
  <2>2. \A t \in Line : tk[t] > 0 => tk2[t] > 0
    BY DEF Grows
  <2> QED  BY <1>1, <1>2, <2>1, <2>2 DEF HoldsOK, Lineless
<1>4. StoreOK(hd2, c)
  <2>1. c.queue \subseteq Line /\ \A l \in Line : c.refs[l] \subseteq Line
    BY <1>1 DEF Command
  <2>2. c.pc \notin Lineless => c.line \in Line
    BY <1>1 DEF HoldsOK
  <2>3. \A l \in Line : HasInstance(hd, l) => HasInstance(hd2, l)
    BY DEF Grows
  <2>4. ListOK(hd, c) => ListOK(hd2, c)
    BY <2>1, <2>3 DEF ListOK
  <2> QED  BY <1>1, <2>1, <2>2, <2>3, <2>4 DEF StoreOK, Lineless
<1> QED  BY <1>1, <1>3, <1>4 DEF CommandOK

\* One command takes a step; the others hold what they held.
LEMMA StepFrame ==
  ASSUME AuthoringInv, NEW a \in Author, NEW c, proc' = [proc EXCEPT ![a] = c],
         may' = may, DataOK(file', tickets', head', past'),
         Grows(tickets, head, tickets', head'), CommandOK(tickets', head', c)
  PROVE  AuthoringInv'
<1>1. proc \in [Author -> Command] /\ \A b \in Author : CommandOK(tickets, head, proc[b])
  BY DEF AuthoringInv
<1>2. \A b \in Author : CommandOK(tickets', head', proc'[b])
  BY <1>1, CommandFrame
<1>3. proc' \in [Author -> Command]
  BY <1>1 DEF CommandOK
<1> QED  BY <1>2, <1>3 DEF AuthoringInv

LEMMA SameGrows ==
  ASSUME AuthoringInv
  PROVE  Grows(tickets, head, tickets, head)
BY DEF AuthoringInv, DataOK, Grows

\* A step that only looks.
LEMMA LookFrame ==
  ASSUME AuthoringInv, NEW a \in Author, NEW c, proc' = [proc EXCEPT ![a] = c],
         AllStays, CommandOK(tickets, head, c)
  PROVE  AuthoringInv'
BY SameGrows, StepFrame DEF AllStays, AuthoringInv

LEMMA IdleCommand == Idle \in Command
BY DEF Idle, Command, AnyPc, Made

\* The program counters and verbs that the steps set.
LEMMA Names ==
  /\ {"create", "version", "current", "gate", "reread", "redraft", "published"} \subseteq AnyPc
  /\ {"new", "note", "inline", "relate", "resolve"} \subseteq Verb
BY DEF AnyPc, Verb

LEMMA IdleOK ==
  ASSUME NEW tk, NEW hd
  PROVE  CommandOK(tk, hd, Idle)
<1>1. Idle \in Command
  BY IdleCommand
<1>2. Idle.pc = "idle" /\ Idle.verb = "none"
  BY DEF Idle
<1> QED  BY <1>1, <1>2 DEF CommandOK, HoldsOK, StoreOK, Lineless

LEMMA EndFrame ==
  ASSUME AuthoringInv, NEW a \in Author, End(a), AllStays
  PROVE  AuthoringInv'
BY IdleOK, LookFrame DEF End

\* A step that ends the command or sends it on.
LEMMA GotoFrame ==
  ASSUME AuthoringInv, NEW a \in Author, NEW pc \in AnyPc, AllStays,
         \/ End(a)
         \/ /\ Goto(a, pc)
            /\ LET c == [proc[a] EXCEPT !.pc = pc]
               IN  HoldsOK(tickets, c) /\ StoreOK(head, c)
  PROVE  AuthoringInv'
<1> DEFINE c == [proc[a] EXCEPT !.pc = pc]
<1>1. proc[a] \in Command
  BY DEF AuthoringInv
<1>2. c \in Command
  BY <1>1 DEF Command
<1>3. Goto(a, pc) => proc' = [proc EXCEPT ![a] = c]
  BY DEF Goto
<1> HIDE DEF c
<1> QED  BY <1>2, <1>3, EndFrame, LookFrame DEF CommandOK, c

LEMMA Fields ==
  ASSUME AuthoringInv, NEW a \in Author
  PROVE  LET c == proc[a]
         IN  /\ c \in Command /\ HoldsOK(tickets, c) /\ StoreOK(head, c)
             /\ proc \in [Author -> Command]
             /\ c.todo \in Seq(Request) /\ c.made \in Made /\ c.left \in Made
             /\ c.queue \subseteq Line /\ \A l \in Line : c.refs[l] \subseteq Line
BY DEF AuthoringInv, CommandOK, Command

----------------------------------------------------------------------------
(* Writes *)

\* A draft file is written or removed.
LEMMA FileWrite ==
  ASSUME NEW tk, NEW hd, NEW ps, NEW fl, DataOK(fl, tk, hd, ps), NEW l \in Line,
         NEW b \in {Gone, Torn} \cup Created(tk, l)
  PROVE  DataOK([fl EXCEPT ![l] = b], tk, hd, ps)
<1>1. b \in Body /\ (b \in Content => b \in Created(tk, l))
  BY AuthoringAssumption DEF Body, Created
<1> QED  BY <1>1 DEF DataOK

\* A draft is created: its ticket is taken.
LEMMA TicketTaken ==
  ASSUME NEW tk, NEW hd, NEW ps, NEW fl, DataOK(fl, tk, hd, ps), NEW l \in Line,
         tk[l] < MaxTicket[l]
  PROVE  LET tk2 == [tk EXCEPT ![l] = @ + 1]
         IN  DataOK(fl, tk2, hd, ps) /\ Grows(tk, hd, tk2, hd)
<1> DEFINE tk2 == [tk EXCEPT ![l] = @ + 1]
<1>1. tk \in [Line -> Nat] /\ MaxTicket \in [Line -> Nat]
  BY AuthoringAssumption DEF DataOK
<1>2. /\ tk2 \in [Line -> Nat]
      /\ \A k \in Line : tk[k] <= tk2[k] /\ tk2[k] <= MaxTicket[k] /\ tk[k] \in Nat /\ tk2[k] \in Nat
  BY <1>1 DEF DataOK
<1>3. Grows(tk, hd, tk2, hd)
  BY <1>2 DEF Grows
<1>4. \A k \in Line : Created(tk, k) \subseteq Created(tk2, k)
  BY <1>2 DEF Created
<1> HIDE DEF tk2
<1>5. DataOK(fl, tk2, hd, ps)
  BY <1>2, <1>4 DEF DataOK
<1> QED  BY <1>3, <1>5 DEF tk2

\* The template of a draft is the content of the ticket it takes.
LEMMA TemplateCreated ==
  ASSUME DataOK(file, tickets, head, past), NEW r \in Request
  PROVE  Template(r) \in Created([tickets EXCEPT ![r.line] = @ + 1], r.line)
<1>1. tickets \in [Line -> Nat] /\ r.line \in Line /\ r.rels \in SUBSET Line
  BY DEF DataOK, Request
<1>2. 0 \in 0..MaxEdit /\ tickets[r.line] + 1 \in Nat /\ tickets[r.line] \in Nat
  BY <1>1, AuthoringAssumption
<1>3. Template(r) \in Content
  BY <1>1, <1>2 DEF Template, Content
<1> QED  BY <1>1, <1>2, <1>3 DEF Created, Template

\* A payload is archived, and its form leads to it or stays where it is.
LEMMA PayloadPut ==
  ASSUME NEW tk, NEW hd, NEW ps, NEW fl, DataOK(fl, tk, hd, ps), NEW l \in Line,
         NEW v \in Version, NEW c \in Created(tk, l), NEW hd2,
         \/ hd2 = [hd EXCEPT ![l][v] = c]
         \/ hd2 = hd /\ c \in ps[l][v]
  PROVE  LET ps2 == [ps EXCEPT ![l][v] = @ \cup {c}]
         IN  /\ DataOK(fl, tk, hd2, ps2) /\ Grows(tk, hd, tk, hd2)
             /\ HasInstance(hd2, l)
<1> DEFINE ps2 == [ps EXCEPT ![l][v] = @ \cup {c}]
<1>1. /\ hd \in [Line -> [Version -> Content \cup {NoUnit}]]
      /\ ps \in [Line -> [Version -> SUBSET Content]]
      /\ c \in Content /\ c # NoUnit
  BY AuthoringAssumption DEF DataOK, Created
<1>2. /\ ps2 \in [Line -> [Version -> SUBSET Content]]
      /\ \A k \in Line, w \in Version :
           ps2[k][w] = IF k = l /\ w = v THEN ps[k][w] \cup {c} ELSE ps[k][w]
  BY <1>1
<1>3. /\ hd2 \in [Line -> [Version -> Content \cup {NoUnit}]]
      /\ \A k \in Line, w \in Version :
           \/ hd2[k][w] = hd[k][w] /\ (k = l /\ w = v => c \in ps[l][v])
           \/ k = l /\ w = v /\ hd2[k][w] = c
  <2>1. CASE hd2 = [hd EXCEPT ![l][v] = c]
    BY <1>1, <2>1
  <2>2. CASE hd2 = hd /\ c \in ps[l][v]
    BY <1>1, <2>2
  <2> QED  BY <2>1, <2>2
<1> HIDE DEF ps2
<1>4. DataOK(fl, tk, hd2, ps2)
  <2>1. /\ fl \in [Line -> Body] /\ tk \in [Line -> Nat]
        /\ \A k \in Line : (fl[k] \in Content => fl[k] \in Created(tk, k)) /\ tk[k] <= MaxTicket[k]
    BY DEF DataOK
  <2>2. ASSUME NEW k \in Line, NEW w \in Version
        PROVE  /\ hd2[k][w] # NoUnit => hd2[k][w] \in ps2[k][w]
               /\ hd2[k][w] = NoUnit => ps2[k][w] = {}
               /\ ps2[k][w] \subseteq Created(tk, k)
    <3>1. /\ hd[k][w] # NoUnit => hd[k][w] \in ps[k][w]
          /\ hd[k][w] = NoUnit => ps[k][w] = {}
          /\ ps[k][w] \subseteq Created(tk, k)
      BY DEF DataOK
    <3>2. CASE k = l /\ w = v
      <4>1. ps2[k][w] = ps[k][w] \cup {c} /\ c \in Created(tk, k)
        BY <1>2, <3>2
      <4>2. \/ hd2[k][w] = hd[k][w] /\ c \in ps[k][w]
            \/ hd2[k][w] = c
        BY <1>3, <3>2
      <4> QED  BY <1>1, <3>1, <4>1, <4>2
    <3>3. CASE ~(k = l /\ w = v)
      BY <1>2, <1>3, <3>1, <3>3
    <3> QED  BY <3>2, <3>3
  <2> QED  BY <1>2, <1>3, <2>1, <2>2 DEF DataOK
<1>5. hd[l][v] = NoUnit => ps[l][v] = {}
  BY DEF DataOK
<1>6. \A k \in Line : HasInstance(hd, k) => HasInstance(hd2, k)
  BY <1>1, <1>3 DEF HasInstance
<1>7. HasInstance(hd2, l)
  BY <1>1, <1>3, <1>5 DEF HasInstance
<1>8. Grows(tk, hd, tk, hd2)
  <2>1. tk \in [Line -> Nat]
    BY DEF DataOK
  <2> QED  BY <1>6, <2>1 DEF Grows
<1> QED  BY <1>4, <1>7, <1>8 DEF ps2

----------------------------------------------------------------------------
(* Commands begin *)

LEMMA StartSound ==
  ASSUME AuthoringInv, NEW a \in Author, NEW verb \in Storing, NEW pc \in {"scan", "list", "stat"},
         NEW l \in Line \cup {Idle.line}, pc # "list" => l \in Line /\ verb # "batch",
         pc = "list" => verb = "batch", Start(a, verb, pc, l), AllStays
  PROVE  AuthoringInv'
<1>0. verb \in Verb
  BY DEF Storing, Verb
<1> DEFINE c == [Idle EXCEPT !.verb = verb, !.pc = pc, !.line = l]
<1>1. proc' = [proc EXCEPT ![a] = c]
  BY DEF Start
<1>2. c \in Command /\ c.verb = verb /\ c.pc = pc /\ c.line = l
  BY <1>0, IdleCommand DEF Command, AnyPc
<1> HIDE DEF c
<1>3. HoldsOK(tickets, c) /\ StoreOK(head, c)
  BY <1>2 DEF HoldsOK, StoreOK, Lineless, Storing, Verb
<1> QED  BY <1>1, <1>2, <1>3, LookFrame DEF CommandOK

LEMMA DeriveSound ==
  ASSUME AuthoringInv, NEW a \in Author, NEW l \in Line, NEW verb \in {"note", "resolve"},
         NEW stage \in {"none", "reply"}, Derive(a, l, verb, stage)
  PROVE  AuthoringInv'
<1> DEFINE F == Free(l)
           i == CHOOSE j \in F : \A k \in F : j <= k
           r == [line |-> Derived[l][i], rels |-> {l}]
           c == [Idle EXCEPT !.verb = verb, !.pc = "create", !.line = l, !.stage = stage,
                   !.todo = <<r>>]
<1>1. proc' = [proc EXCEPT ![a] = c] /\ AllStays /\ F # {}
  BY DEF Derive
<1>2. Derived[l] \in Seq(Note) /\ Note \subseteq Line
  BY AuthoringAssumption
<1>3. F \subseteq DOMAIN Derived[l] /\ F \subseteq Nat
  BY <1>2 DEF Free
<1>4. i \in F
  <2> DEFINE n == Len(Derived[l])
  <2>1. n \in Nat /\ DOMAIN Derived[l] = 1..n
    BY <1>2
  <2> HIDE DEF F, n
  <2>2. F \subseteq 1..n
    BY <1>3, <2>1
  <2>3. \E j \in F : \A k \in F : j <= k
    BY <1>1, <2>1, <2>2, LeastElement
  <2> QED  BY <2>3
<1> HIDE DEF i, F
<1>5. r \in Request
  BY <1>2, <1>3, <1>4 DEF Request
<1> HIDE DEF r
<1>6. <<r>> \in Seq(Request) /\ <<r>> # <<>>
  BY <1>5
<1>7. c \in Command /\ c.verb = verb /\ c.pc = "create" /\ c.line = l /\ c.todo = <<r>>
  BY <1>6, IdleCommand, Names DEF Command
<1> HIDE DEF c
<1>8. HoldsOK(tickets, c) /\ StoreOK(head, c)
  BY <1>6, <1>7 DEF HoldsOK, StoreOK, Lineless, Storing
<1> QED  BY <1>1, <1>7, <1>8, LookFrame DEF CommandOK

LEMMA BeginSound ==
  ASSUME AuthoringInv, NEW a \in Author, Begin(a)
  PROVE  AuthoringInv'
<1>0. Note \subseteq Line
  BY AuthoringAssumption
<1>d. DataOK(file, tickets, head, past) /\ may \in Sessions
  BY DEF AuthoringInv
<1>1. ASSUME NEW reqs \in Scaffolds, New(a, reqs)  PROVE AuthoringInv'
  <2> DEFINE c == [Idle EXCEPT !.verb = "new", !.pc = "create", !.todo = reqs]
  <2>1. proc' = [proc EXCEPT ![a] = c] /\ AllStays
    BY <1>1 DEF New
  <2>2. reqs \in Seq(Request) /\ reqs # <<>>
    BY AuthoringAssumption
  <2>3. c \in Command /\ c.verb = "new" /\ c.pc = "create" /\ c.todo = reqs
    BY <2>2, IdleCommand, Names DEF Command
  <2> HIDE DEF c
  <2>4. HoldsOK(tickets, c) /\ StoreOK(head, c)
    BY <2>2, <2>3 DEF HoldsOK, StoreOK, Lineless, Storing
  <2> QED  BY <2>1, <2>3, <2>4, LookFrame DEF CommandOK
<1>2. ASSUME NEW reqs \in Scaffolds, Len(reqs) = 1, PublishInline(a, reqs[1])
      PROVE  AuthoringInv'
  <2> DEFINE r == reqs[1]
             u == Template(r)
             tk == [tickets EXCEPT ![r.line] = @ + 1]
             c == [Idle EXCEPT !.verb = "inline", !.pc = "version", !.line = r.line, !.read = u]
  <2>1. r \in Request /\ r.line \in Line
    <3>1. reqs \in Seq(Request)
      BY AuthoringAssumption
    <3>2. r \in Request
      BY <1>2, <3>1
    <3> QED  BY <3>2 DEF Request
  <2> HIDE DEF r
  <2>2. /\ proc' = [proc EXCEPT ![a] = c] /\ tickets' = tk /\ tickets[r.line] < MaxTicket[r.line]
        /\ file' = file /\ head' = head /\ past' = past /\ may' = may
    BY <1>2 DEF PublishInline, StoreStays, r
  <2>3. DataOK(file, tk, head, past) /\ Grows(tickets, head, tk, head)
    BY <1>d, <2>1, <2>2, TicketTaken
  <2>4. u \in Created(tk, r.line)
    BY <1>d, <2>1, TemplateCreated
  <2>5. u \in Content
    BY <2>4 DEF Created
  <2> HIDE DEF u, tk
  <2>6. c \in Command /\ c.verb = "inline" /\ c.pc = "version" /\ c.line = r.line /\ c.read = u
    BY <2>1, <2>5, IdleCommand, Names DEF Command
  <2> HIDE DEF c
  <2>7. HoldsOK(tk, c) /\ StoreOK(head, c)
    BY <2>1, <2>4, <2>6 DEF HoldsOK, StoreOK, Lineless, Storing
  <2> QED  BY <2>2, <2>3, <2>6, <2>7, StepFrame DEF CommandOK
<1>3. ASSUME NEW l \in Line, NoteDraft(a, l)  PROVE AuthoringInv'
  BY <1>3, DeriveSound DEF NoteDraft
<1>4. ASSUME NEW l \in Line, Publish(a, l)  PROVE AuthoringInv'
  BY <1>4, StartSound DEF Publish, Storing
<1>5. ASSUME NEW l \in Line, DiscardDraft(a, l)  PROVE AuthoringInv'
  <2>1. DataOK(file', tickets, head, past)
    BY <1>d, <1>5, FileWrite DEF DiscardDraft
  <2> QED  BY <1>5, <2>1 DEF DiscardDraft, StoreStays, AuthoringInv
<1>6. ASSUME NEW l \in Line, EditDraft(a, l)  PROVE AuthoringInv'
  <2> DEFINE u == [file[l] EXCEPT !.edit = @ + 1]
  <2>1. file[l] \in Created(tickets, l) /\ file \in [Line -> Body]
    BY <1>d, <1>6 DEF DataOK, EditDraft, Readable, Body
  <2>2. file' = [file EXCEPT ![l] = u] /\ file[l].edit < MaxEdit
    BY <1>6 DEF EditDraft
  <2>3. u \in Created(tickets, l)
    <3>1. file[l].edit + 1 \in 0..MaxEdit
      BY <2>1, <2>2, AuthoringAssumption DEF Created, Content
    <3>2. file[l] \in Content /\ file[l].ticket \in 1..tickets[l]
      BY <2>1 DEF Created
    <3>3. u \in Content /\ u.ticket = file[l].ticket
      BY <3>1, <3>2 DEF Content
    <3> QED  BY <3>2, <3>3 DEF Created
  <2> HIDE DEF u
  <2>4. DataOK(file', tickets, head, past)
    BY <1>d, <2>2, <2>3, FileWrite
  <2> QED  BY <1>6, <2>4 DEF EditDraft, StoreStays, AuthoringInv
<1>7. ASSUME NEW r \in Related, Relate(a, r)  PROVE AuthoringInv'
  <2> DEFINE c == [Idle EXCEPT !.verb = "relate", !.pc = "current", !.line = r[1],
                     !.refs[r[1]] = {r[2]}]
  <2>1. proc' = [proc EXCEPT ![a] = c] /\ AllStays
    BY <1>7 DEF Relate
  <2>2. r[1] \in Line /\ r[2] \in Line
    BY AuthoringAssumption
  <2>3. c \in Command /\ c.verb = "relate" /\ c.pc = "current" /\ c.line = r[1]
    BY <2>2, IdleCommand, Names DEF Command
  <2> HIDE DEF c
  <2>4. HoldsOK(tickets, c) /\ StoreOK(head, c)
    BY <2>2, <2>3 DEF HoldsOK, StoreOK, Lineless, Storing
  <2> QED  BY <2>1, <2>3, <2>4, LookFrame DEF CommandOK
<1>8. ASSUME NEW n \in Note, ResolveNote(a, n) \/ ResolveWithReply(a, n)  PROVE AuthoringInv'
  BY <1>0, <1>8, StartSound, DeriveSound DEF ResolveNote, ResolveWithReply, Storing
<1>9. CASE PublishBatch(a)
  BY <1>9, StartSound DEF PublishBatch, Storing
<1> QED  BY <1>1, <1>2, <1>3, <1>4, <1>5, <1>6, <1>7, <1>8, <1>9 DEF Begin

----------------------------------------------------------------------------
(* Drafts are created *)

LEMMA CreateSound ==
  ASSUME AuthoringInv, NEW a \in Author, Create(a)
  PROVE  AuthoringInv'
<1> DEFINE c == proc[a]
           r == Head(c.todo)
           tk == [tickets EXCEPT ![r.line] = @ + 1]
           u == Template(r)
           pc == AfterCreate(c)
           d == [c EXCEPT !.pc = pc, !.todo = Tail(@),
                   !.made = @ \cup {<<r.line, tickets[r.line] + 1>>}]
<1>1. /\ c \in Command /\ HoldsOK(tickets, c) /\ StoreOK(head, c) /\ proc \in [Author -> Command]
      /\ c.todo \in Seq(Request) /\ c.made \in Made
      /\ DataOK(file, tickets, head, past) /\ c.pc = "create"
  BY Fields DEF AuthoringInv, Create, At
<1>2. /\ tickets[r.line] < MaxTicket[r.line] /\ tickets' = tk /\ file' = [file EXCEPT ![r.line] = u]
      /\ head' = head /\ past' = past /\ may' = may
  BY DEF Create, Creatable, StoreStays
<1>3. c.todo # <<>> /\ c.verb # "batch"
  BY <1>1 DEF HoldsOK, StoreOK
<1>4. r \in Request /\ r.line \in Line /\ Tail(c.todo) \in Seq(Request)
  <2>1. r \in Request /\ Tail(c.todo) \in Seq(Request)
    BY <1>1, <1>3
  <2> QED  BY <2>1 DEF Request
<1>5. pc = "create" => Tail(c.todo) # <<>>
  <2>1. pc = "create" => Len(c.todo) > 1
    BY DEF AfterCreate
  <2> QED  BY <1>1, <1>3, <2>1
<1>6. pc \in {"create", "idle", "stat", "redraft"} /\ (pc \in {"stat", "redraft"} => c.verb = "resolve")
  BY DEF AfterCreate
<1>7. \/ proc' = [proc EXCEPT ![a] = Idle]
      \/ proc' = [proc EXCEPT ![a] = d] /\ pc # "idle"
  <2>1. \/ End(a)
        \/ /\ pc # "idle"
           /\ proc' = [proc EXCEPT ![a].pc = pc, ![a].todo = Tail(@),
                         ![a].made = @ \cup {<<r.line, tickets[r.line] + 1>>}]
    BY DEF Create
  <2> QED  BY <1>1, <2>1 DEF End
<1>8. u \in Created(tk, r.line) /\ DataOK(file, tk, head, past) /\ Grows(tickets, head, tk, head)
  BY <1>1, <1>2, <1>4, TicketTaken, TemplateCreated
<1>9. tickets[r.line] + 1 \in Nat
  BY <1>1, <1>4 DEF DataOK
<1> HIDE DEF r, tk, u, pc
<1>10. d \in Command
  <2>1. d.made \in Made
    BY <1>1, <1>4, <1>9 DEF Made, Command
  <2> QED  BY <1>1, <1>4, <1>6, <2>1 DEF Command, AnyPc
<1>11. d.pc = pc /\ d.todo = Tail(c.todo) /\ d.verb = c.verb /\ d.line = c.line
  BY <1>1 DEF Command
<1>12. DataOK(file', tk, head, past)
  BY <1>2, <1>4, <1>8, FileWrite
<1> HIDE DEF c, d
<1>13. pc # "idle" => CommandOK(tk, head, d)
  BY <1>1, <1>3, <1>5, <1>6, <1>10, <1>11 DEF CommandOK, HoldsOK, StoreOK, Lineless, Storing
<1> QED  BY <1>2, <1>7, <1>8, <1>12, <1>13, IdleOK, StepFrame

LEMMA RollbackSound ==
  ASSUME AuthoringInv, NEW a \in Author, CreateFails(a) \/ Rollback(a) \/ RolledBack(a)
  PROVE  AuthoringInv'
<1> DEFINE c == proc[a]
<1>1. /\ c \in Command /\ HoldsOK(tickets, c) /\ StoreOK(head, c) /\ proc \in [Author -> Command]
      /\ c.made \in Made /\ c.left \in Made /\ DataOK(file, tickets, head, past)
  BY Fields DEF AuthoringInv
<1>2. CASE CreateFails(a)
  <2> DEFINE d == [c EXCEPT !.pc = "rollback", !.left = c.made]
  <2>1. AllStays /\ (End(a) \/ proc' = [proc EXCEPT ![a] = d]) /\ c.pc = "create"
    BY <1>1, <1>2 DEF CreateFails, At
  <2>2. d \in Command /\ d.pc = "rollback" /\ d.verb = c.verb /\ d.line = c.line
    BY <1>1 DEF Command, AnyPc
  <2> HIDE DEF c, d
  <2>3. CommandOK(tickets, head, d)
    BY <1>1, <2>1, <2>2 DEF CommandOK, HoldsOK, StoreOK, Lineless, Storing
  <2> QED  BY <2>1, <2>3, EndFrame, LookFrame
<1>3. CASE Rollback(a)
  <2>1. PICK m \in c.left : /\ file' = [file EXCEPT ![m[1]] = Gone]
                            /\ proc' = [proc EXCEPT ![a].left = @ \ {m}]
    BY <1>3 DEF Rollback
  <2> DEFINE d == [c EXCEPT !.left = @ \ {m}]
  <2>2. proc' = [proc EXCEPT ![a] = d]
    BY <1>1, <2>1
  <2>3. d \in Command /\ d.pc = c.pc /\ d.verb = c.verb /\ d.line = c.line /\ c.pc = "rollback"
    BY <1>1, <1>3 DEF Command, Made, Rollback, At
  <2>4. m[1] \in Line
    BY <1>1, <2>1 DEF Made
  <2>5. DataOK(file', tickets, head, past)
    BY <1>1, <2>1, <2>4, FileWrite
  <2> HIDE DEF c, d
  <2>6. CommandOK(tickets, head, d)
    BY <1>1, <2>3 DEF CommandOK, HoldsOK, StoreOK, Lineless, Storing
  <2> QED  BY <1>3, <2>2, <2>5, <2>6, SameGrows, StepFrame DEF Rollback, StoreStays
<1>4. CASE RolledBack(a)
  <2>1. Goto(a, "refused") /\ AllStays /\ c.pc = "rollback"
    BY <1>4 DEF RolledBack, At
  <2> DEFINE d == [c EXCEPT !.pc = "refused"]
  <2>2. d.pc = "refused" /\ d.verb = c.verb /\ d.line = c.line
    BY <1>1 DEF Command
  <2> HIDE DEF c
  <2>3. HoldsOK(tickets, d) /\ StoreOK(head, d)
    <3> HIDE DEF d
    <3> QED  BY <1>1, <2>1, <2>2 DEF HoldsOK, StoreOK, Lineless, Storing
  <2> QED  BY <2>1, <2>3, GotoFrame DEF AnyPc, c
<1> QED  BY <1>2, <1>3, <1>4

----------------------------------------------------------------------------
(* Publication *)

\* MaxInstanceVersion is the highest published instance.
LEMMA HighestInstance ==
  ASSUME NEW l \in Line
  PROVE  LET m == MaxInstanceVersion(l)
         IN  /\ m \in 0..MaxVersion
             /\ m > 0 => m \in Version /\ head[l][m] # NoUnit
             /\ \A v \in Version : v > m => head[l][v] = NoUnit
<1> DEFINE S == Instances(l)
<1>1. MaxVersion \in Nat /\ S \subseteq 1..MaxVersion
  BY AuthoringAssumption DEF Instances, Version
<1>2. CASE S = {}
  BY <1>1, <1>2 DEF MaxInstanceVersion, Published, Instances
<1>3. CASE S # {}
  <2> HIDE DEF S
  <2>1. IsFiniteSet(S) /\ S \in SUBSET Nat
    <3>1. IsFiniteSet(1..MaxVersion)
      BY <1>1, FS_Interval
    <3>2. IsFiniteSet(S)
      BY <1>1, <3>1, FS_Subset
    <3>3. \A n \in S : n \in Nat
      BY <1>1
    <3> QED  BY <3>2, <3>3
  <2>2. \E n \in S : \A m \in S : m <= n
    BY <1>3, <2>1, GreatestElement
  <2> DEFINE g == CHOOSE v \in S : \A w \in S : w <= v
  <2>3. g \in S /\ \A w \in S : w <= g
    BY <2>2
  <2>4. MaxInstanceVersion(l) = g
    BY <1>3 DEF MaxInstanceVersion, Published, S
  <2> HIDE DEF g
  <2>5. g \in 1..MaxVersion /\ g \in Version
    BY <1>1, <2>3 DEF Version
  <2>6. \A v \in Version : v > g => head[l][v] = NoUnit
    <3> SUFFICES ASSUME NEW v \in Version, v > g, head[l][v] # NoUnit  PROVE FALSE
      OBVIOUS
    <3>1. v \in S /\ v \in 1..MaxVersion
      BY DEF S, Instances, Version
    <3> QED  BY <2>3, <2>5, <3>1
  <2>7. head[l][g] # NoUnit
    BY <2>3 DEF S, Instances
  <2> QED  BY <1>1, <2>4, <2>5, <2>6, <2>7
<1> QED  BY <1>2, <1>3

LEMMA PublishedHas ==
  ASSUME NEW l \in Line
  PROVE  Published(l) <=> HasInstance(head, l)
BY DEF Published, Instances, HasInstance

\* What a form leads to stems from a draft of its line.
LEMMA HeadCreated ==
  ASSUME DataOK(file, tickets, head, past), NEW l \in Line, NEW v \in Version,
         head[l][v] # NoUnit
  PROVE  head[l][v] \in Created(tickets, l) /\ head[l][v] \in Content
BY DEF DataOK, Created

LEMMA FileCreated ==
  ASSUME DataOK(file, tickets, head, past), NEW l \in Line, Readable(l)
  PROVE  file[l] \in Created(tickets, l) /\ file[l] \in Content
BY DEF DataOK, Readable, Body

\* What resolves, in the store or in a draft, was drafted.
LEMMA DraftedWas ==
  ASSUME DataOK(file, tickets, head, past), NEW l \in Line, Published(l) \/ Readable(l)
  PROVE  tickets[l] > 0
<1>0. tickets[l] \in Nat
  BY DEF DataOK
<1>1. CASE Readable(l)
  <2>1. file[l].ticket \in 1..tickets[l]
    BY <1>1, FileCreated DEF Created
  <2> QED  BY <1>0, <2>1
<1>2. CASE Published(l)
  <2>1. PICK v \in Version : head[l][v] # NoUnit
    BY <1>2 DEF Published, Instances
  <2>2. head[l][v].ticket \in 1..tickets[l]
    BY <2>1, HeadCreated DEF Created
  <2> QED  BY <1>0, <2>2
<1> QED  BY <1>1, <1>2

LEMMA ScanSound ==
  ASSUME AuthoringInv, NEW a \in Author,
         Scan(a) \/ AssignVersion(a) \/ Validate(a)
  PROVE  AuthoringInv'
<1> DEFINE c == proc[a]
<1>1. /\ c \in Command /\ HoldsOK(tickets, c) /\ StoreOK(head, c) /\ proc \in [Author -> Command]
      /\ DataOK(file, tickets, head, past) /\ AllStays
  BY Fields DEF AuthoringInv, Scan, AssignVersion, Validate
<1>2. CASE Scan(a)
  <2> DEFINE d == [c EXCEPT !.pc = "version", !.read = file[c.line]]
  <2>1. /\ c.pc = "scan"
        /\ \/ End(a)
           \/ Readable(c.line) /\ proc' = [proc EXCEPT ![a] = d]
    BY <1>1, <1>2 DEF Scan, At
  <2>2. c.line \in Line
    BY <1>1, <2>1 DEF HoldsOK, Lineless
  <2>3. Readable(c.line) => file[c.line] \in Created(tickets, c.line) /\ file[c.line] \in Content
    BY <1>1, <2>2 DEF DataOK, Readable, Body
  <2>4. CASE Readable(c.line) /\ proc' = [proc EXCEPT ![a] = d]
    <3>1. /\ d \in Command /\ d.pc = "version" /\ d.verb = c.verb /\ d.line = c.line
          /\ d.read = file[c.line] /\ d.refs = c.refs /\ d.queue = c.queue
      BY <1>1, <2>3, <2>4, Names DEF Command
    <3> HIDE DEF c, d
    <3>2. HoldsOK(tickets, d)
      BY <1>1, <2>1, <2>2, <2>3, <2>4, <3>1 DEF HoldsOK, Lineless
    <3>3. StoreOK(head, d)
      BY <1>1, <2>1, <3>1 DEF StoreOK, ListOK
    <3> QED  BY <1>1, <2>4, <3>1, <3>2, <3>3, LookFrame DEF CommandOK
  <2> QED  BY <1>1, <2>1, <2>4, EndFrame
<1>3. CASE AssignVersion(a)
  <2> DEFINE d(v) == [c EXCEPT !.pc = "validate", !.version = v]
             m == MaxInstanceVersion(c.line)
  <2>1. c.pc = "version" /\ (End(a) \/ \E v \in (m + 1)..MaxVersion : proc' = [proc EXCEPT ![a] = d(v)])
    BY <1>1, <1>3 DEF AssignVersion, At
  <2>2. c.line \in Line
    BY <1>1, <2>1 DEF HoldsOK, Lineless
  <2>3. ASSUME NEW v \in (m + 1)..MaxVersion, proc' = [proc EXCEPT ![a] = d(v)]
        PROVE  AuthoringInv'
    <3>0. v \in Version /\ v \in Nat
      <4>1. m \in 0..MaxVersion /\ MaxVersion \in Nat
        BY <2>2, HighestInstance, AuthoringAssumption
      <4> HIDE DEF m
      <4> QED  BY <4>1 DEF Version
    <3> DEFINE e == d(v)
    <3>1. /\ e \in Command /\ e.pc = "validate" /\ e.verb = c.verb /\ e.line = c.line
          /\ e.read = c.read /\ e.version = v /\ e.refs = c.refs /\ e.queue = c.queue
      BY <1>1, <3>0 DEF Command, AnyPc
    <3> HIDE DEF c, e
    <3>2. HoldsOK(tickets, e)
      BY <1>1, <2>1, <2>2, <3>0, <3>1 DEF HoldsOK, Lineless
    <3>3. StoreOK(head, e)
      BY <1>1, <2>1, <3>1 DEF StoreOK, ListOK
    <3> QED  BY <1>1, <2>3, <3>1, <3>2, <3>3, LookFrame DEF CommandOK, e
  <2> QED  BY <1>1, <2>1, <2>3, EndFrame
<1>4. CASE Validate(a)
  <2> DEFINE d == [c EXCEPT !.pc = "put"]
  <2>1. /\ c.pc = "validate"
        /\ End(a) \/ (Goto(a, "put") /\ Resolves(c.line, c.read.rels, TRUE))
    BY <1>4 DEF Validate, At
  <2>c. c.line \in Strict /\ Resolves(c.line, c.read.rels, TRUE)
          => \A t \in c.read.rels : tickets[t] > 0
    <3>1. c.read.rels \subseteq Line
      BY <1>1, <2>1 DEF HoldsOK, Created, Content
    <3> QED  BY <1>1, <3>1, DraftedWas DEF Resolves
  <2>2. /\ d.pc = "put" /\ d.verb = c.verb /\ d.line = c.line /\ d.todo = c.todo
        /\ d.read = c.read /\ d.version = c.version /\ d.refs = c.refs /\ d.queue = c.queue
    BY <1>1 DEF Command
  <2>3. Resolves(c.line, c.read.rels, TRUE) => HoldsOK(tickets, d)
    <3> HIDE DEF c, d
    <3> QED  BY <1>1, <2>1, <2>2, <2>c DEF HoldsOK, Lineless
  <2>4. StoreOK(head, d)
    <3> HIDE DEF c, d
    <3> QED  BY <1>1, <2>1, <2>2 DEF StoreOK, ListOK
  <2> QED  BY <1>1, <2>1, <2>3, <2>4, GotoFrame DEF AnyPc
<1> QED  BY <1>2, <1>3, <1>4

LEMMA PutSound ==
  ASSUME AuthoringInv, NEW a \in Author, PutUnit(a)
  PROVE  AuthoringInv'
<1> DEFINE c == proc[a]
           d == [c EXCEPT !.pc = "remove"]
<1>1. /\ c \in Command /\ HoldsOK(tickets, c) /\ StoreOK(head, c) /\ proc \in [Author -> Command]
      /\ DataOK(file, tickets, head, past) /\ c.pc = "put"
  BY Fields DEF AuthoringInv, PutUnit, At
<1>2. c.line \in Line /\ c.read \in Created(tickets, c.line) /\ c.version \in Version
  BY <1>1 DEF HoldsOK, Lineless
<1>3. /\ \/ head' = [head EXCEPT ![c.line][c.version] = c.read]
         \/ head' = head /\ c.read \in past[c.line][c.version]
      /\ past' = [past EXCEPT ![c.line][c.version] = @ \cup {c.read}]
      /\ file' = file /\ tickets' = tickets /\ may' = may
      /\ End(a) \/ proc' = [proc EXCEPT ![a] = d]
  BY <1>1 DEF PutUnit, WriteUnit, Goto
<1>4. /\ DataOK(file, tickets, head', past') /\ Grows(tickets, head, tickets, head')
      /\ HasInstance(head', c.line)
  <2> HIDE DEF c
  <2> QED  BY <1>1, <1>2, <1>3, PayloadPut
<1>5. /\ d \in Command /\ d.pc = "remove" /\ d.verb = c.verb /\ d.line = c.line
      /\ d.refs = c.refs /\ d.queue = c.queue /\ d.read = c.read
  BY <1>1 DEF Command, AnyPc
<1>6. CommandOK(tickets, head', d)
  <2>1. CommandOK(tickets, head', c)
    BY <1>1, <1>4, CommandFrame DEF CommandOK
  <2> HIDE DEF c, d
  <2>2. HoldsOK(tickets, d)
    BY <1>1, <1>2, <1>5 DEF HoldsOK, Lineless
  <2>3. StoreOK(head', d)
    BY <1>1, <1>4, <1>5, <2>1 DEF CommandOK, StoreOK, ListOK
  <2> QED  BY <1>5, <2>2, <2>3 DEF CommandOK
<1> QED  BY <1>3, <1>4, <1>6, IdleOK, StepFrame DEF End

LEMMA RemoveSound ==
  ASSUME AuthoringInv, NEW a \in Author, RemoveDraft(a)
  PROVE  AuthoringInv'
<1> DEFINE c == proc[a]
           d(pc) == [c EXCEPT !.pc = pc]
<1>1. /\ c \in Command /\ HoldsOK(tickets, c) /\ StoreOK(head, c) /\ proc \in [Author -> Command]
      /\ DataOK(file, tickets, head, past) /\ c.pc = "remove"
  BY Fields DEF AuthoringInv, RemoveDraft, At
<1>2. c.line \in Line
  BY <1>1 DEF HoldsOK, Lineless
<1>3. /\ file' = [file EXCEPT ![c.line] = Gone] /\ tickets' = tickets
      /\ head' = head /\ past' = past /\ may' = may
      /\ \/ End(a)
         \/ c.verb = "batch" /\ proc' = [proc EXCEPT ![a] = d("next")]
         \/ c.verb = "resolve" /\ proc' = [proc EXCEPT ![a] = d("resolved")]
  BY <1>1 DEF RemoveDraft, StoreStays, Goto
<1>4. DataOK(file', tickets, head, past)
  BY <1>1, <1>2, <1>3, FileWrite
<1>5. ASSUME c.verb = "batch"  PROVE CommandOK(tickets, head, d("next"))
  <2> DEFINE e == d("next")
  <2>1. /\ e \in Command /\ e.pc = "next" /\ e.verb = c.verb /\ e.line = c.line
        /\ e.refs = c.refs /\ e.queue = c.queue
    BY <1>1 DEF Command, AnyPc
  <2> HIDE DEF c, e
  <2>2. HoldsOK(tickets, e)
    BY <1>1, <1>2, <2>1 DEF HoldsOK, Lineless
  <2>3. StoreOK(head, e)
    BY <1>1, <1>5, <2>1 DEF StoreOK, ListOK
  <2> QED  BY <2>1, <2>2, <2>3 DEF CommandOK, e
<1>6. ASSUME c.verb = "resolve"  PROVE CommandOK(tickets, head, d("resolved"))
  <2> DEFINE e == d("resolved")
  <2>1. e \in Command /\ e.pc = "resolved" /\ e.verb = c.verb /\ e.line = c.line
    BY <1>1 DEF Command, AnyPc
  <2> HIDE DEF c, e
  <2>2. HoldsOK(tickets, e) /\ StoreOK(head, e)
    BY <1>1, <1>2, <1>6, <2>1 DEF HoldsOK, Lineless, StoreOK
  <2> QED  BY <2>1, <2>2 DEF CommandOK, e
<1> QED  BY <1>3, <1>4, <1>5, <1>6, IdleOK, SameGrows, StepFrame DEF End

LEMMA BatchSound ==
  ASSUME AuthoringInv, NEW a \in Author,
         ListDrafts(a) \/ CheckEdges(a) \/ NextDraft(a)
  PROVE  AuthoringInv'
<1> DEFINE c == proc[a]
<1>1. /\ c \in Command /\ HoldsOK(tickets, c) /\ StoreOK(head, c) /\ proc \in [Author -> Command]
      /\ DataOK(file, tickets, head, past) /\ AllStays
      /\ c.queue \subseteq Line /\ \A l \in Line : c.refs[l] \subseteq Line
  BY Fields DEF AuthoringInv, ListDrafts, CheckEdges, NextDraft
<1>2. CASE ListDrafts(a)
  <2> DEFINE P == {l \in Line : file[l] # Gone}
             R == [l \in Line |-> IF l \in P THEN file[l].rels ELSE {}]
             d == [c EXCEPT !.pc = "edges", !.queue = P, !.refs = R]
  <2>1. /\ c.pc = "list"
        /\ \/ End(a)
           \/ (\A l \in P : file[l] # Torn) /\ proc' = [proc EXCEPT ![a] = d]
    BY <1>1, <1>2 DEF ListDrafts, At
  <2>2. CASE (\A l \in P : file[l] # Torn) /\ proc' = [proc EXCEPT ![a] = d]
    <3>1. \A l \in P : file[l] \in Content
      BY <1>1, <2>2 DEF DataOK, Body
    <3>2. R \in [Line -> SUBSET Line]
      BY <3>1 DEF Content
    <3>3. P \in SUBSET Line
      OBVIOUS
    <3> HIDE DEF P, R
    <3>4. d \in Command /\ d.pc = "edges" /\ d.verb = c.verb /\ d.line = c.line
      BY <1>1, <3>2, <3>3 DEF Command, AnyPc
    <3> HIDE DEF c, d
    <3>5. HoldsOK(tickets, d) /\ StoreOK(head, d)
      BY <1>1, <2>1, <3>4 DEF HoldsOK, Lineless, StoreOK
    <3> QED  BY <1>1, <2>2, <3>4, <3>5, LookFrame DEF CommandOK
  <2> QED  BY <1>1, <2>1, <2>2, EndFrame
<1>3. CASE CheckEdges(a)
  <2> DEFINE d == [c EXCEPT !.pc = "next"]
  <2>1. /\ c.pc = "edges"
        /\ \/ End(a)
           \/ /\ Goto(a, "next")
              /\ \A l \in c.queue, t \in Line : t \in c.refs[l] => t \in c.queue \/ Published(t)
    BY <1>3 DEF CheckEdges, At
  <2>2. CASE /\ Goto(a, "next")
             /\ \A l \in c.queue, t \in Line : t \in c.refs[l] => t \in c.queue \/ Published(t)
    <3>1. /\ d.pc = "next" /\ d.verb = c.verb /\ d.line = c.line
          /\ d.refs = c.refs /\ d.queue = c.queue
      BY <1>1 DEF Command
    <3>2. HoldsOK(tickets, d)
      <4> HIDE DEF c, d
      <4> QED  BY <1>1, <2>1, <3>1 DEF HoldsOK, Lineless
    <3>3. ListOK(head, d)
      <4> HIDE DEF c, d
      <4> SUFFICES ASSUME NEW l \in d.queue, NEW t \in d.refs[l]
                   PROVE  t \in d.queue \/ HasInstance(head, t)
        BY DEF ListOK
      <4>1. l \in c.queue /\ l \in Line /\ t \in c.refs[l] /\ t \in Line
        BY <1>1, <3>1
      <4>2. t \in c.queue \/ Published(t)
        BY <2>2, <4>1
      <4> QED  BY <3>1, <4>1, <4>2, PublishedHas
    <3>4. StoreOK(head, d)
      <4> HIDE DEF c, d
      <4> QED  BY <3>1, <3>3 DEF StoreOK
    <3> QED  BY <1>1, <2>2, <3>2, <3>4, GotoFrame DEF AnyPc
  <2> QED  BY <1>1, <2>1, <2>2, EndFrame
<1>4. CASE NextDraft(a)
  <2> DEFINE d(l) == [c EXCEPT !.pc = "scan", !.line = l, !.queue = @ \ {l}]
  <2>1. /\ c.pc = "next"
        /\ \/ End(a)
           \/ \E l \in c.queue : /\ c.refs[l] \cap c.queue = {}
                                 /\ proc' = [proc EXCEPT ![a] = d(l)]
    BY <1>1, <1>4 DEF NextDraft, At
  <2>2. ASSUME NEW l \in c.queue, c.refs[l] \cap c.queue = {}, proc' = [proc EXCEPT ![a] = d(l)]
        PROVE  AuthoringInv'
    <3> DEFINE e == d(l)
    <3>1. /\ e \in Command /\ e.pc = "scan" /\ e.verb = c.verb /\ e.line = l /\ l \in Line
          /\ e.refs = c.refs /\ e.queue = c.queue \ {l}
      BY <1>1 DEF Command, AnyPc
    <3> HIDE DEF c, e
    <3>2. HoldsOK(tickets, e)
      BY <1>1, <2>1, <3>1 DEF HoldsOK, Lineless
    <3>3. StoreOK(head, e)
      <4> SUFFICES ASSUME e.verb = "batch"
                   PROVE  ListOK(head, e) /\ \A t \in e.refs[l] : HasInstance(head, t)
        BY <3>1 DEF StoreOK
      <4>1. \A k \in c.queue : \A t \in c.refs[k] : t \in c.queue \/ HasInstance(head, t)
        BY <1>1, <2>1, <3>1 DEF StoreOK, ListOK
      <4> QED  BY <2>2, <3>1, <4>1 DEF ListOK
    <3> QED  BY <1>1, <2>2, <3>1, <3>2, <3>3, LookFrame DEF CommandOK, e
  <2> QED  BY <1>1, <2>1, <2>2, EndFrame
<1> QED  BY <1>2, <1>3, <1>4

----------------------------------------------------------------------------
(* Relate *)

\* Contents of a draft with other references or resolved are contents of it.
LEMMA SameTicket ==
  ASSUME NEW l \in Line, NEW u \in Created(tickets, l), NEW R \in SUBSET Line
  PROVE  /\ [u EXCEPT !.rels = R] \in Created(tickets, l)
         /\ [u EXCEPT !.rels = R] \in Content
         /\ [u EXCEPT !.open = FALSE] \in Created(tickets, l)
         /\ [u EXCEPT !.open = FALSE] \in Content
BY DEF Created, Content

LEMMA RelateSound ==
  ASSUME AuthoringInv, NEW a \in Author,
         ReadCurrent(a) \/ RelateGate(a) \/ Reread(a)
  PROVE  AuthoringInv'
<1> DEFINE c == proc[a]
<1>1. /\ c \in Command /\ HoldsOK(tickets, c) /\ StoreOK(head, c) /\ proc \in [Author -> Command]
      /\ DataOK(file, tickets, head, past) /\ AllStays /\ \A l \in Line : c.refs[l] \subseteq Line
  BY Fields DEF AuthoringInv, ReadCurrent, RelateGate, Reread
<1>2. CASE ReadCurrent(a)
  <2> DEFINE v == MaxInstanceVersion(c.line)
             old == IF v > 0 THEN head[c.line][v] ELSE file[c.line]
             next == [old EXCEPT !.rels = @ \cup Added(c)]
             pc == IF v > 0 THEN "gate" ELSE "reread"
             d == [c EXCEPT !.pc = pc, !.read = next, !.version = v]
  <2>1. /\ c.pc = "current"
        /\ \/ End(a)
           \/ old \notin {Gone, Torn} /\ proc' = [proc EXCEPT ![a] = d]
    BY <1>1, <1>2 DEF ReadCurrent, At
  <2>2. c.line \in Line /\ Added(c) \subseteq Line /\ c.verb \in Storing /\ c.verb # "batch"
    BY <1>1, <2>1 DEF HoldsOK, StoreOK, Lineless, Added
  <2>3. CASE old \notin {Gone, Torn} /\ proc' = [proc EXCEPT ![a] = d]
    <3>1. v \in Nat /\ (v > 0 => v \in Version)
      BY <2>2, HighestInstance, AuthoringAssumption
    <3>2. old \in Created(tickets, c.line) /\ old \in Content
      <4>1. CASE v > 0
        BY <1>1, <2>2, <4>1, HighestInstance, HeadCreated
      <4>2. CASE ~(v > 0)
        BY <1>1, <2>2, <2>3, <4>2, FileCreated DEF Readable
      <4> QED  BY <4>1, <4>2
    <3> HIDE DEF old
    <3>3. next \in Created(tickets, c.line) /\ next \in Content
      <4>1. old.rels \cup Added(c) \in SUBSET Line
        BY <2>2, <3>2 DEF Content
      <4> QED  BY <2>2, <3>2, <4>1, SameTicket
    <3> HIDE DEF next, v
    <3>4. /\ d \in Command /\ d.pc = pc /\ d.verb = c.verb /\ d.line = c.line
          /\ d.read = next /\ d.version = v
      BY <1>1, <3>1, <3>3, Names DEF Command
    <3>5. pc \in {"gate", "reread"} /\ (pc = "gate" => v > 0)
      OBVIOUS
    <3> HIDE DEF c, d, pc
    <3>6. HoldsOK(tickets, d) /\ StoreOK(head, d)
      BY <2>2, <3>1, <3>3, <3>4, <3>5 DEF HoldsOK, Lineless, StoreOK
    <3> QED  BY <1>1, <2>3, <3>4, <3>6, LookFrame DEF CommandOK
  <2> QED  BY <1>1, <2>1, <2>3, EndFrame
<1>3. CASE RelateGate(a)
  <2> DEFINE d == [c EXCEPT !.pc = "repoint"]
  <2>1. c.pc = "gate" /\ (End(a) \/ Goto(a, "repoint"))
    BY <1>3 DEF RelateGate, At
  <2>2. /\ d.pc = "repoint" /\ d.verb = c.verb /\ d.line = c.line
        /\ d.read = c.read /\ d.version = c.version
    BY <1>1 DEF Command
  <2>3. HoldsOK(tickets, d) /\ StoreOK(head, d)
    <3> HIDE DEF c, d
    <3> QED  BY <1>1, <2>1, <2>2 DEF HoldsOK, Lineless, StoreOK
  <2> QED  BY <1>1, <2>1, <2>3, GotoFrame DEF AnyPc
<1>4. CASE Reread(a)
  <2> DEFINE u == [file[c.line] EXCEPT !.rels = c.read.rels]
             d == [c EXCEPT !.pc = "rewrite", !.read = u]
  <2>1. /\ c.pc = "reread"
        /\ \/ End(a)
           \/ Readable(c.line) /\ proc' = [proc EXCEPT ![a] = d]
    BY <1>1, <1>4 DEF Reread, At
  <2>2. /\ c.line \in Line /\ c.read \in Created(tickets, c.line)
        /\ c.verb \in Storing /\ c.verb # "batch"
    BY <1>1, <2>1 DEF HoldsOK, StoreOK, Lineless
  <2>3. CASE Readable(c.line) /\ proc' = [proc EXCEPT ![a] = d]
    <3>1. u \in Created(tickets, c.line) /\ u \in Content
      <4>1. c.read.rels \in SUBSET Line
        BY <2>2 DEF Created, Content
      <4> QED  BY <1>1, <2>2, <2>3, <4>1, FileCreated, SameTicket
    <3> HIDE DEF u
    <3>2. d \in Command /\ d.pc = "rewrite" /\ d.verb = c.verb /\ d.line = c.line /\ d.read = u
      BY <1>1, <3>1 DEF Command, AnyPc
    <3> HIDE DEF c, d
    <3>3. HoldsOK(tickets, d) /\ StoreOK(head, d)
      BY <2>2, <3>1, <3>2 DEF HoldsOK, Lineless, StoreOK
    <3> QED  BY <1>1, <2>3, <3>2, <3>3, LookFrame DEF CommandOK
  <2> QED  BY <1>1, <2>1, <2>3, EndFrame
<1> QED  BY <1>2, <1>3, <1>4

LEMMA RepointSound ==
  ASSUME AuthoringInv, NEW a \in Author, Repoint(a)
  PROVE  AuthoringInv'
<1> DEFINE c == proc[a]
<1>1. /\ HoldsOK(tickets, c) /\ DataOK(file, tickets, head, past) /\ c.pc = "repoint"
  BY Fields DEF AuthoringInv, Repoint, At
<1>2. c.line \in Line /\ c.read \in Created(tickets, c.line) /\ c.version \in Version
  BY <1>1 DEF HoldsOK, Lineless
<1>3. /\ head' = [head EXCEPT ![c.line][c.version] = c.read]
      /\ past' = [past EXCEPT ![c.line][c.version] = @ \cup {c.read}]
      /\ file' = file /\ tickets' = tickets /\ may' = may /\ End(a)
  BY DEF Repoint
<1> HIDE DEF c
<1>4. DataOK(file, tickets, head', past') /\ Grows(tickets, head, tickets, head')
  BY <1>1, <1>2, <1>3, PayloadPut
<1> QED  BY <1>3, <1>4, IdleOK, StepFrame DEF End

LEMMA RewriteSound ==
  ASSUME AuthoringInv, NEW a \in Author, Rewrite(a)
  PROVE  AuthoringInv'
<1> DEFINE c == proc[a]
           d(pc) == [c EXCEPT !.pc = pc]
<1>1. /\ c \in Command /\ HoldsOK(tickets, c) /\ StoreOK(head, c) /\ proc \in [Author -> Command]
      /\ DataOK(file, tickets, head, past) /\ c.pc = "rewrite"
  BY Fields DEF AuthoringInv, Rewrite, At
<1>2. /\ c.line \in Line /\ c.read \in Created(tickets, c.line)
      /\ c.verb \in Storing /\ c.verb # "batch"
  BY <1>1 DEF HoldsOK, StoreOK, Lineless
<1>3. /\ file' = [file EXCEPT ![c.line] = c.read] /\ tickets' = tickets
      /\ head' = head /\ past' = past /\ may' = may
      /\ \/ End(a)
         \/ proc' = [proc EXCEPT ![a] = d("scan")]
         \/ proc' = [proc EXCEPT ![a] = d("published")]
  BY <1>1 DEF Rewrite, StoreStays, Goto
<1>4. DataOK(file', tickets, head, past)
  BY <1>1, <1>2, <1>3, FileWrite
<1>5. ASSUME NEW pc \in {"scan", "published"}  PROVE CommandOK(tickets, head, d(pc))
  <2> DEFINE e == d(pc)
  <2>1. e \in Command /\ e.pc = pc /\ e.verb = c.verb /\ e.line = c.line
    BY <1>1 DEF Command, AnyPc
  <2> HIDE DEF c, e
  <2>2. HoldsOK(tickets, e) /\ StoreOK(head, e)
    BY <1>2, <2>1 DEF HoldsOK, Lineless, StoreOK
  <2> QED  BY <2>1, <2>2 DEF CommandOK, e
<1> QED  BY <1>3, <1>4, <1>5, IdleOK, SameGrows, StepFrame DEF End

----------------------------------------------------------------------------
(* Resolution of a note *)

LEMMA ResolveSound ==
  ASSUME AuthoringInv, NEW a \in Author,
         StatDraft(a) \/ Redraft(a) \/ CheckInstances(a)
  PROVE  AuthoringInv'
<1> DEFINE c == proc[a]
           g(pc) == [c EXCEPT !.pc = pc]
<1>1. /\ c \in Command /\ HoldsOK(tickets, c) /\ StoreOK(head, c) /\ proc \in [Author -> Command]
      /\ DataOK(file, tickets, head, past) /\ AllStays
      /\ c.pc \in {"stat", "redraft", "published"}
  BY Fields DEF AuthoringInv, StatDraft, Redraft, CheckInstances, At
<1>2. c.line \in Line /\ c.verb \in Storing /\ c.verb # "batch"
  BY <1>1 DEF HoldsOK, StoreOK, Lineless
<1>3. ASSUME NEW pc \in {"scan", "published", "resolved", "base"}, Goto(a, pc),
             pc = "base" => HasInstance(head, c.line)
      PROVE  AuthoringInv'
  <2> DEFINE e == g(pc)
  <2>1. e.pc = pc /\ e.verb = c.verb /\ e.line = c.line
    BY <1>1 DEF Command
  <2>2. HoldsOK(tickets, e) /\ StoreOK(head, e)
    <3> HIDE DEF c, e
    <3> QED  BY <1>2, <1>3, <2>1 DEF HoldsOK, Lineless, StoreOK
  <2> QED  BY <1>1, <1>3, <2>2, GotoFrame DEF AnyPc
<1>4. CASE StatDraft(a)
  <2> DEFINE there == file[c.line] # Gone
             pc == IF there THEN "redraft" ELSE "published"
             d == [c EXCEPT !.pc = pc, !.drafted = there, !.stage = "draft"]
  <2>1. proc' = [proc EXCEPT ![a] = d]
    BY <1>1, <1>4 DEF StatDraft
  <2>2. there \in BOOLEAN /\ pc \in {"redraft", "published"}
    OBVIOUS
  <2> HIDE DEF there, pc
  <2>3. d \in Command /\ d.pc = pc /\ d.verb = c.verb /\ d.line = c.line
    BY <1>1, <2>2, Names DEF Command
  <2> HIDE DEF c, d
  <2>4. HoldsOK(tickets, d) /\ StoreOK(head, d)
    BY <1>2, <2>2, <2>3 DEF HoldsOK, Lineless, StoreOK
  <2> QED  BY <1>1, <2>1, <2>3, <2>4, LookFrame DEF CommandOK
<1>5. CASE Redraft(a)
  <2> DEFINE u == [file[c.line] EXCEPT !.open = FALSE]
             d == [c EXCEPT !.pc = "rewrite", !.read = u]
  <2>1. \/ End(a)
        \/ Readable(c.line) /\ proc' = [proc EXCEPT ![a] = d]
        \/ \E pc \in {"scan", "published"} : Goto(a, pc)
    BY <1>1, <1>5 DEF Redraft
  <2>2. CASE Readable(c.line) /\ proc' = [proc EXCEPT ![a] = d]
    <3>1. u \in Created(tickets, c.line) /\ u \in Content
      BY <1>1, <1>2, <2>2, FileCreated, SameTicket
    <3> HIDE DEF u
    <3>2. d \in Command /\ d.pc = "rewrite" /\ d.verb = c.verb /\ d.line = c.line /\ d.read = u
      BY <1>1, <3>1 DEF Command, AnyPc
    <3> HIDE DEF c, d
    <3>3. HoldsOK(tickets, d) /\ StoreOK(head, d)
      BY <1>2, <3>1, <3>2 DEF HoldsOK, Lineless, StoreOK
    <3> QED  BY <1>1, <2>2, <3>2, <3>3, LookFrame DEF CommandOK
  <2> QED  BY <1>1, <1>3, <2>1, <2>2, EndFrame
<1>6. CASE CheckInstances(a)
  <2>1. \/ End(a) \/ Goto(a, "resolved")
        \/ OpenInstances(c.line) # {} /\ Goto(a, "base")
    BY <1>6 DEF CheckInstances
  <2>2. OpenInstances(c.line) # {} => HasInstance(head, c.line)
    BY DEF OpenInstances, Instances, HasInstance
  <2> QED  BY <1>1, <1>3, <2>1, <2>2, EndFrame
<1> QED  BY <1>4, <1>5, <1>6

\* The instance a resolution starts from is the lowest one.
LEMMA LowestInstance ==
  ASSUME NEW l \in Line, HasInstance(head, l)
  PROVE  /\ FirstInstance(l) \in Version /\ head[l][FirstInstance(l)] # NoUnit
         /\ \A v \in Version : head[l][v] # NoUnit => FirstInstance(l) <= v
<1> DEFINE S == Instances(l)
<1>1. MaxVersion \in Nat /\ S \subseteq 1..MaxVersion /\ S # {}
  BY AuthoringAssumption DEF Instances, Version, HasInstance
<1>2. \A v \in S : v \in Version /\ head[l][v] # NoUnit
  BY DEF Instances
<1> HIDE DEF S
<1>3. \E v \in S : \A w \in S : v <= w
  BY <1>1, LeastElement
<1>4. FirstInstance(l) \in S /\ \A w \in S : FirstInstance(l) <= w
  BY <1>3 DEF FirstInstance, S
<1>5. \A v \in Version : head[l][v] # NoUnit => v \in S
  BY DEF S, Instances
<1> QED  BY <1>2, <1>4, <1>5

LEMMA BaseSound ==
  ASSUME AuthoringInv, NEW a \in Author, ReadBase(a)
  PROVE  AuthoringInv'
<1> DEFINE c == proc[a]
           u == head[c.line][FirstInstance(c.line)]
           todo == <<[line |-> c.line, rels |-> u.rels]>>
           d == [c EXCEPT !.pc = "create", !.stage = "scaffold", !.todo = todo]
           e == [c EXCEPT !.pc = "resolved"]
<1>1. /\ c \in Command /\ HoldsOK(tickets, c) /\ StoreOK(head, c) /\ proc \in [Author -> Command]
      /\ DataOK(file, tickets, head, past) /\ AllStays /\ c.pc = "base"
      /\ proc' = [proc EXCEPT ![a] = d] \/ Goto(a, "resolved")
  BY Fields DEF AuthoringInv, ReadBase, At
<1>2. /\ c.line \in Line /\ c.verb \in Storing /\ c.verb # "batch"
      /\ HasInstance(head, c.line)
  BY <1>1 DEF HoldsOK, StoreOK, Lineless
<1>3. u \in Content
  BY <1>1, <1>2, LowestInstance, HeadCreated
<1> HIDE DEF u
<1>4. todo \in Seq(Request) /\ todo # <<>>
  <2>1. [line |-> c.line, rels |-> u.rels] \in Request
    BY <1>2, <1>3 DEF Request, Content
  <2> QED  BY <2>1
<1> HIDE DEF todo
<1>5. d \in Command /\ d.pc = "create" /\ d.verb = c.verb /\ d.line = c.line /\ d.todo = todo
  BY <1>1, <1>4 DEF Command, AnyPc
<1>6. e.pc = "resolved" /\ e.verb = c.verb /\ e.line = c.line
  BY <1>1 DEF Command
<1>7. CommandOK(tickets, head, d)
  <2> HIDE DEF c, d
  <2> QED  BY <1>2, <1>4, <1>5 DEF CommandOK, HoldsOK, Lineless, StoreOK
<1>8. HoldsOK(tickets, e) /\ StoreOK(head, e)
  <2> HIDE DEF c, e
  <2> QED  BY <1>2, <1>6 DEF HoldsOK, Lineless, StoreOK
<1>9. CASE proc' = [proc EXCEPT ![a] = d]
  <2> HIDE DEF d
  <2> QED  BY <1>1, <1>7, <1>9, LookFrame
<1>10. CASE Goto(a, "resolved")
  BY <1>1, <1>8, <1>10, GotoFrame DEF AnyPc
<1> QED  BY <1>1, <1>9, <1>10

----------------------------------------------------------------------------
(* Every step *)

\* A process ends between the open and the write of a draft file.
LEMMA TornSound ==
  ASSUME AuthoringInv, NEW a \in Author, CrashTorn(a)
  PROVE  AuthoringInv'
<1> DEFINE c == proc[a]
           r == Head(c.todo)
<1>1. /\ HoldsOK(tickets, c) /\ DataOK(file, tickets, head, past) /\ c.todo \in Seq(Request)
  BY Fields DEF AuthoringInv
<1>2. End(a) /\ head' = head /\ past' = past /\ may' = may
  BY DEF CrashTorn, StoreStays
<1>3. CASE /\ c.pc = "create" /\ Creatable(r.line)
           /\ file' = [file EXCEPT ![r.line] = Torn]
           /\ tickets' = [tickets EXCEPT ![r.line] = @ + 1]
  <2>1. r.line \in Line
    <3>1. c.todo # <<>>
      BY <1>1, <1>3 DEF HoldsOK
    <3>2. r \in Request
      BY <1>1, <3>1
    <3> QED  BY <3>2 DEF Request
  <2> HIDE DEF r
  <2>2. DataOK(file, tickets', head, past) /\ Grows(tickets, head, tickets', head)
    BY <1>1, <1>3, <2>1, TicketTaken DEF Creatable
  <2>3. DataOK(file', tickets', head, past)
    BY <1>3, <2>1, <2>2, FileWrite
  <2> QED  BY <1>2, <2>2, <2>3, IdleOK, StepFrame DEF End
<1>4. CASE /\ c.pc = "rewrite" /\ file' = [file EXCEPT ![c.line] = Torn]
           /\ tickets' = tickets
  <2>1. c.line \in Line
    BY <1>1, <1>4 DEF HoldsOK, Lineless
  <2>2. DataOK(file', tickets, head, past)
    BY <1>1, <1>4, <2>1, FileWrite
  <2> QED  BY <1>2, <1>4, <2>2, IdleOK, SameGrows, StepFrame DEF End
<1> QED  BY <1>3, <1>4 DEF CrashTorn, At

LEMMA InitSound ==
  ASSUME Init
  PROVE  AuthoringInv
<1>1. DataOK(file, tickets, head, past)
  BY AuthoringAssumption DEF Init, DataOK, Body
<1>2. proc \in [Author -> Command] /\ \A a \in Author : CommandOK(tickets, head, proc[a])
  BY IdleOK, IdleCommand DEF Init
<1> QED  BY <1>1, <1>2 DEF Init, AuthoringInv

LEMMA NextSound ==
  ASSUME AuthoringInv, [Next]_vars
  PROVE  AuthoringInv'
<1>1. CASE UNCHANGED vars
  BY <1>1 DEF vars, AuthoringInv
<1>2. ASSUME NEW a \in Author, Begin(a)  PROVE AuthoringInv'
  BY <1>2, BeginSound
<1>3. ASSUME NEW a \in Author, Step(a)  PROVE AuthoringInv'
  <2>1. CASE Create(a) \/ CreateFails(a) \/ Rollback(a) \/ RolledBack(a)
    BY <2>1, CreateSound, RollbackSound
  <2>2. CASE Scan(a) \/ AssignVersion(a) \/ Validate(a) \/ PutUnit(a) \/ RemoveDraft(a)
    BY <2>2, ScanSound, PutSound, RemoveSound
  <2>3. CASE ListDrafts(a) \/ CheckEdges(a) \/ NextDraft(a)
    BY <2>3, BatchSound
  <2>4. CASE ReadCurrent(a) \/ RelateGate(a) \/ Repoint(a) \/ Reread(a) \/ Rewrite(a)
    BY <2>4, RelateSound, RepointSound, RewriteSound
  <2>5. CASE StatDraft(a) \/ Redraft(a) \/ CheckInstances(a) \/ ReadBase(a)
    BY <2>5, ResolveSound, BaseSound
  <2>6. CASE Report(a)
    BY <2>6, EndFrame DEF Report
  <2> QED  BY <1>3, <2>1, <2>2, <2>3, <2>4, <2>5, <2>6 DEF Step
<1>4. ASSUME NEW a \in Author, Crash(a) \/ CrashTorn(a)  PROVE AuthoringInv'
  BY <1>4, EndFrame, TornSound DEF Crash
<1> QED  BY <1>1, <1>2, <1>3, <1>4 DEF Next

LEMMA AuthoringInvHolds == Spec => []AuthoringInv
<1>1. Init => AuthoringInv
  BY InitSound
<1>2. AuthoringInv /\ [Next]_vars => AuthoringInv'
  BY NextSound
<1> QED  BY <1>1, <1>2, PTL DEF Spec

\* However the commands of any number of authors interleave and wherever they
\* end, drafts and references hold contents of drafts that were created, and a
\* reference leads to an archived payload (draft.go, relate.go, note_resolve.go).
THEOREM AuthoringTypesCorrect == Spec => []AuthoringTypeOK
<1>1. AuthoringInv => AuthoringTypeOK
  <2> SUFFICES ASSUME AuthoringInv  PROVE AuthoringTypeOK
    OBVIOUS
  <2>1. DataOK(file, tickets, head, past) /\ may \in Sessions
    BY DEF AuthoringInv
  <2>2. /\ file \in [Line -> Body] /\ tickets \in [Line -> Nat]
        /\ \A l \in Line : tickets[l] <= MaxTicket[l]
    BY <2>1 DEF DataOK
  <2>3. ASSUME NEW l \in Line, Readable(l)  PROVE file[l].ticket <= tickets[l]
    <3>1. file[l].ticket \in 1..tickets[l] /\ tickets[l] \in Nat
      BY <2>1, <2>2, <2>3, FileCreated DEF Created
    <3> QED  BY <3>1
  <2>4. ASSUME NEW l \in Line, NEW v \in Version, head[l][v] # NoUnit
        PROVE  head[l][v] \in past[l][v] /\ head[l][v].ticket \in 1..tickets[l]
    <3>1. head[l][v] \in past[l][v]
      BY <2>1, <2>4 DEF DataOK
    <3>2. head[l][v] \in Created(tickets, l)
      BY <2>1, <2>4, HeadCreated
    <3> QED  BY <3>1, <3>2 DEF Created
  <2> QED  BY <2>1, <2>2, <2>3, <2>4 DEF AuthoringTypeOK
<1> QED  BY <1>1, AuthoringInvHolds, PTL

\* However the commands of any number of authors interleave with a batch, what
\* it publishes refers to published lines, but for references that were added
\* to a draft after the batch listed it, and of a strict line these lead to a
\* line that was drafted (batch.go: the edges are checked once, over the drafts
\* as they were listed, and the gate of each draft over the draft as it is).
THEOREM BatchesAreCoherent == Spec => []BatchIsCoherent
<1>1. AuthoringInv => BatchIsCoherent
  <2> SUFFICES ASSUME AuthoringInv, NEW a \in Author, At(a, "remove"), proc[a].verb = "batch",
                      NEW t \in proc[a].read.rels, ~Published(t)
               PROVE  /\ t \notin proc[a].refs[proc[a].line]
                      /\ proc[a].line \in Strict => tickets[t] > 0
    BY DEF BatchIsCoherent
  <2> DEFINE c == proc[a]
  <2>1. /\ HoldsOK(tickets, c) /\ StoreOK(head, c) /\ c.pc = "remove"
    BY Fields DEF At
  <2>2. c.line \in Line /\ c.read \in Content
    BY <2>1 DEF HoldsOK, Lineless, Created
  <2>3. t \in Line
    BY <2>2 DEF Content
  <2>4. t \in c.refs[c.line] => HasInstance(head, t)
    BY <2>1 DEF StoreOK
  <2>5. t \notin c.refs[c.line]
    BY <2>3, <2>4, PublishedHas
  <2>6. c.line \in Strict => tickets[t] > 0
    BY <2>1 DEF HoldsOK
  <2> QED  BY <2>5, <2>6
<1> QED  BY <1>1, AuthoringInvHolds, PTL

----------------------------------------------------------------------------
(* Published content stays *)

\* The verbs that end at the store.
Stores(verbs) == verbs \cap (Storing \cup {"repoint"}) # {}

\* One author alone goes to the store; others create, annotate, edit and
\* discard drafts.
OneStoreAuthor ==
  \A s \in Sessions : \A a, b \in Author : Stores(s[a]) /\ Stores(s[b]) => a = b

\* What replaces a published content: the same draft, and no edge less.
Extends(old, new) ==
  /\ old # NoUnit /\ new.ticket = old.ticket /\ new.edit = old.edit
  /\ old.rels \subseteq new.rels

\* The form a command is about to write is free, or led to what it read.
KnowsForm(hd, c) ==
  /\ c.pc \in {"validate", "put"} => hd[c.line][c.version] = NoUnit
  /\ c.pc \in {"gate", "repoint"} => Extends(hd[c.line][c.version], c.read)

KnownInv ==
  \A a \in Author :
    /\ proc[a].verb \in Storing => Stores(may[a])
    /\ KnowsForm(head, proc[a])

\* A step is of one author, who has the verb.
OwnStep(a) ==
  /\ may' = may /\ \A b \in Author \ {a} : proc'[b] = proc[b]
  /\ proc'[a].verb \in Storing => proc[a].verb \in Storing \/ Stores(may[a])

Quiet(a) ==
  \/ proc' = proc
  \/ proc'[a].pc \notin {"validate", "put", "gate", "repoint"}

CalmStep(a) == OwnStep(a) /\ Quiet(a) /\ head' = head

LEMMA EndQuiet ==
  ASSUME AuthoringInv, NEW a \in Author, End(a), may' = may
  PROVE  OwnStep(a) /\ Quiet(a)
<1>1. Idle.verb = "none" /\ Idle.pc = "idle"
  BY DEF Idle
<1> HIDE DEF Idle
<1> QED  BY <1>1, Fields DEF End, OwnStep, Quiet, Storing

LEMMA MoveQuiet ==
  ASSUME AuthoringInv, NEW a \in Author, NEW d, proc' = [proc EXCEPT ![a] = d], may' = may,
         d.verb \in Storing => d.verb = proc[a].verb \/ Stores(may[a])
  PROVE  /\ OwnStep(a) /\ proc'[a] = d
         /\ d.pc \notin {"validate", "put", "gate", "repoint"} => Quiet(a)
BY Fields DEF OwnStep, Quiet

LEMMA GotoQuiet ==
  ASSUME AuthoringInv, NEW a \in Author, NEW pc, Goto(a, pc), may' = may
  PROVE  /\ OwnStep(a) /\ proc'[a] = [proc[a] EXCEPT !.pc = pc]
         /\ pc \notin {"validate", "put", "gate", "repoint"} => Quiet(a)
<1> DEFINE d == [proc[a] EXCEPT !.pc = pc]
<1>1. proc[a] \in Command /\ proc \in [Author -> Command]
  BY Fields
<1>2. proc' = [proc EXCEPT ![a] = d]
  BY DEF Goto
<1>3. d.pc = pc /\ d.verb = proc[a].verb
  BY <1>1 DEF Command
<1> HIDE DEF d
<1> QED  BY <1>2, <1>3, MoveQuiet DEF d

\* A command begins with a verb of its author.
LEMMA BeginQuiet ==
  ASSUME AuthoringInv, NEW a \in Author, Begin(a)
  PROVE  CalmStep(a)
<1>0. Idle \in Command
  BY IdleCommand
<1> HIDE DEF Idle
<1>1. ASSUME NEW verb \in Verb, NEW pc \in AnyPc, NEW l, Start(a, verb, pc, l), AllStays,
             verb \in Storing, pc \in {"scan", "list", "stat"}
      PROVE  CalmStep(a)
  <2> DEFINE d == [Idle EXCEPT !.verb = verb, !.pc = pc, !.line = l]
  <2>1. proc' = [proc EXCEPT ![a] = d] /\ may' = may /\ head' = head /\ verb \in may[a]
    BY <1>1 DEF Start, AllStays
  <2>2. d.verb = verb /\ d.pc = pc
    BY <1>0 DEF Command
  <2>3. Stores(may[a])
    BY <1>1, <2>1 DEF Stores
  <2> HIDE DEF d
  <2> QED  BY <1>1, <2>1, <2>2, <2>3, MoveQuiet DEF CalmStep
<1>2. ASSUME NEW reqs \in Scaffolds, New(a, reqs)
      PROVE  CalmStep(a)
  <2> DEFINE d == [Idle EXCEPT !.verb = "new", !.pc = "create", !.todo = reqs]
  <2>1. proc' = [proc EXCEPT ![a] = d] /\ may' = may /\ head' = head
    BY <1>2 DEF New, AllStays
  <2>2. d.verb = "new" /\ d.pc = "create"
    BY <1>0 DEF Command
  <2> HIDE DEF d
  <2> QED  BY <2>1, <2>2, MoveQuiet DEF CalmStep, Storing
<1>3. ASSUME NEW r, PublishInline(a, r)
      PROVE  CalmStep(a)
  <2> DEFINE d == [Idle EXCEPT !.verb = "inline", !.pc = "version", !.line = r.line,
                     !.read = Template(r)]
  <2>1. /\ proc' = [proc EXCEPT ![a] = d] /\ may' = may /\ head' = head
        /\ "inline" \in may[a]
    BY <1>3 DEF PublishInline, StoreStays
  <2>2. d.verb = "inline" /\ d.pc = "version"
    BY <1>0 DEF Command
  <2>3. Stores(may[a])
    BY <2>1 DEF Stores, Storing
  <2> HIDE DEF d
  <2> QED  BY <2>1, <2>2, <2>3, MoveQuiet DEF CalmStep, Storing
<1>4. ASSUME NEW l, NEW verb, NEW stage, Derive(a, l, verb, stage),
             verb = "note" \/ (verb = "resolve" /\ "resolve" \in may[a])
      PROVE  CalmStep(a)
  <2> DEFINE i == CHOOSE j \in Free(l) : \A k \in Free(l) : j <= k
             t == <<[line |-> Derived[l][i], rels |-> {l}]>>
             d == [Idle EXCEPT !.verb = verb, !.pc = "create", !.line = l, !.stage = stage,
                     !.todo = t]
  <2>1. proc' = [proc EXCEPT ![a] = d] /\ may' = may /\ head' = head
    BY <1>4 DEF Derive, AllStays
  <2> HIDE DEF t
  <2>2. d.verb = verb /\ d.pc = "create"
    BY <1>0 DEF Command
  <2>3. verb \in Storing => Stores(may[a])
    BY <1>4 DEF Stores, Storing
  <2> HIDE DEF d
  <2> QED  BY <2>1, <2>2, <2>3, MoveQuiet DEF CalmStep
<1>5. ASSUME NEW l, DiscardDraft(a, l) \/ EditDraft(a, l)
      PROVE  CalmStep(a)
  BY <1>5 DEF DiscardDraft, EditDraft, StoreStays, OwnStep, Quiet, CalmStep
<1>6. ASSUME NEW r, Relate(a, r)
      PROVE  CalmStep(a)
  <2> DEFINE d == [Idle EXCEPT !.verb = "relate", !.pc = "current", !.line = r[1],
                     !.refs[r[1]] = {r[2]}]
  <2>1. /\ proc' = [proc EXCEPT ![a] = d] /\ may' = may /\ head' = head
        /\ "relate" \in may[a] \/ "repoint" \in may[a]
    BY <1>6 DEF Relate, AllStays
  <2>2. d.verb = "relate" /\ d.pc = "current"
    BY <1>0 DEF Command
  <2>3. Stores(may[a])
    BY <2>1 DEF Stores, Storing
  <2> HIDE DEF d
  <2> QED  BY <2>1, <2>2, <2>3, MoveQuiet DEF CalmStep
<1>7. ASSUME NEW l, NoteDraft(a, l) \/ ResolveWithReply(a, l)
      PROVE  CalmStep(a)
  BY <1>4, <1>7 DEF NoteDraft, ResolveWithReply
<1>8. ASSUME NEW l, Publish(a, l) \/ ResolveNote(a, l) \/ PublishBatch(a)
      PROVE  CalmStep(a)
  <2>1. CASE Publish(a, l)
    BY <1>1, <2>1 DEF Publish, Verb, AnyPc, Storing
  <2>2. CASE ResolveNote(a, l)
    BY <1>1, <2>2 DEF ResolveNote, Verb, AnyPc, Storing
  <2>3. CASE PublishBatch(a)
    BY <1>1, <2>3 DEF PublishBatch, Verb, AnyPc, Storing
  <2> QED  BY <1>8, <2>1, <2>2, <2>3
<1> QED  BY <1>2, <1>3, <1>5, <1>6, <1>7, <1>8 DEF Begin

\* The steps of a command that neither write a reference nor prepare it.
LEMMA StepQuiet ==
  ASSUME AuthoringInv, NEW a \in Author,
         \/ Create(a) \/ CreateFails(a) \/ Rollback(a) \/ RolledBack(a)
         \/ Scan(a) \/ RemoveDraft(a) \/ ListDrafts(a) \/ CheckEdges(a) \/ NextDraft(a)
         \/ Reread(a) \/ Rewrite(a) \/ StatDraft(a) \/ Redraft(a)
         \/ CheckInstances(a) \/ ReadBase(a) \/ Report(a) \/ Crash(a) \/ CrashTorn(a)
  PROVE  CalmStep(a)
<1> DEFINE c == proc[a]
           Calm == AnyPc \ {"validate", "put", "gate", "repoint"}
<1>1. c \in Command /\ proc \in [Author -> Command]
  BY Fields
<1>2. ASSUME NEW pc \in Calm, Goto(a, pc), head' = head, may' = may  PROVE CalmStep(a)
  BY <1>2, GotoQuiet DEF CalmStep
<1>3. ASSUME End(a), head' = head, may' = may  PROVE CalmStep(a)
  BY <1>3, EndQuiet DEF CalmStep
<1>4. ASSUME NEW d, proc' = [proc EXCEPT ![a] = d], d.verb = c.verb, d.pc \in Calm,
             head' = head, may' = may
      PROVE  CalmStep(a)
  BY <1>4, MoveQuiet DEF CalmStep
<1>5. CASE Create(a)
  <2> DEFINE r == Head(c.todo)
             pc == AfterCreate(c)
             m == {<<r.line, tickets[r.line] + 1>>}
             d == [c EXCEPT !.pc = pc, !.todo = Tail(@), !.made = @ \cup m]
  <2>1. /\ head' = head /\ may' = may
        /\ \/ End(a)
           \/ proc' = [proc EXCEPT ![a].pc = pc, ![a].todo = Tail(@), ![a].made = @ \cup m]
    BY <1>5 DEF Create, StoreStays
  <2>2. pc \in Calm
    BY DEF AfterCreate, AnyPc
  <2> HIDE DEF pc, r, m
  <2>3. End(a) \/ proc' = [proc EXCEPT ![a] = d]
    BY <1>1, <2>1
  <2>4. d.verb = c.verb /\ d.pc = pc
    BY <1>1 DEF Command
  <2> HIDE DEF d
  <2> QED  BY <1>3, <1>4, <2>1, <2>2, <2>3, <2>4
<1>6. CASE CreateFails(a)
  <2> DEFINE d == [c EXCEPT !.pc = "rollback", !.left = c.made]
  <2>1. head' = head /\ may' = may /\ (End(a) \/ proc' = [proc EXCEPT ![a] = d])
    BY <1>1, <1>6 DEF CreateFails, AllStays
  <2>2. d.verb = c.verb /\ d.pc \in Calm
    BY <1>1 DEF Command, AnyPc
  <2> HIDE DEF d
  <2> QED  BY <1>3, <1>4, <2>1, <2>2
<1>7. CASE Rollback(a)
  <2>1. PICK m \in c.left : proc' = [proc EXCEPT ![a].left = @ \ {m}]
    BY <1>7 DEF Rollback
  <2> DEFINE d == [c EXCEPT !.left = @ \ {m}]
  <2>2. proc' = [proc EXCEPT ![a] = d] /\ head' = head /\ may' = may /\ c.pc = "rollback"
    BY <1>1, <1>7, <2>1 DEF Rollback, StoreStays, At
  <2>3. d.verb = c.verb /\ d.pc \in Calm
    BY <1>1, <2>2 DEF Command, AnyPc
  <2> HIDE DEF d
  <2> QED  BY <1>4, <2>2, <2>3
<1>8. CASE RolledBack(a) \/ CheckEdges(a) \/ Report(a) \/ Crash(a) \/ CrashTorn(a)
  <2>1. head' = head /\ may' = may
    BY <1>8 DEF RolledBack, CheckEdges, Report, Crash, CrashTorn, AllStays, StoreStays
  <2>2. \/ End(a) \/ Goto(a, "refused") \/ Goto(a, "next")
    BY <1>8 DEF RolledBack, CheckEdges, Report, Crash, CrashTorn
  <2> QED  BY <1>2, <1>3, <2>1, <2>2 DEF AnyPc
<1>9. CASE RemoveDraft(a) \/ Rewrite(a) \/ CheckInstances(a)
  <2>1. head' = head /\ may' = may
    BY <1>9 DEF RemoveDraft, Rewrite, CheckInstances, AllStays, StoreStays
  <2>2. \/ End(a) \/ Goto(a, "next") \/ Goto(a, "resolved") \/ Goto(a, "scan")
        \/ Goto(a, "published") \/ Goto(a, "base")
    BY <1>9 DEF RemoveDraft, Rewrite, CheckInstances
  <2> QED  BY <1>2, <1>3, <2>1, <2>2 DEF AnyPc
<1>10. CASE Scan(a)
  <2> DEFINE d == [c EXCEPT !.pc = "version", !.read = file[c.line]]
  <2>1. head' = head /\ may' = may /\ (End(a) \/ proc' = [proc EXCEPT ![a] = d])
    BY <1>1, <1>10 DEF Scan, AllStays
  <2>2. d.verb = c.verb /\ d.pc \in Calm
    BY <1>1 DEF Command, AnyPc
  <2> HIDE DEF d
  <2> QED  BY <1>3, <1>4, <2>1, <2>2
<1>11. CASE ListDrafts(a)
  <2> DEFINE P == {l \in Line : file[l] # Gone}
             R == [l \in Line |-> IF l \in P THEN file[l].rels ELSE {}]
             d == [c EXCEPT !.pc = "edges", !.queue = P, !.refs = R]
  <2>0. /\ head' = head /\ may' = may
        /\ End(a) \/ proc' = [proc EXCEPT ![a].pc = "edges", ![a].queue = P, ![a].refs = R]
    BY <1>11 DEF ListDrafts, AllStays
  <2> HIDE DEF P, R
  <2>1. End(a) \/ proc' = [proc EXCEPT ![a] = d]
    BY <1>1, <2>0
  <2>2. d.verb = c.verb /\ d.pc \in Calm
    BY <1>1 DEF Command, AnyPc
  <2> HIDE DEF d
  <2> QED  BY <1>3, <1>4, <2>0, <2>1, <2>2
<1>12. CASE NextDraft(a)
  <2> DEFINE d(l) == [c EXCEPT !.pc = "scan", !.line = l, !.queue = @ \ {l}]
  <2>1. /\ head' = head /\ may' = may
        /\ End(a) \/ \E l \in c.queue : proc' = [proc EXCEPT ![a] = d(l)]
    BY <1>1, <1>12 DEF NextDraft, AllStays
  <2>2. ASSUME NEW l \in c.queue, proc' = [proc EXCEPT ![a] = d(l)]  PROVE CalmStep(a)
    <3> DEFINE e == d(l)
    <3>1. e.verb = c.verb /\ e.pc \in Calm
      BY <1>1 DEF Command, AnyPc
    <3> HIDE DEF e
    <3> QED  BY <1>4, <2>1, <2>2, <3>1 DEF e
  <2> QED  BY <1>3, <2>1, <2>2
<1>13. CASE Reread(a)
  <2> DEFINE u == [file[c.line] EXCEPT !.rels = c.read.rels]
             d == [c EXCEPT !.pc = "rewrite", !.read = u]
  <2>1. head' = head /\ may' = may /\ (End(a) \/ proc' = [proc EXCEPT ![a] = d])
    BY <1>1, <1>13 DEF Reread, AllStays
  <2> HIDE DEF u
  <2>2. d.verb = c.verb /\ d.pc \in Calm
    BY <1>1 DEF Command, AnyPc
  <2> HIDE DEF d
  <2> QED  BY <1>3, <1>4, <2>1, <2>2
<1>14. CASE StatDraft(a)
  <2> DEFINE there == file[c.line] # Gone
             pc == IF there THEN "redraft" ELSE "published"
             d == [c EXCEPT !.pc = pc, !.drafted = there, !.stage = "draft"]
  <2>1. proc' = [proc EXCEPT ![a] = d] /\ head' = head /\ may' = may
    BY <1>1, <1>14 DEF StatDraft, AllStays
  <2>2. d.verb = c.verb /\ d.pc \in Calm
    BY <1>1 DEF Command, AnyPc
  <2> HIDE DEF d
  <2> QED  BY <1>4, <2>1, <2>2
<1>15. CASE Redraft(a)
  <2> DEFINE u == [file[c.line] EXCEPT !.open = FALSE]
             d == [c EXCEPT !.pc = "rewrite", !.read = u]
  <2>1. /\ head' = head /\ may' = may
        /\ \/ End(a) \/ proc' = [proc EXCEPT ![a] = d]
           \/ Goto(a, "scan") \/ Goto(a, "published")
    BY <1>1, <1>15 DEF Redraft, AllStays
  <2> HIDE DEF u
  <2>2. d.verb = c.verb /\ d.pc \in Calm
    BY <1>1 DEF Command, AnyPc
  <2> HIDE DEF d
  <2> QED  BY <1>2, <1>3, <1>4, <2>1, <2>2 DEF AnyPc
<1>16. CASE ReadBase(a)
  <2> DEFINE t == <<[line |-> c.line, rels |-> head[c.line][FirstInstance(c.line)].rels]>>
             d == [c EXCEPT !.pc = "create", !.stage = "scaffold", !.todo = t]
  <2>1. /\ head' = head /\ may' = may
        /\ proc' = [proc EXCEPT ![a] = d] \/ Goto(a, "resolved")
    BY <1>1, <1>16 DEF ReadBase, AllStays
  <2> HIDE DEF t
  <2>2. d.verb = c.verb /\ d.pc \in Calm
    BY <1>1 DEF Command, AnyPc
  <2> HIDE DEF d
  <2> QED  BY <1>2, <1>4, <2>1, <2>2 DEF AnyPc
<1> QED  BY <1>5, <1>6, <1>7, <1>8, <1>9, <1>10, <1>11, <1>12, <1>13, <1>14, <1>15, <1>16

\* The steps that prepare a write leave its form free, or leading to what they
\* read.
LEMMA StepPrepares ==
  ASSUME AuthoringInv, NEW a \in Author, KnowsForm(head, proc[a]),
         AssignVersion(a) \/ Validate(a) \/ ReadCurrent(a) \/ RelateGate(a)
  PROVE  OwnStep(a) /\ head' = head /\ KnowsForm(head, proc'[a])
<1> DEFINE c == proc[a]
<1>1. /\ c \in Command /\ HoldsOK(tickets, c) /\ proc \in [Author -> Command]
      /\ DataOK(file, tickets, head, past) /\ head' = head /\ may' = may
  BY Fields DEF AuthoringInv, AssignVersion, Validate, ReadCurrent, RelateGate, AllStays
<1>2. CASE End(a)
  <2>1. proc'[a].pc = "idle"
    BY <1>1, <1>2 DEF End, Idle
  <2> QED  BY <1>1, <1>2, <2>1, EndQuiet DEF KnowsForm
<1>3. CASE AssignVersion(a) /\ ~End(a)
  <2> DEFINE m == MaxInstanceVersion(c.line)
  <2>1. c.pc = "version" /\ \E v \in (m + 1)..MaxVersion :
          proc' = [proc EXCEPT ![a] = [c EXCEPT !.pc = "validate", !.version = v]]
    BY <1>1, <1>3 DEF AssignVersion, At
  <2>2. PICK v \in (m + 1)..MaxVersion :
          proc' = [proc EXCEPT ![a] = [c EXCEPT !.pc = "validate", !.version = v]]
    BY <2>1
  <2>3. c.line \in Line
    BY <1>1, <2>1 DEF HoldsOK, Lineless
  <2>4. head[c.line][v] = NoUnit
    <3>1. m \in 0..MaxVersion /\ \A w \in Version : w > m => head[c.line][w] = NoUnit
      BY <2>3, HighestInstance
    <3>2. MaxVersion \in Nat
      BY AuthoringAssumption
    <3> HIDE DEF m
    <3>3. v \in Version /\ v > m
      BY <3>1, <3>2 DEF Version
    <3> QED  BY <3>1, <3>3
  <2> DEFINE d == [c EXCEPT !.pc = "validate", !.version = v]
  <2>5. d.pc = "validate" /\ d.version = v /\ d.line = c.line /\ d.verb = c.verb
    BY <1>1 DEF Command
  <2> HIDE DEF d
  <2> QED  BY <1>1, <2>2, <2>4, <2>5, MoveQuiet DEF KnowsForm, d
<1>4. CASE ReadCurrent(a) /\ ~End(a)
  <2> DEFINE v == MaxInstanceVersion(c.line)
             old == IF v > 0 THEN head[c.line][v] ELSE file[c.line]
             next == [old EXCEPT !.rels = @ \cup Added(c)]
             d == [c EXCEPT !.pc = IF v > 0 THEN "gate" ELSE "reread", !.read = next, !.version = v]
  <2>1. c.pc = "current" /\ proc' = [proc EXCEPT ![a] = d]
    BY <1>1, <1>4 DEF ReadCurrent, At
  <2>2. c.line \in Line
    BY <1>1, <2>1 DEF HoldsOK, Lineless
  <2>3. v > 0 => v \in Version /\ head[c.line][v] # NoUnit
    BY <2>2, HighestInstance
  <2>4. v > 0 => head[c.line][v] \in Content
    BY <1>1, <2>2, <2>3, HeadCreated
  <2>5. v > 0 => Extends(head[c.line][v], next)
    <3> SUFFICES ASSUME v > 0  PROVE Extends(head[c.line][v], next)
      OBVIOUS
    <3> DEFINE h == head[c.line][v]
    <3>1. h \in Content /\ h # NoUnit /\ old = h
      BY <2>3, <2>4
    <3> HIDE DEF old, h
    <3> QED  BY <3>1 DEF Extends, Content, h
  <2> HIDE DEF next, old, v
  <2>6. /\ d.pc = IF v > 0 THEN "gate" ELSE "reread"
        /\ d.read = next /\ d.version = v /\ d.line = c.line /\ d.verb = c.verb
    BY <1>1 DEF Command
  <2> HIDE DEF d
  <2> QED  BY <1>1, <2>1, <2>5, <2>6, MoveQuiet DEF KnowsForm
<1>5. ASSUME NEW pc \in {"put", "repoint"}, Goto(a, pc),
             (pc = "put" /\ c.pc = "validate") \/ (pc = "repoint" /\ c.pc = "gate")
      PROVE  OwnStep(a) /\ KnowsForm(head, proc'[a])
  <2> DEFINE d == [c EXCEPT !.pc = pc]
  <2>1. d.pc = pc /\ d.read = c.read /\ d.version = c.version /\ d.line = c.line
    BY <1>1 DEF Command
  <2>2. OwnStep(a) /\ proc'[a] = d
    BY <1>1, <1>5, GotoQuiet
  <2>3. KnowsForm(head, d)
    <3> HIDE DEF d
    <3> QED  BY <1>5, <2>1 DEF KnowsForm
  <2> QED  BY <2>2, <2>3
<1>6. CASE Validate(a) /\ ~End(a)
  <2>1. Goto(a, "put") /\ c.pc = "validate"
    BY <1>6 DEF Validate, At
  <2> QED  BY <1>1, <1>5, <2>1
<1>7. CASE RelateGate(a) /\ ~End(a)
  <2>1. Goto(a, "repoint") /\ c.pc = "gate"
    BY <1>7 DEF RelateGate, At
  <2> QED  BY <1>1, <1>5, <2>1
<1> QED  BY <1>2, <1>3, <1>4, <1>6, <1>7

\* The two steps that write a reference end the write.
LEMMA StepWrites ==
  ASSUME AuthoringInv, NEW a \in Author, KnowsForm(head, proc[a]), PutUnit(a) \/ Repoint(a)
  PROVE  /\ OwnStep(a) /\ Quiet(a) /\ proc'[a].pc \in {"idle", "remove"}
         /\ proc[a].verb \in Storing
         /\ \A l \in Line, v \in Version :
              head[l][v] # NoUnit => Extends(head[l][v], head'[l][v])
<1> DEFINE c == proc[a]
<1>1. /\ c \in Command /\ HoldsOK(tickets, c) /\ proc \in [Author -> Command]
      /\ DataOK(file, tickets, head, past) /\ may' = may
      /\ c.pc \in {"put", "repoint"}
  BY Fields DEF AuthoringInv, PutUnit, Repoint, At
<1>2. c.line \in Line /\ c.verb \in Storing /\ c.version \in Version
  BY <1>1 DEF HoldsOK, Lineless
<1>3. End(a) \/ Goto(a, "remove")
  BY DEF PutUnit, Repoint
<1>4. OwnStep(a) /\ Quiet(a) /\ proc'[a].pc \in {"idle", "remove"}
  <2>1. CASE End(a)
    <3>1. proc'[a].pc = "idle"
      BY <1>1, <2>1 DEF End, Idle
    <3> QED  BY <1>1, <2>1, <3>1, EndQuiet
  <2>2. CASE Goto(a, "remove")
    <3>1. [c EXCEPT !.pc = "remove"].pc = "remove"
      BY <1>1 DEF Command
    <3> QED  BY <1>1, <2>2, <3>1, GotoQuiet
  <2> QED  BY <1>3, <2>1, <2>2
<1>5. \/ head' = head
      \/ head' = [head EXCEPT ![c.line][c.version] = c.read]
  BY DEF PutUnit, WriteUnit, Repoint
<1>6. \/ head[c.line][c.version] = NoUnit
      \/ Extends(head[c.line][c.version], c.read)
  BY <1>1 DEF KnowsForm
<1>7. ASSUME NEW l \in Line, NEW v \in Version, head[l][v] # NoUnit
      PROVE  Extends(head[l][v], head'[l][v])
  <2>1. head \in [Line -> [Version -> Content \cup {NoUnit}]]
    BY <1>1 DEF DataOK
  <2>2. \/ head'[l][v] = head[l][v]
        \/ l = c.line /\ v = c.version /\ head'[l][v] = c.read
    BY <1>2, <1>5, <2>1
  <2>3. Extends(head[l][v], head[l][v])
    BY <1>7 DEF Extends
  <2> QED  BY <1>6, <1>7, <2>2, <2>3
<1> QED  BY <1>2, <1>4, <1>7

LEMMA KnownNext ==
  ASSUME OneStoreAuthor, AuthoringInv, KnownInv, [Next]_vars
  PROVE  /\ KnownInv'
         /\ \A l \in Line, v \in Version :
              head[l][v] # NoUnit => Extends(head[l][v], head'[l][v])
<1> DEFINE Kept == \A l \in Line, v \in Version :
                     head[l][v] # NoUnit => Extends(head[l][v], head'[l][v])
<1>0. head' = head => Kept
  BY DEF Extends
<1>1. CASE UNCHANGED vars
  BY <1>0, <1>1 DEF vars, KnownInv, KnowsForm
<1>2. ASSUME NEW a \in Author, Begin(a) \/ Step(a) \/ Crash(a) \/ CrashTorn(a)
      PROVE  KnownInv' /\ Kept
  <2>0. KnowsForm(head, proc[a])
    BY DEF KnownInv
  <2>1. \/ Begin(a)
        \/ \/ Create(a) \/ CreateFails(a) \/ Rollback(a) \/ RolledBack(a)
           \/ Scan(a) \/ RemoveDraft(a) \/ ListDrafts(a) \/ CheckEdges(a) \/ NextDraft(a)
           \/ Reread(a) \/ Rewrite(a) \/ StatDraft(a) \/ Redraft(a)
           \/ CheckInstances(a) \/ ReadBase(a) \/ Report(a) \/ Crash(a) \/ CrashTorn(a)
        \/ AssignVersion(a) \/ Validate(a) \/ ReadCurrent(a) \/ RelateGate(a)
        \/ PutUnit(a) \/ Repoint(a)
    BY <1>2 DEF Step
  <2>2. /\ OwnStep(a)
        /\ \/ head' = head /\ (Quiet(a) \/ KnowsForm(head, proc'[a]))
           \/ /\ proc[a].verb \in Storing
              /\ proc'[a].pc \in {"idle", "remove"}
        /\ Kept
    BY <1>0, <2>0, <2>1, BeginQuiet, StepQuiet, StepPrepares, StepWrites DEF CalmStep
  <2>3. ASSUME NEW b \in Author, proc'[b].verb \in Storing  PROVE Stores(may'[b])
    BY <2>2, <2>3 DEF OwnStep, KnownInv
  <2>4. KnowsForm(head', proc'[a])
    <3>1. CASE head' = head /\ (Quiet(a) \/ KnowsForm(head, proc'[a]))
      BY <2>0, <3>1 DEF Quiet, KnowsForm
    <3>2. CASE proc'[a].pc \in {"idle", "remove"}
      BY <3>2 DEF KnowsForm
    <3> QED  BY <2>2, <3>1, <3>2
  <2>5. ASSUME NEW b \in Author, b # a  PROVE KnowsForm(head', proc'[b])
    <3>1. proc'[b] = proc[b] /\ KnowsForm(head, proc[b])
      BY <2>2, <2>5 DEF OwnStep, KnownInv
    <3>2. CASE head' = head
      BY <3>1, <3>2
    <3>3. CASE proc[a].verb \in Storing
      <4>1. may \in Sessions /\ HoldsOK(tickets, proc[b])
        BY Fields DEF AuthoringInv
      <4>2. proc[b].verb \notin Storing
        BY <2>5, <3>3, <4>1 DEF KnownInv, OneStoreAuthor
      <4>3. proc[b].pc \in {"idle", "create", "rollback", "refused"}
        BY <4>1, <4>2 DEF HoldsOK
      <4> QED  BY <3>1, <4>3 DEF KnowsForm
    <3> QED  BY <2>2, <3>2, <3>3
  <2> QED  BY <2>2, <2>3, <2>4, <2>5 DEF KnownInv
<1> QED  BY <1>1, <1>2 DEF Next

\* When one author alone publishes, relates and resolves, and any number of
\* others create, annotate, edit and discard drafts, a published form keeps its
\* content and its edges, whatever crashes (draft.go: the version is read before
\* validation and the put; relate.go: the instance is read before the repoint).
THEOREM PublishedContentStays == OneStoreAuthor /\ Spec => PublishedStays
<1> SUFFICES ASSUME OneStoreAuthor  PROVE Spec => PublishedStays
  OBVIOUS
<1> DEFINE Kept == \A l \in Line, v \in Version :
                     LET old == head[l][v]
                         new == head'[l][v]
                     IN  old # NoUnit =>
                           /\ new.ticket = old.ticket /\ new.edit = old.edit
                           /\ old.rels \subseteq new.rels
<1>1. Init => KnownInv
  <2>1. Idle.verb = "none" /\ Idle.pc = "idle"
    BY DEF Idle
  <2> HIDE DEF Idle
  <2> QED  BY <2>1 DEF Init, KnownInv, KnowsForm, Storing
<1>2. AuthoringInv /\ KnownInv /\ [Next]_vars => KnownInv'
  BY KnownNext
<1>3. AuthoringInv /\ KnownInv /\ [Next]_vars => Kept
  BY KnownNext DEF Extends
<1> HIDE DEF Kept
<1>4. Spec => [][Kept]_vars
  BY <1>1, <1>2, <1>3, AuthoringInvHolds, PTL DEF Spec
<1> QED  BY <1>4 DEF PublishedStays, Kept

----------------------------------------------------------------------------
(* The rollback of a batch *)

\* The verbs that write a draft again they have read before.
Rewrites(verbs) == verbs \cap {"relate", "resolve"} # {}

\* Where one author scaffolds batches, no other one rewrites drafts.
NobodyRewrites ==
  \A s \in Sessions : \A a, b \in Author : a # b /\ "new" \in s[a] => ~Rewrites(s[b])

\* Steps of the resolution of a note.
Resolving == {"stat", "redraft", "published", "base", "resolved"}

\* What a command may do, of the verbs its author has.
VerbOK(verbs, hd, c) ==
  /\ c.verb \in {"new", "resolve"} => c.verb \in verbs
  /\ c.pc \in {"rollback", "refused"} => c.verb = "new"
  /\ c.pc \in Resolving => c.verb = "resolve"
  /\ c.pc \in {"current", "reread"} => c.verb = "relate"
  /\ c.pc = "rewrite" => c.verb \in {"relate", "resolve"}
  /\ c.pc = "current" => "relate" \in verbs \/ HasInstance(hd, c.line)
  /\ c.pc \in {"reread", "rewrite"} => Rewrites(verbs)

\* The drafts a batch has created have their tickets; those it has taken back
\* are not there any more, though others may have drafted their lines again.
UndoneOK(fl, tk, c) ==
  /\ \A m \in c.made : m[2] \in 1..tk[m[1]]
  /\ c.pc \in {"rollback", "refused"} =>
       \A m \in c.made \ c.left : fl[m[1]] \in Content => fl[m[1]].ticket # m[2]
  /\ c.pc = "refused" => c.left = {}

VerbInv == \A a \in Author : VerbOK(may[a], head, proc[a])

UndoneInv == \A a \in Author : UndoneOK(file, tickets, proc[a])

Plain == AnyPc \ (Resolving \cup {"current", "reread", "rewrite", "rollback", "refused"})

\* A step from c to d of the command of an author.
Follows(c, d) ==
  /\ d.verb = c.verb
  /\ d.made \in Made /\ \A m \in d.made \ c.made : m[2] \in 1..tickets'[m[1]]
  /\ d.pc # "current"
  /\ d.pc \in Resolving =>
       \/ c.verb = "resolve" \/ c.pc \in Resolving
       \/ c.pc = "rewrite" /\ c.verb # "relate"
  /\ d.pc = "reread" => c.pc = "current" /\ ~HasInstance(head, c.line)
  /\ d.pc = "rewrite" => c.pc \in {"reread", "redraft"}
  /\ d.pc \in {"rollback", "refused"} =>
       \/ c.pc = "create" /\ c.verb = "new" /\ d.left = d.made
       \/ /\ c.pc = "rollback" /\ d.made = c.made
          /\ \A m \in c.left \ d.left : file'[m[1]] = Gone
  /\ d.pc = "refused" => d.left = {}

LEMMA PlainFollows ==
  ASSUME NEW c \in Command, NEW d, d.verb = c.verb, d.made = c.made, d.pc \in Plain
  PROVE  Follows(c, d)
BY DEF Plain, Resolving, Follows, Command

\* A resolution goes on.
LEMMA ResolvingFollows ==
  ASSUME AuthoringInv, NEW a \in Author, NEW pc \in Resolving, Goto(a, pc),
         \/ proc[a].verb = "resolve" \/ proc[a].pc \in Resolving
         \/ proc[a].pc = "rewrite" /\ proc[a].verb # "relate"
  PROVE  /\ \A b \in Author \ {a} : proc'[b] = proc[b]
         /\ Follows(proc[a], proc'[a])
<1> DEFINE d == [proc[a] EXCEPT !.pc = pc]
<1>1. proc[a] \in Command /\ proc \in [Author -> Command]
  BY Fields
<1>2. proc' = [proc EXCEPT ![a] = d]
  BY DEF Goto
<1>3. d.verb = proc[a].verb /\ d.made = proc[a].made /\ d.pc = pc /\ proc[a].made \in Made
  BY <1>1 DEF Command
<1> HIDE DEF d
<1>4. d.pc \in Resolving /\ d.pc \notin {"current", "reread", "rewrite", "rollback", "refused"}
  BY <1>3 DEF Resolving
<1>5. Follows(proc[a], d)
  BY <1>3, <1>4 DEF Follows
<1> QED  BY <1>1, <1>2, <1>5

\* A command ends, or sets its program counter and nothing else.
LEMMA GotoFollows ==
  ASSUME AuthoringInv, NEW a \in Author, NEW pc \in Plain, Goto(a, pc)
  PROVE  /\ \A b \in Author \ {a} : proc'[b] = proc[b]
         /\ Follows(proc[a], proc'[a])
<1> DEFINE d == [proc[a] EXCEPT !.pc = pc]
<1>1. proc[a] \in Command /\ proc \in [Author -> Command]
  BY Fields
<1>2. proc' = [proc EXCEPT ![a] = d]
  BY DEF Goto
<1>3. d.verb = proc[a].verb /\ d.made = proc[a].made /\ d.pc = pc
  BY <1>1 DEF Command
<1> HIDE DEF d
<1> QED  BY <1>1, <1>2, <1>3, PlainFollows

LEMMA EndFollows ==
  ASSUME AuthoringInv, NEW a \in Author, End(a)
  PROVE  /\ \A b \in Author \ {a} : proc'[b] = proc[b]
         /\ proc'[a] = Idle
<1>1. proc \in [Author -> Command]
  BY Fields
<1> HIDE DEF Idle
<1> QED  BY <1>1 DEF End

LEMMA SetFollows ==
  ASSUME AuthoringInv, NEW a \in Author, NEW d, proc' = [proc EXCEPT ![a] = d],
         d.verb = proc[a].verb, d.made = proc[a].made, d.pc \in Plain
  PROVE  /\ \A b \in Author \ {a} : proc'[b] = proc[b]
         /\ Follows(proc[a], proc'[a])
<1>1. proc[a] \in Command /\ proc \in [Author -> Command]
  BY Fields
<1> QED  BY <1>1, PlainFollows

\* What every step of a command does to the commands.
LEMMA StepFollows ==
  ASSUME AuthoringInv, NEW a \in Author, Step(a) \/ Crash(a) \/ CrashTorn(a)
  PROVE  /\ \A b \in Author \ {a} : proc'[b] = proc[b]
         /\ proc'[a] = Idle \/ Follows(proc[a], proc'[a])
<1> DEFINE c == proc[a]
           Result == /\ \A b \in Author \ {a} : proc'[b] = proc[b]
                     /\ proc'[a] = Idle \/ Follows(c, proc'[a])
<1>1. c \in Command /\ HoldsOK(tickets, c) /\ proc \in [Author -> Command]
  BY Fields
<1>2. ASSUME NEW pc \in Plain, Goto(a, pc)  PROVE Result
  BY <1>2, GotoFollows
<1>3. ASSUME End(a)  PROVE Result
  BY <1>3, EndFollows
<1>4. ASSUME NEW d, proc' = [proc EXCEPT ![a] = d], d.verb = c.verb, d.made = c.made, d.pc \in Plain
      PROVE  Result
  BY <1>4, SetFollows
<1>5. ASSUME NEW d, proc' = [proc EXCEPT ![a] = d], Follows(c, d)  PROVE Result
  BY <1>1, <1>5
<1>21. ASSUME NEW pc \in Resolving, Goto(a, pc),
              \/ c.verb = "resolve" \/ c.pc \in Resolving
              \/ c.pc = "rewrite" /\ c.verb # "relate"
       PROVE  Result
  BY <1>21, ResolvingFollows
<1> SUFFICES Result
  OBVIOUS
<1> HIDE DEF Result
<1>6. CASE Create(a)
  <2> DEFINE r == Head(c.todo)
             pc == AfterCreate(c)
             m == {<<r.line, tickets[r.line] + 1>>}
             d == [c EXCEPT !.pc = pc, !.todo = Tail(@), !.made = @ \cup m]
  <2>1. /\ c.pc = "create" /\ tickets' = [tickets EXCEPT ![r.line] = @ + 1]
        /\ \/ End(a)
           \/ proc' = [proc EXCEPT ![a].pc = pc, ![a].todo = Tail(@), ![a].made = @ \cup m]
    BY <1>6 DEF Create, At
  <2>2. /\ pc \in {"create", "idle", "stat", "redraft"}
        /\ pc \in {"stat", "redraft"} => c.verb = "resolve"
    BY DEF AfterCreate
  <2>3. r \in Request /\ r.line \in Line
    <3>1. c.todo \in Seq(Request) /\ c.todo # <<>>
      BY <1>1, <2>1 DEF Command, HoldsOK
    <3>2. r \in Request
      BY <3>1
    <3> QED  BY <3>2 DEF Request
  <2>4. /\ tickets[r.line] \in Nat /\ tickets'[r.line] = tickets[r.line] + 1
        /\ m \in Made
    <3>1. tickets \in [Line -> Nat]
      BY DEF AuthoringInv, DataOK
    <3>2. tickets[r.line] \in Nat /\ tickets'[r.line] = tickets[r.line] + 1
      BY <2>1, <2>3, <3>1
    <3> QED  BY <2>3, <3>2 DEF Made
  <2>5. \A x \in m : x[2] \in 1..tickets'[x[1]]
    BY <2>3, <2>4
  <2> HIDE DEF pc, r, m
  <2>6. End(a) \/ proc' = [proc EXCEPT ![a] = d]
    BY <1>1, <2>1
  <2>7. d.verb = c.verb /\ d.pc = pc /\ d.made = c.made \cup m /\ c.made \in Made
    BY <1>1 DEF Command
  <2> HIDE DEF d
  <2>8. d.made \in Made /\ \A x \in d.made \ c.made : x[2] \in 1..tickets'[x[1]]
    BY <2>4, <2>5, <2>7 DEF Made
  <2>9. Follows(c, d)
    BY <2>2, <2>7, <2>8 DEF Follows, Resolving
  <2> QED  BY <1>3, <1>5, <2>6, <2>9
<1>7. CASE CreateFails(a)
  <2> DEFINE d == [c EXCEPT !.pc = "rollback", !.left = c.made]
  <2>1. c.pc = "create" /\ (End(a) \/ (c.verb = "new" /\ proc' = [proc EXCEPT ![a] = d]))
    BY <1>1, <1>7 DEF CreateFails, At
  <2>2. d.verb = c.verb /\ d.pc = "rollback" /\ d.made = c.made /\ d.left = c.made /\ c.made \in Made
    BY <1>1 DEF Command
  <2> HIDE DEF d
  <2>3. c.verb = "new" => Follows(c, d)
    BY <2>1, <2>2 DEF Follows, Resolving
  <2> QED  BY <1>3, <1>5, <2>1, <2>3
<1>8. CASE Rollback(a)
  <2>1. PICK m \in c.left : /\ file' = [file EXCEPT ![m[1]] = Gone]
                            /\ proc' = [proc EXCEPT ![a].left = @ \ {m}]
    BY <1>8 DEF Rollback
  <2> DEFINE d == [c EXCEPT !.left = @ \ {m}]
  <2>2. proc' = [proc EXCEPT ![a] = d] /\ c.pc = "rollback"
    BY <1>1, <1>8, <2>1 DEF Rollback, At
  <2>3. /\ d.verb = c.verb /\ d.pc = "rollback" /\ d.made = c.made /\ d.left = c.left \ {m}
        /\ c.made \in Made /\ c.left \in Made
    BY <1>1, <2>2 DEF Command
  <2>4. file'[m[1]] = Gone
    <3>1. m[1] \in Line /\ file \in [Line -> Body]
      BY <2>3 DEF Made, AuthoringInv, DataOK
    <3> QED  BY <2>1, <3>1
  <2> HIDE DEF d
  <2>5. Follows(c, d)
    BY <2>2, <2>3, <2>4 DEF Follows, Resolving
  <2> QED  BY <1>5, <2>2, <2>5
<1>9. CASE RolledBack(a)
  <2> DEFINE d == [c EXCEPT !.pc = "refused"]
  <2>1. c.pc = "rollback" /\ c.left = {} /\ proc' = [proc EXCEPT ![a] = d]
    BY <1>1, <1>9 DEF RolledBack, At, Goto
  <2>2. /\ d.verb = c.verb /\ d.pc = "refused" /\ d.made = c.made /\ d.left = c.left
        /\ c.made \in Made
    BY <1>1 DEF Command
  <2> HIDE DEF d
  <2>3. Follows(c, d)
    BY <2>1, <2>2 DEF Follows, Resolving
  <2> QED  BY <1>5, <2>1, <2>3
<1>10. CASE CheckEdges(a) \/ Report(a) \/ Crash(a) \/ CrashTorn(a) \/ Validate(a)
            \/ RelateGate(a) \/ PutUnit(a) \/ Repoint(a)
  <2>1. \/ End(a) \/ \E pc \in {"next", "put", "repoint", "remove"} : Goto(a, pc)
    BY <1>10 DEF CheckEdges, Report, Crash, CrashTorn, Validate, RelateGate, PutUnit, Repoint
  <2>2. {"next", "put", "repoint", "remove"} \subseteq Plain
    BY DEF Plain, Resolving, AnyPc
  <2> QED  BY <1>2, <1>3, <2>1, <2>2
<1>20. CASE RemoveDraft(a) \/ Rewrite(a) \/ CheckInstances(a)
  <2>1. \/ End(a) \/ Goto(a, "next") \/ Goto(a, "scan")
        \/ c.verb = "resolve" /\ Goto(a, "resolved")
        \/ c.pc = "rewrite" /\ c.verb # "relate" /\ Goto(a, "published")
        \/ c.pc = "published" /\ (Goto(a, "resolved") \/ Goto(a, "base"))
    BY <1>20 DEF RemoveDraft, Rewrite, CheckInstances, At
  <2>2. {"next", "scan"} \subseteq Plain /\ {"resolved", "published", "base"} \subseteq Resolving
    BY DEF Plain, Resolving, AnyPc
  <2>3. CASE \/ c.verb = "resolve" /\ Goto(a, "resolved")
             \/ c.pc = "rewrite" /\ c.verb # "relate" /\ Goto(a, "published")
             \/ c.pc = "published" /\ (Goto(a, "resolved") \/ Goto(a, "base"))
    BY <1>21, <2>2, <2>3
  <2> QED  BY <1>2, <1>3, <2>1, <2>2, <2>3
<1>11. CASE Scan(a)
  <2> DEFINE f == file[c.line]
             d == [c EXCEPT !.pc = "version", !.read = f]
  <2>1. End(a) \/ proc' = [proc EXCEPT ![a] = d]
    BY <1>1, <1>11 DEF Scan
  <2> HIDE DEF f
  <2>2. d.verb = c.verb /\ d.made = c.made /\ d.pc \in Plain
    BY <1>1 DEF Command, Plain, Resolving, AnyPc
  <2> HIDE DEF d
  <2> QED  BY <1>3, <1>4, <2>1, <2>2
<1>12. CASE AssignVersion(a)
  <2>1. \/ End(a)
        \/ \E v : proc' = [proc EXCEPT ![a].pc = "validate", ![a].version = v]
    BY <1>12 DEF AssignVersion
  <2>2. ASSUME NEW v, proc' = [proc EXCEPT ![a].pc = "validate", ![a].version = v]  PROVE Result
    <3> DEFINE d == [c EXCEPT !.pc = "validate", !.version = v]
    <3>1. proc' = [proc EXCEPT ![a] = d]
      BY <1>1, <2>2
    <3>2. d.verb = c.verb /\ d.made = c.made /\ d.pc \in Plain
      BY <1>1 DEF Command, Plain, Resolving, AnyPc
    <3> HIDE DEF d
    <3> QED  BY <1>4, <3>1, <3>2
  <2> QED  BY <1>3, <2>1, <2>2
<1>13. CASE ListDrafts(a)
  <2> DEFINE P == {l \in Line : file[l] # Gone}
             R == [l \in Line |-> IF l \in P THEN file[l].rels ELSE {}]
             d == [c EXCEPT !.pc = "edges", !.queue = P, !.refs = R]
  <2>0. End(a) \/ proc' = [proc EXCEPT ![a].pc = "edges", ![a].queue = P, ![a].refs = R]
    BY <1>13 DEF ListDrafts
  <2> HIDE DEF P, R
  <2>1. End(a) \/ proc' = [proc EXCEPT ![a] = d]
    BY <1>1, <2>0
  <2>2. d.verb = c.verb /\ d.made = c.made /\ d.pc \in Plain
    BY <1>1 DEF Command, Plain, Resolving, AnyPc
  <2> HIDE DEF d
  <2> QED  BY <1>3, <1>4, <2>1, <2>2
<1>14. CASE NextDraft(a)
  <2>1. \/ End(a)
        \/ \E l \in c.queue :
             proc' = [proc EXCEPT ![a].pc = "scan", ![a].line = l, ![a].queue = @ \ {l}]
    BY <1>14 DEF NextDraft
  <2>2. ASSUME NEW l \in c.queue,
               proc' = [proc EXCEPT ![a].pc = "scan", ![a].line = l, ![a].queue = @ \ {l}]
        PROVE  Result
    <3> DEFINE d == [c EXCEPT !.pc = "scan", !.line = l, !.queue = @ \ {l}]
    <3>1. proc' = [proc EXCEPT ![a] = d]
      BY <1>1, <2>2
    <3>2. d.verb = c.verb /\ d.made = c.made /\ d.pc \in Plain
      BY <1>1 DEF Command, Plain, Resolving, AnyPc
    <3> HIDE DEF d
    <3> QED  BY <1>4, <3>1, <3>2
  <2> QED  BY <1>3, <2>1, <2>2
<1>15. CASE ReadCurrent(a)
  <2> DEFINE v == MaxInstanceVersion(c.line)
             old == IF v > 0 THEN head[c.line][v] ELSE file[c.line]
             next == [old EXCEPT !.rels = @ \cup Added(c)]
             d == [c EXCEPT !.pc = IF v > 0 THEN "gate" ELSE "reread", !.read = next, !.version = v]
  <2>1. c.pc = "current" /\ (End(a) \/ proc' = [proc EXCEPT ![a] = d])
    BY <1>1, <1>15 DEF ReadCurrent, At
  <2>2. c.line \in Line
    BY <1>1, <2>1 DEF HoldsOK, Lineless
  <2>3. HasInstance(head, c.line) => v > 0
    <3> SUFFICES ASSUME NEW w \in Version, head[c.line][w] # NoUnit  PROVE v > 0
      BY DEF HasInstance
    <3>1. v \in 0..MaxVersion /\ \A x \in Version : x > v => head[c.line][x] = NoUnit
      BY <2>2, HighestInstance
    <3>2. w \in 1..MaxVersion /\ MaxVersion \in Nat
      BY AuthoringAssumption DEF Version
    <3> HIDE DEF v, old, next, d
    <3> QED  BY <3>1, <3>2
  <2> HIDE DEF next, old, v
  <2>4. /\ d.pc = IF v > 0 THEN "gate" ELSE "reread"
        /\ d.made = c.made /\ d.verb = c.verb /\ c.made \in Made
    BY <1>1 DEF Command
  <2> HIDE DEF d
  <2>5. Follows(c, d)
    BY <2>1, <2>3, <2>4 DEF Follows, Resolving
  <2> QED  BY <1>3, <1>5, <2>1, <2>5
<1>16. CASE Reread(a)
  <2> DEFINE u == [file[c.line] EXCEPT !.rels = c.read.rels]
             d == [c EXCEPT !.pc = "rewrite", !.read = u]
  <2>1. c.pc = "reread" /\ (End(a) \/ proc' = [proc EXCEPT ![a] = d])
    BY <1>1, <1>16 DEF Reread, At
  <2> HIDE DEF u
  <2>2. d.verb = c.verb /\ d.made = c.made /\ d.pc = "rewrite" /\ c.made \in Made
    BY <1>1 DEF Command
  <2> HIDE DEF d
  <2>3. Follows(c, d)
    BY <2>1, <2>2 DEF Follows, Resolving
  <2> QED  BY <1>3, <1>5, <2>1, <2>3
<1>17. CASE StatDraft(a)
  <2> DEFINE there == file[c.line] # Gone
             pc == IF there THEN "redraft" ELSE "published"
             d == [c EXCEPT !.pc = pc, !.drafted = there, !.stage = "draft"]
  <2>1. c.pc = "stat" /\ proc' = [proc EXCEPT ![a] = d]
    BY <1>1, <1>17 DEF StatDraft, At
  <2> HIDE DEF there
  <2>2. d.verb = c.verb /\ d.made = c.made /\ d.pc \in {"redraft", "published"} /\ c.made \in Made
    BY <1>1 DEF Command
  <2> HIDE DEF d
  <2>3. c.pc \in Resolving /\ d.pc \notin {"current", "reread", "rewrite", "rollback", "refused"}
    BY <2>1, <2>2 DEF Resolving
  <2>4. Follows(c, d)
    BY <2>2, <2>3 DEF Follows
  <2> QED  BY <1>5, <2>1, <2>4
<1>18. CASE Redraft(a)
  <2> DEFINE u == [file[c.line] EXCEPT !.open = FALSE]
             d == [c EXCEPT !.pc = "rewrite", !.read = u]
  <2>1. c.pc = "redraft" /\ (\/ End(a) \/ proc' = [proc EXCEPT ![a] = d]
                             \/ Goto(a, "scan") \/ Goto(a, "published"))
    BY <1>1, <1>18 DEF Redraft, At
  <2> HIDE DEF u
  <2>2. d.verb = c.verb /\ d.made = c.made /\ d.pc = "rewrite" /\ c.made \in Made
    BY <1>1 DEF Command
  <2> HIDE DEF d
  <2>3. Follows(c, d)
    BY <2>1, <2>2 DEF Follows, Resolving
  <2>4. "scan" \in Plain /\ "published" \in Resolving /\ "redraft" \in Resolving
    BY DEF Plain, Resolving, AnyPc
  <2> QED  BY <1>2, <1>3, <1>5, <1>21, <2>1, <2>3, <2>4
<1>19. CASE ReadBase(a)
  <2> DEFINE t == <<[line |-> c.line, rels |-> head[c.line][FirstInstance(c.line)].rels]>>
             d == [c EXCEPT !.pc = "create", !.stage = "scaffold", !.todo = t]
  <2>1. c.pc = "base" /\ (proc' = [proc EXCEPT ![a] = d] \/ Goto(a, "resolved"))
    BY <1>1, <1>19 DEF ReadBase, At
  <2> HIDE DEF t
  <2>2. d.verb = c.verb /\ d.made = c.made /\ d.pc \in Plain
    BY <1>1 DEF Command, Plain, Resolving, AnyPc
  <2>3. "resolved" \in Resolving /\ "base" \in Resolving
    BY DEF Resolving
  <2> HIDE DEF d
  <2> QED  BY <1>4, <1>21, <2>1, <2>2, <2>3
<1> QED
  BY <1>6, <1>7, <1>8, <1>9, <1>10, <1>11, <1>12, <1>13, <1>14, <1>15, <1>16, <1>17, <1>18, <1>19,
     <1>20
  DEF Step

\* A command begins with a verb of its author.
LEMMA BeginFollows ==
  ASSUME AuthoringInv, NEW a \in Author, Begin(a)
  PROVE  /\ \A b \in Author \ {a} : proc'[b] = proc[b]
         /\ \/ proc'[a] = proc[a] /\ proc[a].pc = "idle"
            \/ /\ VerbOK(may[a], head, proc'[a])
               /\ proc'[a].made = {} /\ proc'[a].pc \notin {"rollback", "refused"}
<1> DEFINE Result(d) == /\ VerbOK(may[a], head, d) /\ d.made = {}
                        /\ d.pc \notin {"rollback", "refused"}
<1>0. Idle \in Command /\ Idle.made = {} /\ Idle.verb = "none" /\ proc \in [Author -> Command]
  BY IdleCommand, Fields DEF Idle
<1> HIDE DEF Idle
<1>1. ASSUME NEW d, proc' = [proc EXCEPT ![a] = d], Result(d)
      PROVE  /\ \A b \in Author \ {a} : proc'[b] = proc[b]
             /\ Result(proc'[a])
  BY <1>0, <1>1
<1>2. ASSUME NEW d, d.made = {}, d.pc \in {"create", "version", "scan", "list"},
             d.verb \in {"new", "resolve"} => d.verb \in may[a]
      PROVE  Result(d)
  BY <1>2 DEF VerbOK, Resolving
<1>3. ASSUME NEW reqs \in Scaffolds, New(a, reqs)
      PROVE  \E d : proc' = [proc EXCEPT ![a] = d] /\ Result(d)
  <2> DEFINE d == [Idle EXCEPT !.verb = "new", !.pc = "create", !.todo = reqs]
  <2>1. proc' = [proc EXCEPT ![a] = d] /\ "new" \in may[a]
    BY <1>3 DEF New
  <2>2. d.verb = "new" /\ d.pc = "create" /\ d.made = {}
    BY <1>0 DEF Command
  <2> HIDE DEF d, Result
  <2>3. Result(d)
    BY <1>2, <2>1, <2>2
  <2> QED  BY <2>1, <2>3
<1>4. ASSUME NEW r, PublishInline(a, r)
      PROVE  \E d : proc' = [proc EXCEPT ![a] = d] /\ Result(d)
  <2> DEFINE t == Template(r)
             d == [Idle EXCEPT !.verb = "inline", !.pc = "version", !.line = r.line, !.read = t]
  <2>1. proc' = [proc EXCEPT ![a] = d]
    BY <1>4 DEF PublishInline
  <2> HIDE DEF t
  <2>2. d.verb = "inline" /\ d.pc = "version" /\ d.made = {}
    BY <1>0 DEF Command
  <2> HIDE DEF d, Result
  <2>3. Result(d)
    BY <1>2, <2>2
  <2> QED  BY <2>1, <2>3
<1>5. ASSUME NEW l, NEW verb, NEW stage, Derive(a, l, verb, stage),
             verb = "note" \/ (verb = "resolve" /\ "resolve" \in may[a])
      PROVE  \E d : proc' = [proc EXCEPT ![a] = d] /\ Result(d)
  <2> DEFINE i == CHOOSE j \in Free(l) : \A k \in Free(l) : j <= k
             t == <<[line |-> Derived[l][i], rels |-> {l}]>>
             d == [Idle EXCEPT !.verb = verb, !.pc = "create", !.line = l, !.stage = stage,
                     !.todo = t]
  <2>1. proc' = [proc EXCEPT ![a] = d]
    BY <1>5 DEF Derive
  <2> HIDE DEF t
  <2>2. d.verb = verb /\ d.pc = "create" /\ d.made = {}
    BY <1>0 DEF Command
  <2> HIDE DEF d, Result
  <2>3. Result(d)
    BY <1>2, <1>5, <2>2
  <2> QED  BY <2>1, <2>3
<1>6. ASSUME NEW r \in Related, Relate(a, r)
      PROVE  \E d : proc' = [proc EXCEPT ![a] = d] /\ Result(d)
  <2> DEFINE d == [Idle EXCEPT !.verb = "relate", !.pc = "current", !.line = r[1],
                     !.refs[r[1]] = {r[2]}]
  <2>1. /\ proc' = [proc EXCEPT ![a] = d]
        /\ "relate" \in may[a] \/ Published(r[1])
    BY <1>6 DEF Relate
  <2>2. d.verb = "relate" /\ d.pc = "current" /\ d.made = {} /\ d.line = r[1]
    BY <1>0 DEF Command
  <2>3. r[1] \in Line
    BY AuthoringAssumption
  <2> HIDE DEF d
  <2>4. Result(d)
    BY <2>1, <2>2, <2>3, PublishedHas DEF VerbOK, Resolving
  <2> HIDE DEF Result
  <2> QED  BY <2>1, <2>4
<1>7. ASSUME NEW verb, NEW pc, NEW l, Start(a, verb, pc, l),
             \/ verb \in {"publish", "batch"} /\ pc \in {"scan", "list"}
             \/ verb = "resolve" /\ pc = "stat"
      PROVE  \E d : proc' = [proc EXCEPT ![a] = d] /\ Result(d)
  <2> DEFINE d == [Idle EXCEPT !.verb = verb, !.pc = pc, !.line = l]
  <2>1. proc' = [proc EXCEPT ![a] = d] /\ verb \in may[a]
    BY <1>7 DEF Start
  <2>2. d.verb = verb /\ d.pc = pc /\ d.made = {}
    BY <1>0 DEF Command
  <2> HIDE DEF d
  <2>3. Result(d)
    BY <1>7, <2>1, <2>2 DEF VerbOK, Resolving
  <2> HIDE DEF Result
  <2> QED  BY <2>1, <2>3
<1>8. ASSUME NEW l, DiscardDraft(a, l) \/ EditDraft(a, l)
      PROVE  proc' = proc /\ proc[a].pc = "idle"
  BY <1>8 DEF DiscardDraft, EditDraft, At
<1>9. \/ proc' = proc /\ proc[a].pc = "idle"
      \/ \E d : proc' = [proc EXCEPT ![a] = d] /\ Result(d)
  BY <1>3, <1>4, <1>5, <1>6, <1>7, <1>8
  DEF Begin, NoteDraft, ResolveWithReply, Publish, ResolveNote, PublishBatch
<1> HIDE DEF Result
<1>10. CASE \E d : proc' = [proc EXCEPT ![a] = d] /\ Result(d)
  BY <1>1, <1>10 DEF Result
<1> QED  BY <1>9, <1>10

\* What a step leaves in a draft file: what was there, nothing, the same draft,
\* a draft with a ticket of its own, or what a command has read before.
FileStep(a) ==
  \A l \in Line :
    \/ file'[l] = file[l]
    \/ file'[l] \in {Gone, Torn}
    \/ file[l] \in Content /\ file'[l].ticket = file[l].ticket
    \/ file'[l].ticket = tickets[l] + 1
    \/ proc[a].pc = "rewrite"

LEMMA OneFile ==
  ASSUME AuthoringInv, NEW l \in Line, NEW b, file' = [file EXCEPT ![l] = b],
         NEW a, \/ b \in {Gone, Torn} \/ b.ticket = tickets[l] + 1 \/ proc[a].pc = "rewrite"
                \/ file[l] \in Content /\ b.ticket = file[l].ticket
  PROVE  FileStep(a)
BY DEF AuthoringInv, DataOK, FileStep

\* A ticket is taken, or none is.
LEMMA OneTicket ==
  ASSUME AuthoringInv, NEW l \in Line,
         tickets' = tickets \/ tickets' = [tickets EXCEPT ![l] = @ + 1]
  PROVE  \A k \in Line : tickets[k] \in Nat /\ tickets'[k] \in Nat /\ tickets[k] <= tickets'[k]
<1>1. tickets \in [Line -> Nat]
  BY DEF AuthoringInv, DataOK
<1> QED  BY <1>1

\* What every step leaves in files, tickets and store.
StepLeaves(a) ==
  /\ FileStep(a) /\ may' = may
  /\ \A k \in Line : tickets[k] \in Nat /\ tickets'[k] \in Nat /\ tickets[k] <= tickets'[k]
  /\ \A k \in Line : HasInstance(head, k) => HasInstance(head', k)

LEMMA LooksLeave ==
  ASSUME AuthoringInv, NEW a, AllStays
  PROVE  StepLeaves(a)
BY DEF AuthoringInv, DataOK, AllStays, StepLeaves, FileStep

LEMMA FilesLeave ==
  ASSUME AuthoringInv, NEW a, StoreStays, FileStep(a), NEW l \in Line,
         tickets' = tickets \/ tickets' = [tickets EXCEPT ![l] = @ + 1]
  PROVE  StepLeaves(a)
BY OneTicket DEF StoreStays, StepLeaves

LEMMA WritesLeave ==
  ASSUME AuthoringInv, NEW a \in Author, PutUnit(a) \/ Repoint(a)
  PROVE  StepLeaves(a)
<1> DEFINE c == proc[a]
<1>1. /\ HoldsOK(tickets, c) /\ DataOK(file, tickets, head, past)
      /\ c.pc \in {"put", "repoint"} /\ UNCHANGED <<file, tickets, may>>
  BY Fields DEF AuthoringInv, PutUnit, Repoint, At
<1>2. c.line \in Line /\ c.version \in Version /\ c.read \in Content
  BY <1>1 DEF HoldsOK, Lineless, Created
<1>3. head' = head \/ head' = [head EXCEPT ![c.line][c.version] = c.read]
  BY DEF PutUnit, WriteUnit, Repoint
<1>4. head \in [Line -> [Version -> Content \cup {NoUnit}]] /\ c.read # NoUnit
  BY <1>1, <1>2, AuthoringAssumption DEF DataOK
<1>5. ASSUME NEW k \in Line, HasInstance(head, k)  PROVE HasInstance(head', k)
  <2>1. PICK v \in Version : head[k][v] # NoUnit
    BY <1>5 DEF HasInstance
  <2>2. head'[k][v] # NoUnit
    BY <1>2, <1>3, <1>4, <2>1
  <2> QED  BY <2>2 DEF HasInstance
<1> QED  BY <1>1, <1>5 DEF StepLeaves, FileStep, DataOK

LEMMA EveryStepLeaves ==
  ASSUME AuthoringInv, NEW a \in Author, Begin(a) \/ Step(a) \/ Crash(a) \/ CrashTorn(a)
  PROVE  StepLeaves(a)
<1> DEFINE c == proc[a]
<1>1. /\ c \in Command /\ HoldsOK(tickets, c) /\ DataOK(file, tickets, head, past)
      /\ file \in [Line -> Body]
  BY Fields DEF AuthoringInv, DataOK
<1>2. ASSUME NEW l \in Line, NEW b, file' = [file EXCEPT ![l] = b], StoreStays,
             \/ b \in {Gone, Torn} \/ b.ticket = tickets[l] + 1 \/ c.pc = "rewrite"
             \/ file[l] \in Content /\ b.ticket = file[l].ticket,
             tickets' = tickets \/ tickets' = [tickets EXCEPT ![l] = @ + 1]
      PROVE  StepLeaves(a)
  BY <1>2, OneFile, FilesLeave
<1>3. CASE AllStays
  BY <1>3, LooksLeave
<1>4. CASE Create(a)
  <2> DEFINE r == Head(c.todo)
  <2>1. /\ c.pc = "create" /\ tickets' = [tickets EXCEPT ![r.line] = @ + 1] /\ StoreStays
        /\ file' = [file EXCEPT ![r.line] = Template(r)]
    BY <1>4 DEF Create, At
  <2>2. r.line \in Line
    <3>1. c.todo \in Seq(Request) /\ c.todo # <<>>
      BY <1>1, <2>1 DEF Command, HoldsOK
    <3>2. r \in Request
      BY <3>1
    <3> QED  BY <3>2 DEF Request
  <2>3. Template(r).ticket = tickets[r.line] + 1
    BY DEF Template
  <2> HIDE DEF r
  <2> QED  BY <1>2, <2>1, <2>2, <2>3
<1>5. CASE Rollback(a)
  <2>1. PICK m \in c.left : file' = [file EXCEPT ![m[1]] = Gone]
    BY <1>5 DEF Rollback
  <2>2. m[1] \in Line /\ tickets' = tickets /\ StoreStays
    BY <1>1, <1>5 DEF Command, Made, Rollback
  <2> QED  BY <1>2, <2>1, <2>2
<1>6. CASE RemoveDraft(a)
  <2>1. c.line \in Line /\ tickets' = tickets /\ StoreStays /\ file' = [file EXCEPT ![c.line] = Gone]
    BY <1>1, <1>6 DEF RemoveDraft, At, HoldsOK, Lineless
  <2> QED  BY <1>2, <2>1
<1>7. CASE Rewrite(a)
  <2>1. /\ c.line \in Line /\ tickets' = tickets /\ StoreStays /\ c.pc = "rewrite"
        /\ file' = [file EXCEPT ![c.line] = c.read]
    BY <1>1, <1>7 DEF Rewrite, At, HoldsOK, Lineless
  <2> QED  BY <1>2, <2>1
<1>8. CASE CrashTorn(a)
  <2>1. CASE c.pc = "create" /\ file' = [file EXCEPT ![Head(c.todo).line] = Torn]
             /\ tickets' = [tickets EXCEPT ![Head(c.todo).line] = @ + 1]
    <3> DEFINE l == Head(c.todo).line
    <3>1. l \in Line
      <4>1. c.todo \in Seq(Request) /\ c.todo # <<>>
        BY <1>1, <2>1 DEF Command, HoldsOK
      <4>2. Head(c.todo) \in Request
        BY <4>1
      <4> QED  BY <4>2 DEF Request
    <3>2. StoreStays
      BY <1>8 DEF CrashTorn
    <3> HIDE DEF l
    <3> QED  BY <1>2, <2>1, <3>1, <3>2 DEF l
  <2>2. CASE c.pc = "rewrite" /\ file' = [file EXCEPT ![c.line] = Torn] /\ tickets' = tickets
    <3>1. c.line \in Line /\ StoreStays
      BY <1>1, <1>8, <2>2 DEF HoldsOK, Lineless, CrashTorn
    <3> QED  BY <1>2, <2>2, <3>1
  <2> QED  BY <1>8, <2>1, <2>2 DEF CrashTorn, At
<1>9. ASSUME NEW r \in Request, PublishInline(a, r)  PROVE StepLeaves(a)
  <2>1. /\ r.line \in Line /\ tickets' = [tickets EXCEPT ![r.line] = @ + 1]
        /\ file' = file /\ StoreStays
    BY <1>9 DEF PublishInline, Request
  <2>2. FileStep(a)
    BY <2>1 DEF FileStep
  <2> QED  BY <2>1, <2>2, FilesLeave
<1>10. ASSUME NEW l \in Line, DiscardDraft(a, l)  PROVE StepLeaves(a)
  BY <1>2, <1>10 DEF DiscardDraft
<1>11. ASSUME NEW l \in Line, EditDraft(a, l)  PROVE StepLeaves(a)
  <2> DEFINE b == [file[l] EXCEPT !.edit = @ + 1]
  <2>1. file[l] \in Content
    BY <1>1, <1>11, FileCreated DEF EditDraft
  <2>2. b.ticket = file[l].ticket
    BY <2>1 DEF Content
  <2>3. file' = [file EXCEPT ![l] = b] /\ StoreStays /\ tickets' = tickets
    BY <1>1, <1>11 DEF EditDraft
  <2> HIDE DEF b
  <2> QED  BY <1>2, <2>1, <2>2, <2>3
<1>12. CASE PutUnit(a) \/ Repoint(a)
  BY <1>12, WritesLeave
<1>13. CASE Begin(a)
  <2>1. \A reqs \in Scaffolds : Len(reqs) = 1 => reqs[1] \in Request
    <3> SUFFICES ASSUME NEW reqs \in Scaffolds, Len(reqs) = 1  PROVE reqs[1] \in Request
      OBVIOUS
    <3>1. reqs \in Seq(Request)
      BY AuthoringAssumption
    <3> QED  BY <3>1
  <2>2. \/ AllStays \/ \E r \in Request : PublishInline(a, r)
        \/ \E l \in Line : DiscardDraft(a, l) \/ EditDraft(a, l)
    BY <1>13, <2>1 DEF Begin, New, NoteDraft, Derive, Publish, Relate, ResolveNote,
                       ResolveWithReply, PublishBatch
  <2> QED  BY <1>3, <1>9, <1>10, <1>11, <2>2
<1>14. CASE Step(a) \/ Crash(a)
  <2>1. \/ AllStays \/ Create(a) \/ Rollback(a) \/ RemoveDraft(a) \/ Rewrite(a)
        \/ PutUnit(a) \/ Repoint(a)
    BY <1>14 DEF Step, CreateFails, RolledBack, Scan, AssignVersion, Validate, ListDrafts,
       CheckEdges, NextDraft, ReadCurrent, RelateGate, Reread, StatDraft, Redraft,
       CheckInstances, ReadBase, Report, Crash
  <2> QED  BY <1>3, <1>4, <1>5, <1>6, <1>7, <1>12, <2>1
<1> QED  BY <1>8, <1>13, <1>14

\* No step of a command is one its author has no verb for.
LEMMA VerbNext ==
  ASSUME AuthoringInv, VerbInv, [Next]_vars
  PROVE  VerbInv'
<1>1. CASE UNCHANGED vars
  BY <1>1 DEF vars, VerbInv
<1>2. ASSUME NEW a \in Author, Begin(a) \/ Step(a) \/ Crash(a) \/ CrashTorn(a)
      PROVE  VerbInv'
  <2>0. StepLeaves(a) /\ may' = may
    BY <1>2, EveryStepLeaves DEF StepLeaves
  <2>1. \A b \in Author \ {a} : proc'[b] = proc[b]
    BY <1>2, StepFollows, BeginFollows
  <2>2. ASSUME NEW b \in Author  PROVE VerbOK(may[b], head', proc[b])
    <3>1. VerbOK(may[b], head, proc[b]) /\ HoldsOK(tickets, proc[b])
      BY Fields DEF VerbInv
    <3>2. proc[b].pc = "current" => proc[b].line \in Line
      BY <3>1 DEF HoldsOK, Lineless
    <3> QED  BY <2>0, <3>1, <3>2 DEF VerbOK, StepLeaves
  <2>3. CASE Begin(a) /\ proc'[a] # proc[a]
    <3>1. VerbOK(may[a], head, proc'[a])
      BY <2>3, BeginFollows
    <3>2. HoldsOK(tickets', proc'[a])
      BY <1>2, NextSound DEF Next, AuthoringInv, CommandOK
    <3>3. proc'[a].pc = "current" => proc'[a].line \in Line
      BY <3>2 DEF HoldsOK, Lineless
    <3>4. VerbOK(may'[a], head', proc'[a])
      BY <2>0, <3>1, <3>3 DEF VerbOK, StepLeaves
    <3> QED  BY <2>0, <2>1, <2>2, <3>4 DEF VerbInv
  <2>4. CASE proc'[a] = Idle
    <3>1. Idle.pc = "idle" /\ Idle.verb = "none"
      BY DEF Idle
    <3> HIDE DEF Idle
    <3>2. VerbOK(may'[a], head', proc'[a])
      BY <2>4, <3>1 DEF VerbOK, Resolving
    <3> QED  BY <2>0, <2>1, <2>2, <3>2 DEF VerbInv
  <2>5. CASE Follows(proc[a], proc'[a])
    <3>1. VerbOK(may[a], head, proc[a])
      BY DEF VerbInv
    <3>2. VerbOK(may'[a], head', proc'[a])
      BY <2>0, <2>5, <3>1 DEF Follows, VerbOK, Rewrites, Resolving
    <3> QED  BY <2>0, <2>1, <2>2, <3>2 DEF VerbInv
  <2>6. CASE proc'[a] = proc[a]
    BY <2>0, <2>1, <2>2, <2>6 DEF VerbInv
  <2> QED  BY <1>2, <2>3, <2>4, <2>5, <2>6, StepFollows
<1> QED  BY <1>1, <1>2 DEF Next

LEMMA UndoneNext ==
  ASSUME NobodyRewrites, AuthoringInv, VerbInv, UndoneInv, [Next]_vars
  PROVE  UndoneInv'
<1>1. CASE UNCHANGED vars
  BY <1>1 DEF vars, UndoneInv
<1>2. ASSUME NEW a \in Author, Begin(a) \/ Step(a) \/ Crash(a) \/ CrashTorn(a)
      PROVE  UndoneInv'
  <2>0. StepLeaves(a) /\ may \in Sessions
    BY <1>2, EveryStepLeaves DEF AuthoringInv
  <2>1. \A b \in Author \ {a} : proc'[b] = proc[b]
    BY <1>2, StepFollows, BeginFollows
  <2>2. ASSUME NEW b \in Author  PROVE \A m \in proc[b].made : m[2] \in 1..tickets'[m[1]]
    <3> SUFFICES ASSUME NEW m \in proc[b].made  PROVE m[2] \in 1..tickets'[m[1]]
      OBVIOUS
    <3>1. m[2] \in 1..tickets[m[1]] /\ m[1] \in Line
      BY Fields DEF UndoneInv, UndoneOK, Made
    <3> QED  BY <2>0, <3>1 DEF StepLeaves
  <2>3. ASSUME NEW b \in Author, proc[b].pc \in {"rollback", "refused"},
               NEW m \in proc[b].made \ proc[b].left, file'[m[1]] \in Content
        PROVE  file'[m[1]].ticket # m[2]
    <3>1. /\ m[2] \in 1..tickets[m[1]] /\ m[1] \in Line
          /\ file[m[1]] \in Content => file[m[1]].ticket # m[2]
      BY <2>3, Fields DEF UndoneInv, UndoneOK, Made
    <3>2. proc[a].pc # "rewrite"
      <4>1. "new" \in may[b]
        BY <2>3 DEF VerbInv, VerbOK
      <4>2. proc[a].pc = "rewrite" => Rewrites(may[a])
        BY DEF VerbInv, VerbOK
      <4> QED  BY <2>0, <2>3, <4>1, <4>2 DEF NobodyRewrites
    <3>3. \/ file'[m[1]] = file[m[1]]
          \/ file'[m[1]] \in {Gone, Torn}
          \/ file[m[1]] \in Content /\ file'[m[1]].ticket = file[m[1]].ticket
          \/ file'[m[1]].ticket = tickets[m[1]] + 1
      BY <2>0, <3>1, <3>2 DEF StepLeaves, FileStep
    <3>4. file'[m[1]] \notin {Gone, Torn} /\ tickets[m[1]] \in Nat
      BY <2>0, <2>3, <3>1, AuthoringAssumption DEF StepLeaves
    <3>5. tickets[m[1]] + 1 # m[2]
      BY <3>1, <3>4
    <3> QED  BY <2>3, <3>1, <3>3, <3>4, <3>5
  <2>4. ASSUME NEW b \in Author, b # a \/ proc'[a] = proc[a]
        PROVE  UndoneOK(file', tickets', proc'[b])
    <3>1. proc'[b] = proc[b]
      BY <2>1, <2>4
    <3>2. proc[b].pc = "refused" => proc[b].left = {}
      BY DEF UndoneInv, UndoneOK
    <3> QED  BY <2>2, <2>3, <3>1, <3>2 DEF UndoneOK
  <2>5. CASE Begin(a) /\ proc'[a] # proc[a]
    <3>1. proc'[a].made = {} /\ proc'[a].pc \notin {"rollback", "refused"}
      BY <2>5, BeginFollows
    <3>2. UndoneOK(file', tickets', proc'[a])
      BY <3>1 DEF UndoneOK
    <3> QED  BY <2>4, <3>2 DEF UndoneInv
  <2>6. CASE proc'[a] = Idle
    <3>1. Idle.pc = "idle" /\ Idle.made = {}
      BY DEF Idle
    <3> HIDE DEF Idle
    <3>2. UndoneOK(file', tickets', proc'[a])
      BY <2>6, <3>1 DEF UndoneOK
    <3> QED  BY <2>4, <3>2 DEF UndoneInv
  <2>7. CASE Follows(proc[a], proc'[a])
    <3> DEFINE c == proc[a]
               d == proc'[a]
    <3>1. \A m \in d.made : m[2] \in 1..tickets'[m[1]]
      BY <2>2, <2>7 DEF Follows
    <3>2. ASSUME d.pc \in {"rollback", "refused"}, NEW m \in d.made \ d.left,
                 file'[m[1]] \in Content
          PROVE  file'[m[1]].ticket # m[2]
      <4>1. c.pc = "rollback" /\ d.made = c.made /\ \A x \in c.left \ d.left : file'[x[1]] = Gone
        BY <2>7, <3>2 DEF Follows
      <4>2. m \notin c.left
        BY <3>2, <4>1, AuthoringAssumption
      <4> QED  BY <2>3, <3>2, <4>1, <4>2
    <3>3. UndoneOK(file', tickets', d)
      BY <2>7, <3>1, <3>2 DEF Follows, UndoneOK
    <3> QED  BY <2>4, <3>3 DEF UndoneInv
  <2> QED  BY <1>2, <2>4, <2>5, <2>6, <2>7, StepFollows DEF UndoneInv
<1> QED  BY <1>1, <1>2 DEF Next

LEMMA VerbInvHolds == Spec => []VerbInv
<1>1. Init => VerbInv
  <2>1. Idle.pc = "idle" /\ Idle.verb = "none"
    BY DEF Idle
  <2> HIDE DEF Idle
  <2> QED  BY <2>1 DEF Init, VerbInv, VerbOK, Resolving
<1> QED  BY <1>1, VerbNext, AuthoringInvHolds, PTL DEF Spec

\* batch.go:96-102: where nobody else rewrites drafts, a refused batch has left
\* none of the drafts it created, whatever was published, edited, discarded and
\* drafted again during its rollback.
THEOREM RefusedBatchesLeaveNothing == NobodyRewrites /\ Spec => []RefusedLeavesNothing
<1> SUFFICES ASSUME NobodyRewrites  PROVE Spec => []RefusedLeavesNothing
  OBVIOUS
<1>1. Init => UndoneInv
  <2>1. Idle.pc = "idle" /\ Idle.made = {}
    BY DEF Idle
  <2> HIDE DEF Idle
  <2> QED  BY <2>1 DEF Init, UndoneInv, UndoneOK
<1>2. AuthoringInv /\ VerbInv /\ UndoneInv /\ [Next]_vars => UndoneInv'
  BY UndoneNext
<1>3. AuthoringInv /\ UndoneInv => RefusedLeavesNothing
  <2> SUFFICES ASSUME AuthoringInv, UndoneInv, NEW a \in Author, proc[a].pc = "refused",
                      NEW m \in proc[a].made, Readable(m[1])
               PROVE  file[m[1]].ticket # m[2]
    BY DEF RefusedLeavesNothing, At
  <2>1. m[1] \in Line
    BY Fields DEF Made
  <2>2. file[m[1]] \in Content
    BY <2>1, FileCreated DEF AuthoringInv
  <2>3. proc[a].left = {}
    BY DEF UndoneInv, UndoneOK
  <2> QED  BY <2>2, <2>3 DEF UndoneInv, UndoneOK
<1> QED  BY <1>1, <1>2, <1>3, AuthoringInvHolds, VerbInvHolds, PTL DEF Spec

----------------------------------------------------------------------------
(* A resolution covers the line *)

\* Who resolves notes is alone with the store and with the notes: the others
\* scaffold drafts that are no notes, discard and edit.
OneResolver ==
  \A s \in Sessions : \A a, b \in Author :
    a # b /\ "resolve" \in s[a] => s[b] \subseteq {"new", "discard", "edit", "crash"}

\* The current instance of a line is resolved, or there is none; so is the
\* first one.
CurrentSettled(hd, l) ==
  \A v \in Version :
    hd[l][v] # NoUnit /\ (\A w \in Version : hd[l][w] # NoUnit => w <= v) => ~hd[l][v].open

FirstSettled(hd, l) ==
  \A v \in Version :
    hd[l][v] # NoUnit /\ (\A w \in Version : hd[l][w] # NoUnit => v <= w) => ~hd[l][v].open

DraftSettled(fl, l) == fl[l] \in Content => ~fl[l].open

\* The steps of a resolution, and those after which the draft is settled.
OfResolve == {"create", "stat", "redraft", "rewrite", "scan", "version", "validate", "put",
              "remove", "published", "base", "resolved"}

AfterRedraft == {"scan", "version", "validate", "put", "published", "base", "resolved"}

\* What a resolution knows of its note.
Held(fl, hd, c) ==
  c.verb = "resolve" =>
    LET n == c.line
    IN  /\ n \in Note /\ c.pc \in OfResolve
        /\ c.pc \in AfterRedraft => DraftSettled(fl, n)
        /\ c.pc \in {"rewrite", "version", "validate", "put"} => c.read.open = FALSE
        /\ c.pc \in {"validate", "put"} =>
             \A w \in Version : hd[n][w] # NoUnit => w < c.version
        /\ c.pc = "remove" => CurrentSettled(hd, n)
        /\ c.pc = "resolved" => CurrentSettled(hd, n) \/ FirstSettled(hd, n)

\* The others only scaffold, and no notes.
TodoFits(c) ==
  c.pc = "create" /\ c.verb = "new" => \A i \in 1..Len(c.todo) : c.todo[i].line \notin Note

OutsiderOK(c) ==
  /\ c.verb \in {"none", "new"} /\ c.pc \in {"idle", "create", "rollback", "refused"}
  /\ TodoFits(c) /\ (c.pc = "create" => c.verb = "new")

ResolverInv ==
  \A a \in Author : "resolve" \in may[a] =>
    /\ Held(file, head, proc[a])
    /\ \A b \in Author \ {a} : OutsiderOK(proc[b])

\* A draft file of a note: as it was, away, torn, or with the same note-state.
CalmFile(n) ==
  \/ file'[n] = file[n] \/ file'[n] \in {Gone, Torn}
  \/ file[n] \in Content /\ file'[n].open = file[n].open

LEMMA IdleHeld ==
  ASSUME NEW fl, NEW hd
  PROVE  Held(fl, hd, Idle) /\ OutsiderOK(Idle)
<1>1. Idle.pc = "idle" /\ Idle.verb = "none"
  BY DEF Idle
<1> HIDE DEF Idle
<1> QED  BY <1>1 DEF Held, OutsiderOK, TodoFits

\* While others step, a resolution keeps what it holds.
LEMMA HeldStays ==
  ASSUME NEW c, Held(file, head, c), head' = head, \A n \in Note : CalmFile(n)
  PROVE  Held(file', head', c)
<1>1. \A n \in Note : DraftSettled(file, n) => DraftSettled(file', n)
  BY AuthoringAssumption DEF DraftSettled, CalmFile
<1> QED  BY <1>1 DEF Held

LEMMA FileAway ==
  ASSUME AuthoringInv, NEW l, NEW b \in {Gone, Torn}, file' = [file EXCEPT ![l] = b]
  PROVE  \A n \in Note : CalmFile(n)
BY AuthoringAssumption DEF AuthoringInv, DataOK, CalmFile

LEMMA FileStays ==
  ASSUME file' = file
  PROVE  \A n \in Note : CalmFile(n)
BY DEF CalmFile

\* An editor save keeps the note-state.
LEMMA EditCalm ==
  ASSUME AuthoringInv, NEW a, NEW l \in Line, EditDraft(a, l)
  PROVE  \A n \in Note : CalmFile(n)
<1>1. file[l] \in Content /\ file \in [Line -> Body]
  BY FileCreated DEF EditDraft, AuthoringInv, DataOK
<1> DEFINE b == [file[l] EXCEPT !.edit = @ + 1]
<1>2. b.open = file[l].open
  BY <1>1 DEF Content
<1>3. file' = [file EXCEPT ![l] = b]
  BY <1>1 DEF EditDraft
<1> HIDE DEF b
<1> QED  BY <1>1, <1>2, <1>3, AuthoringAssumption DEF CalmFile

\* A scaffold of one who writes no notes begins.
LEMMA NewFits ==
  ASSUME NEW a \in Author, NEW reqs \in Scaffolds, New(a, reqs), "cmt" \notin may[a]
  PROVE  \E d : /\ proc' = [proc EXCEPT ![a] = d] /\ d.verb = "new" /\ d.pc = "create"
                /\ TodoFits(d)
<1> DEFINE d == [Idle EXCEPT !.verb = "new", !.pc = "create", !.todo = reqs]
<1>1. Idle \in Command
  BY IdleCommand
<1>2. proc' = [proc EXCEPT ![a] = d]
  BY DEF New
<1> HIDE DEF Idle
<1>3. d.verb = "new" /\ d.pc = "create" /\ d.todo = reqs
  BY <1>1 DEF Command
<1> HIDE DEF d
<1>4. reqs \in Seq(Request)
  BY AuthoringAssumption
<1>5. DOMAIN reqs = 1..Len(reqs)
  BY <1>4
<1>6. TodoFits(d)
  BY <1>3, <1>5 DEF TodoFits, New, MayWrite
<1> QED  BY <1>2, <1>3, <1>6

\* What is left of a request that names no notes.
LEMMA TodoNext ==
  ASSUME NEW c \in Command, TodoFits(c), c.pc = "create", c.verb = "new", c.todo # <<>>
  PROVE  /\ Head(c.todo).line \notin Note
         /\ \A i \in 1..Len(Tail(c.todo)) : Tail(c.todo)[i].line \notin Note
<1> DEFINE t == c.todo
<1>1. t \in Seq(Request) /\ t # <<>> /\ \A i \in 1..Len(t) : t[i].line \notin Note
  BY DEF Command, TodoFits
<1> HIDE DEF t
<1>2. /\ Head(t) = t[1] /\ 1 \in 1..Len(t)
      /\ \A i \in 1..Len(Tail(t)) : Tail(t)[i] = t[i + 1] /\ i + 1 \in 1..Len(t)
  BY <1>1
<1> QED  BY <1>1, <1>2 DEF t

LEMMA OutsiderStep ==
  ASSUME AuthoringInv, NEW b \in Author, OutsiderOK(proc[b]),
         may[b] \subseteq {"new", "discard", "edit", "crash"},
         Begin(b) \/ Step(b) \/ Crash(b) \/ CrashTorn(b)
  PROVE  OutsiderOK(proc'[b]) /\ head' = head /\ \A n \in Note : CalmFile(n)
<1> DEFINE c == proc[b]
           Result == OutsiderOK(proc'[b]) /\ head' = head /\ \A n \in Note : CalmFile(n)
<1>1. c \in Command /\ HoldsOK(tickets, c) /\ proc \in [Author -> Command]
  BY Fields
<1>2. ASSUME End(b)  PROVE OutsiderOK(proc'[b])
  BY <1>1, <1>2, IdleHeld DEF End
<1>3. ASSUME NEW d, proc' = [proc EXCEPT ![b] = d], OutsiderOK(d)  PROVE OutsiderOK(proc'[b])
  BY <1>1, <1>3
<1> SUFFICES Result
  OBVIOUS
<1>4. ASSUME NEW reqs \in Scaffolds, New(b, reqs)  PROVE Result
  <2>1. head' = head /\ file' = file
    BY <1>4 DEF New, AllStays
  <2>2. PICK d : proc' = [proc EXCEPT ![b] = d] /\ d.verb = "new" /\ d.pc = "create" /\ TodoFits(d)
    BY <1>4, NewFits
  <2> QED  BY <1>3, <2>1, <2>2, FileStays DEF OutsiderOK
<1>5. ASSUME NEW l \in Line, DiscardDraft(b, l) \/ EditDraft(b, l)  PROVE Result
  BY <1>5, FileAway, EditCalm DEF DiscardDraft, EditDraft, StoreStays
<1>6. CASE Begin(b)
  <2>1. \/ \E reqs \in Scaffolds : New(b, reqs)
        \/ \E l \in Line : DiscardDraft(b, l) \/ EditDraft(b, l)
    BY <1>6 DEF Begin, PublishInline, NoteDraft, Publish, Relate, ResolveNote,
                ResolveWithReply, PublishBatch, Start
  <2> QED  BY <1>4, <1>5, <2>1
<1>7. CASE Create(b)
  <2> DEFINE r == Head(c.todo)
             pc == AfterCreate(c)
             m == {<<r.line, tickets[r.line] + 1>>}
             d == [c EXCEPT !.pc = pc, !.todo = Tail(@), !.made = @ \cup m]
  <2>1. /\ c.pc = "create" /\ file' = [file EXCEPT ![r.line] = Template(r)] /\ head' = head
        /\ \/ End(b)
           \/ proc' = [proc EXCEPT ![b].pc = pc, ![b].todo = Tail(@), ![b].made = @ \cup m]
    BY <1>7 DEF Create, At, StoreStays
  <2>2. c.verb = "new" /\ TodoFits(c) /\ c.todo # <<>>
    BY <1>1, <2>1 DEF OutsiderOK, HoldsOK
  <2>3. /\ r.line \notin Note /\ \A i \in 1..Len(Tail(c.todo)) : Tail(c.todo)[i].line \notin Note
    BY <1>1, <2>1, <2>2, TodoNext
  <2>4. pc \in {"create", "idle"}
    BY <2>2 DEF AfterCreate
  <2>5. \A n \in Note : CalmFile(n)
    BY <2>1, <2>3 DEF CalmFile, AuthoringInv, DataOK
  <2> HIDE DEF pc, r, m
  <2>6. End(b) \/ proc' = [proc EXCEPT ![b] = d]
    BY <1>1, <2>1
  <2>7. d.verb = "new" /\ d.pc = pc /\ d.todo = Tail(c.todo)
    BY <1>1, <2>2 DEF Command
  <2> HIDE DEF d
  <2>8. OutsiderOK(d)
    BY <2>3, <2>4, <2>7 DEF OutsiderOK, TodoFits
  <2> QED  BY <1>2, <1>3, <2>1, <2>5, <2>6, <2>8
<1>8. CASE CreateFails(b)
  <2> DEFINE d == [c EXCEPT !.pc = "rollback", !.left = c.made]
  <2>1. (End(b) \/ proc' = [proc EXCEPT ![b] = d]) /\ head' = head /\ file' = file
    BY <1>1, <1>8 DEF CreateFails, AllStays
  <2>2. d.verb = c.verb /\ d.pc = "rollback"
    BY <1>1 DEF Command
  <2> HIDE DEF d
  <2>3. OutsiderOK(d)
    BY <2>2 DEF OutsiderOK, TodoFits
  <2> QED  BY <1>2, <1>3, <2>1, <2>3, FileStays
<1>9. CASE Rollback(b)
  <2>1. PICK m \in c.left : /\ file' = [file EXCEPT ![m[1]] = Gone]
                            /\ proc' = [proc EXCEPT ![b].left = @ \ {m}]
    BY <1>9 DEF Rollback
  <2> DEFINE d == [c EXCEPT !.left = @ \ {m}]
  <2>2. proc' = [proc EXCEPT ![b] = d] /\ c.pc = "rollback" /\ head' = head
    BY <1>1, <1>9, <2>1 DEF Rollback, At, StoreStays
  <2>3. d.verb = c.verb /\ d.pc = "rollback"
    BY <1>1, <2>2 DEF Command
  <2> HIDE DEF d
  <2>4. OutsiderOK(d)
    BY <2>3 DEF OutsiderOK, TodoFits
  <2> QED  BY <1>3, <2>1, <2>2, <2>4, FileAway
<1>10. CASE RolledBack(b)
  <2> DEFINE d == [c EXCEPT !.pc = "refused"]
  <2>1. proc' = [proc EXCEPT ![b] = d] /\ head' = head /\ file' = file
    BY <1>1, <1>10 DEF RolledBack, Goto, AllStays
  <2>2. d.verb = c.verb /\ d.pc = "refused"
    BY <1>1 DEF Command
  <2> HIDE DEF d
  <2>3. OutsiderOK(d)
    BY <2>2 DEF OutsiderOK, TodoFits
  <2> QED  BY <1>3, <2>1, <2>3, FileStays
<1>11. CASE Report(b) \/ Crash(b)
  BY <1>2, <1>11, FileStays DEF Report, Crash, AllStays
<1>12. CASE CrashTorn(b)
  <2>1. End(b) /\ head' = head /\ \E l : file' = [file EXCEPT ![l] = Torn]
    BY <1>12 DEF CrashTorn, StoreStays
  <2> QED  BY <1>2, <2>1, FileAway
<1>13. CASE Step(b) /\ ~Create(b) /\ ~CreateFails(b) /\ ~Rollback(b) /\ ~RolledBack(b) /\ ~Report(b)
  <2>1. c.pc \in {"idle", "create", "rollback", "refused"}
    BY DEF OutsiderOK
  <2> QED  BY <1>13, <2>1 DEF Step, Scan, AssignVersion, Validate, PutUnit, RemoveDraft, ListDrafts,
       CheckEdges, NextDraft, ReadCurrent, RelateGate, Repoint, Reread, Rewrite, StatDraft, Redraft,
       CheckInstances, ReadBase, At
<1> QED  BY <1>6, <1>7, <1>8, <1>9, <1>10, <1>11, <1>12, <1>13

----------------------------------------------------------------------------
(* The steps of a resolution *)

LEMMA EndHeld ==
  ASSUME AuthoringInv, NEW a \in Author, End(a)
  PROVE  Held(file', head', proc'[a])
BY Fields, IdleHeld DEF End

\* What a command is when it goes on.
LEMMA GotoHeld ==
  ASSUME AuthoringInv, NEW a \in Author, NEW pc, Goto(a, pc)
  PROVE  \E d : /\ proc'[a] = d /\ d.pc = pc /\ d.verb = proc[a].verb /\ d.line = proc[a].line
                /\ d.read = proc[a].read /\ d.version = proc[a].version
<1> DEFINE d == [proc[a] EXCEPT !.pc = pc]
<1>1. proc[a] \in Command /\ proc \in [Author -> Command]
  BY Fields
<1>2. proc'[a] = d
  BY <1>1 DEF Goto
<1>3. /\ d.pc = pc /\ d.verb = proc[a].verb /\ d.line = proc[a].line
      /\ d.read = proc[a].read /\ d.version = proc[a].version
  BY <1>1 DEF Command
<1> HIDE DEF d
<1> QED  BY <1>2, <1>3

LEMMA BeginHeld ==
  ASSUME AuthoringInv, NEW a \in Author, Held(file, head, proc[a]), Begin(a)
  PROVE  Held(file', head', proc'[a])
<1> DEFINE Result == Held(file', head', proc'[a])
<1>1. Idle \in Command /\ proc[a] \in Command /\ proc \in [Author -> Command]
  BY IdleCommand, Fields
<1> HIDE DEF Idle
<1>2. ASSUME NEW d, proc' = [proc EXCEPT ![a] = d],
             d.verb # "resolve" \/ (d.line \in Note /\ d.pc \in {"stat", "create"})
      PROVE  Result
  <2>1. proc'[a] = d
    BY <1>1, <1>2
  <2> QED  BY <1>2, <2>1 DEF Held, OfResolve, AfterRedraft
<1>3. ASSUME NEW reqs \in Scaffolds, New(a, reqs)  PROVE Result
  <2> DEFINE d == [Idle EXCEPT !.verb = "new", !.pc = "create", !.todo = reqs]
  <2>1. proc' = [proc EXCEPT ![a] = d] /\ d.verb = "new"
    BY <1>1, <1>3 DEF New, Command
  <2> HIDE DEF d
  <2> QED  BY <1>2, <2>1
<1>4. ASSUME NEW r, PublishInline(a, r)  PROVE Result
  <2> DEFINE d == [Idle EXCEPT !.verb = "inline", !.pc = "version", !.line = r.line,
                               !.read = Template(r)]
  <2>1. proc' = [proc EXCEPT ![a] = d] /\ d.verb = "inline"
    BY <1>1, <1>4 DEF PublishInline, Command
  <2> HIDE DEF d
  <2> QED  BY <1>2, <2>1
<1>5. ASSUME NEW l, NEW verb, NEW stage, Derive(a, l, verb, stage),
             verb = "note" \/ (verb = "resolve" /\ l \in Note)
      PROVE  Result
  <2> DEFINE i == CHOOSE j \in Free(l) : \A k \in Free(l) : j <= k
             t == <<[line |-> Derived[l][i], rels |-> {l}]>>
             d == [Idle EXCEPT !.verb = verb, !.pc = "create", !.line = l, !.stage = stage,
                     !.todo = t]
  <2>1. proc' = [proc EXCEPT ![a] = d]
    BY <1>5 DEF Derive
  <2> HIDE DEF t
  <2>2. d.verb = verb /\ d.pc = "create" /\ d.line = l
    BY <1>1 DEF Command
  <2> HIDE DEF d
  <2> QED  BY <1>2, <1>5, <2>1, <2>2
<1>6. ASSUME NEW r, Relate(a, r)  PROVE Result
  <2> DEFINE d == [Idle EXCEPT !.verb = "relate", !.pc = "current", !.line = r[1],
                     !.refs[r[1]] = {r[2]}]
  <2>1. proc' = [proc EXCEPT ![a] = d] /\ d.verb = "relate"
    BY <1>1, <1>6 DEF Relate, Command
  <2> HIDE DEF d
  <2> QED  BY <1>2, <2>1
<1>7. ASSUME NEW l, DiscardDraft(a, l) \/ EditDraft(a, l)  PROVE Result
  <2>1. proc'[a] = proc[a] /\ proc[a].pc = "idle"
    BY <1>7 DEF DiscardDraft, EditDraft, At
  <2> QED  BY <2>1 DEF Held, OfResolve
<1>8. ASSUME NEW verb, NEW pc, NEW l, Start(a, verb, pc, l),
             verb # "resolve" \/ (l \in Note /\ pc = "stat")
      PROVE  Result
  <2> DEFINE d == [Idle EXCEPT !.verb = verb, !.pc = pc, !.line = l]
  <2>1. proc' = [proc EXCEPT ![a] = d] /\ d.verb = verb /\ d.pc = pc /\ d.line = l
    BY <1>1, <1>8 DEF Start, Command
  <2> HIDE DEF d
  <2> QED  BY <1>2, <1>8, <2>1
<1>9. ASSUME NEW l \in Line, NoteDraft(a, l) \/ Publish(a, l)  PROVE Result
  BY <1>5, <1>8, <1>9 DEF NoteDraft, Publish
<1>10. ASSUME NEW n \in Note, ResolveNote(a, n) \/ ResolveWithReply(a, n)  PROVE Result
  BY <1>5, <1>8, <1>10 DEF ResolveNote, ResolveWithReply
<1>11. CASE PublishBatch(a)
  BY <1>8, <1>11 DEF PublishBatch
<1> QED  BY <1>3, <1>4, <1>6, <1>7, <1>9, <1>10, <1>11 DEF Begin

\* A command of another verb does not become a resolution.
LEMMA OthersHold ==
  ASSUME AuthoringInv, NEW a \in Author, proc[a].verb # "resolve",
         Step(a) \/ Crash(a) \/ CrashTorn(a)
  PROVE  Held(file', head', proc'[a])
<1>1. proc'[a] = Idle \/ proc'[a].verb = proc[a].verb
  BY StepFollows DEF Follows
<1> HIDE DEF Idle
<1> QED  BY <1>1, IdleHeld DEF Held

\* The steps that create, rewrite or remove the draft, or end.
LEMMA FileHeld ==
  ASSUME AuthoringInv, NEW a \in Author, Held(file, head, proc[a]), proc[a].verb = "resolve",
         \/ Create(a) \/ CreateFails(a) \/ Rewrite(a) \/ RemoveDraft(a)
         \/ Report(a) \/ Crash(a) \/ CrashTorn(a)
  PROVE  Held(file', head', proc'[a])
<1> DEFINE c == proc[a]
           n == c.line
           Result == Held(file', head', proc'[a])
<1>1. /\ c \in Command /\ HoldsOK(tickets, c) /\ proc \in [Author -> Command]
      /\ file \in [Line -> Body] /\ n \in Note /\ n \in Line
  BY Fields, AuthoringAssumption DEF AuthoringInv, DataOK, Held
<1>2. End(a) => Result
  BY EndHeld
<1>3. CASE Create(a)
  <2> DEFINE pc == AfterCreate(c)
             m == {<<Head(c.todo).line, tickets[Head(c.todo).line] + 1>>}
             d == [c EXCEPT !.pc = pc, !.todo = Tail(@), !.made = @ \cup m]
  <2>1. pc \in {"create", "stat", "redraft"}
    BY DEF AfterCreate
  <2>2. proc' = [proc EXCEPT ![a].pc = pc, ![a].todo = Tail(@), ![a].made = @ \cup m]
    BY <1>3, <2>1 DEF Create
  <2> HIDE DEF pc, m
  <2>3. proc'[a] = d
    BY <1>1, <2>2
  <2>4. d.pc = pc /\ d.line = n
    BY <1>1 DEF Command
  <2> HIDE DEF d
  <2> QED  BY <1>1, <2>1, <2>3, <2>4 DEF Held, OfResolve, AfterRedraft
<1>4. CASE Rewrite(a)
  <2>1. /\ c.pc = "rewrite" /\ file' = [file EXCEPT ![n] = c.read]
        /\ Goto(a, "scan") \/ Goto(a, "published")
    BY <1>4 DEF Rewrite, At
  <2>2. DraftSettled(file', n)
    <3>1. c.read.open = FALSE
      BY <2>1 DEF Held
    <3>2. file'[n] = c.read
      BY <1>1, <2>1
    <3> QED  BY <3>1, <3>2 DEF DraftSettled
  <2>3. ASSUME NEW pc \in {"scan", "published"}, Goto(a, pc)  PROVE Result
    <3>1. PICK d : proc'[a] = d /\ d.pc = pc /\ d.line = n
      BY <2>3, GotoHeld
    <3> QED  BY <1>1, <2>2, <3>1 DEF Held, OfResolve
  <2> QED  BY <2>1, <2>3
<1>5. CASE RemoveDraft(a)
  <2>1. /\ c.pc = "remove" /\ file' = [file EXCEPT ![n] = Gone] /\ head' = head
        /\ Goto(a, "resolved")
    BY <1>5 DEF RemoveDraft, StoreStays, At
  <2>2. DraftSettled(file', n)
    BY <1>1, <2>1, AuthoringAssumption DEF DraftSettled
  <2>3. CurrentSettled(head', n)
    BY <2>1 DEF Held
  <2>4. PICK d : proc'[a] = d /\ d.pc = "resolved" /\ d.line = n
    BY <2>1, GotoHeld
  <2> QED  BY <1>1, <2>2, <2>3, <2>4 DEF Held, OfResolve
<1>6. CASE CreateFails(a) \/ Report(a) \/ Crash(a) \/ CrashTorn(a)
  BY <1>2, <1>6 DEF CreateFails, Report, Crash, CrashTorn
<1> QED  BY <1>3, <1>4, <1>5, <1>6

\* The draft is published under a version above all others.
LEMMA PublishHeld ==
  ASSUME AuthoringInv, NEW a \in Author, Held(file, head, proc[a]), proc[a].verb = "resolve",
         Scan(a) \/ AssignVersion(a) \/ Validate(a) \/ PutUnit(a)
  PROVE  Held(file', head', proc'[a])
<1> DEFINE c == proc[a]
           n == c.line
           Result == Held(file', head', proc'[a])
<1>1. /\ c \in Command /\ HoldsOK(tickets, c) /\ proc \in [Author -> Command]
      /\ DataOK(file, tickets, head, past) /\ n \in Note /\ n \in Line
  BY Fields, AuthoringAssumption DEF AuthoringInv, Held
<1>2. End(a) => Result
  BY EndHeld
<1>3. CASE Scan(a)
  <2> DEFINE f == file[n]
             d == [c EXCEPT !.pc = "version", !.read = f]
  <2>1. /\ c.pc = "scan" /\ file' = file
        /\ End(a) \/ (Readable(n) /\ proc'[a] = d)
    BY <1>1, <1>3 DEF Scan, At, AllStays
  <2>2. DraftSettled(file, n)
    BY <2>1 DEF Held, AfterRedraft
  <2>3. Readable(n) => f.open = FALSE
    <3>1. Readable(n) => f \in Content
      BY <1>1, FileCreated
    <3> QED  BY <2>2, <3>1 DEF DraftSettled, Content
  <2> HIDE DEF f
  <2>4. d.pc = "version" /\ d.line = n /\ d.read = f
    BY <1>1 DEF Command
  <2> HIDE DEF d
  <2> QED  BY <1>1, <1>2, <2>1, <2>2, <2>3, <2>4 DEF Held, OfResolve
<1>4. CASE AssignVersion(a)
  <2> DEFINE max == MaxInstanceVersion(n)
  <2>1. /\ c.pc = "version" /\ file' = file /\ head' = head
        /\ \/ End(a)
           \/ \E v \in (max + 1)..MaxVersion :
                proc' = [proc EXCEPT ![a].pc = "validate", ![a].version = v]
    BY <1>4 DEF AssignVersion, At, AllStays
  <2>2. DraftSettled(file, n) /\ c.read.open = FALSE
    BY <2>1 DEF Held, AfterRedraft
  <2>3. ASSUME NEW v \in (max + 1)..MaxVersion,
               proc' = [proc EXCEPT ![a].pc = "validate", ![a].version = v]
        PROVE  Result
    <3> DEFINE d == [c EXCEPT !.pc = "validate", !.version = v]
    <3>1. proc'[a] = d
      BY <1>1, <2>3
    <3>2. d.pc = "validate" /\ d.line = n /\ d.read = c.read /\ d.version = v
      BY <1>1 DEF Command
    <3> HIDE DEF d
    <3>3. \A w \in Version : head[n][w] # NoUnit => w < v
      <4> SUFFICES ASSUME NEW w \in Version, head[n][w] # NoUnit  PROVE w < v
        OBVIOUS
      <4>1. max \in 0..MaxVersion /\ \A x \in Version : x > max => head[n][x] = NoUnit
        BY <1>1, HighestInstance
      <4>2. w \in 1..MaxVersion /\ MaxVersion \in Nat
        BY AuthoringAssumption DEF Version
      <4> HIDE DEF max
      <4> QED  BY <2>3, <4>1, <4>2
    <3> QED  BY <1>1, <2>1, <2>2, <3>1, <3>2, <3>3 DEF Held, OfResolve
  <2> QED  BY <1>2, <2>1, <2>3
<1>5. CASE Validate(a)
  <2>1. /\ c.pc = "validate" /\ file' = file /\ head' = head /\ (End(a) \/ Goto(a, "put"))
    BY <1>5 DEF Validate, At, AllStays
  <2>2. ASSUME Goto(a, "put")  PROVE Result
    <3>1. PICK d : /\ proc'[a] = d /\ d.pc = "put" /\ d.line = n
                   /\ d.read = c.read /\ d.version = c.version
      BY <2>2, GotoHeld
    <3> QED  BY <1>1, <2>1, <3>1 DEF Held, OfResolve, AfterRedraft
  <2> QED  BY <1>2, <2>1, <2>2
<1>6. CASE PutUnit(a)
  <2> DEFINE v == c.version
  <2>1. c.pc = "put" /\ WriteUnit(n, v, c.read) /\ Goto(a, "remove")
    BY <1>6 DEF PutUnit, At
  <2>2. /\ v \in Version /\ c.read.open = FALSE
        /\ \A w \in Version : head[n][w] # NoUnit => w < v
    BY <1>1, <2>1 DEF HoldsOK, Held
  <2>3. \A w \in Version : w \in Nat
    BY AuthoringAssumption DEF Version
  <2>4. past[n][v] = {}
    BY <1>1, <2>2, <2>3 DEF DataOK
  <2>5. head' = [head EXCEPT ![n][v] = c.read]
    BY <2>1, <2>4 DEF WriteUnit
  <2>6. /\ head'[n][v] = c.read
        /\ \A w \in Version : w # v => head'[n][w] = head[n][w]
    BY <1>1, <2>2, <2>5 DEF DataOK
  <2>7. CurrentSettled(head', n)
    <3> SUFFICES ASSUME NEW x \in Version, head'[n][x] # NoUnit,
                        \A w \in Version : head'[n][w] # NoUnit => w <= x
                 PROVE  ~head'[n][x].open
      BY DEF CurrentSettled
    <3>1. c.read # NoUnit
      BY <1>1, <2>1, AuthoringAssumption DEF HoldsOK, Created
    <3>2. x = v
      <4>1. v <= x
        BY <2>2, <2>6, <3>1
      <4>2. x # v => x < v
        BY <2>2, <2>6
      <4> QED  BY <2>2, <2>3, <4>1, <4>2
    <3> QED  BY <2>2, <2>6, <3>2
  <2>8. PICK d : proc'[a] = d /\ d.pc = "remove" /\ d.line = n
    BY <2>1, GotoHeld
  <2> QED  BY <1>1, <2>7, <2>8 DEF Held, OfResolve, AfterRedraft
<1> QED  BY <1>3, <1>4, <1>5, <1>6

\* The steps of a resolution that only look.
LEMMA NoteHeld ==
  ASSUME AuthoringInv, NEW a \in Author, Held(file, head, proc[a]), proc[a].verb = "resolve",
         StatDraft(a) \/ Redraft(a) \/ CheckInstances(a) \/ ReadBase(a)
  PROVE  Held(file', head', proc'[a])
<1> DEFINE c == proc[a]
           n == c.line
           Result == Held(file', head', proc'[a])
<1>1. /\ c \in Command /\ StoreOK(head, c) /\ proc \in [Author -> Command]
      /\ DataOK(file, tickets, head, past) /\ n \in Note /\ n \in Line
  BY Fields, AuthoringAssumption DEF AuthoringInv, Held
<1>2. file' = file /\ head' = head
  BY DEF StatDraft, Redraft, CheckInstances, ReadBase, AllStays
<1>3. End(a) => Result
  BY EndHeld
<1>4. ASSUME NEW d, proc'[a] = d, d.line = n, d.pc \in {"create", "redraft"}
      PROVE  Result
  BY <1>1, <1>4 DEF Held, OfResolve, AfterRedraft
<1>5. ASSUME NEW d, proc'[a] = d, d.line = n, d.pc \in {"published", "base", "scan"},
             DraftSettled(file, n)
      PROVE  Result
  BY <1>1, <1>2, <1>5 DEF Held, OfResolve
<1>6. ASSUME NEW pc \in {"published", "base", "scan"}, Goto(a, pc), DraftSettled(file, n)
      PROVE  Result
  <2>1. PICK d : proc'[a] = d /\ d.pc = pc /\ d.line = n
    BY <1>6, GotoHeld
  <2> QED  BY <1>5, <1>6, <2>1
<1>7. ASSUME Goto(a, "resolved"), DraftSettled(file, n), CurrentSettled(head, n) \/ FirstSettled(head, n)
      PROVE  Result
  <2>1. PICK d : proc'[a] = d /\ d.pc = "resolved" /\ d.line = n
    BY <1>7, GotoHeld
  <2> QED  BY <1>1, <1>2, <1>7, <2>1 DEF Held, OfResolve
<1> SUFFICES Result
  OBVIOUS
<1> HIDE DEF Result
<1>8. CASE StatDraft(a)
  <2> DEFINE there == file[n] # Gone
             pc == IF there THEN "redraft" ELSE "published"
             d == [c EXCEPT !.pc = pc, !.drafted = there, !.stage = "draft"]
  <2>1. proc'[a] = d
    BY <1>1, <1>8 DEF StatDraft
  <2>2. ~there => DraftSettled(file, n)
    BY AuthoringAssumption DEF DraftSettled
  <2> HIDE DEF there
  <2>3. d.pc = pc /\ d.line = n
    BY <1>1 DEF Command
  <2> HIDE DEF d
  <2> QED  BY <1>4, <1>5, <2>1, <2>2, <2>3
<1>9. CASE Redraft(a)
  <2> DEFINE f == file[n]
             u == [f EXCEPT !.open = FALSE]
             d == [c EXCEPT !.pc = "rewrite", !.read = u]
  <2>1. \/ End(a)
        \/ Readable(n) /\ proc'[a] = d
        \/ ~f.open /\ Goto(a, "scan")
        \/ ~f.open /\ Goto(a, "published")
    BY <1>1, <1>9 DEF Redraft
  <2>2. Readable(n) => u.open = FALSE
    <3>1. Readable(n) => f \in Content
      BY <1>1, FileCreated
    <3> QED  BY <3>1 DEF Content
  <2>3. ~f.open => DraftSettled(file, n)
    BY DEF DraftSettled
  <2> HIDE DEF u, f
  <2>4. d.pc = "rewrite" /\ d.line = n /\ d.read = u
    BY <1>1 DEF Command
  <2> HIDE DEF d
  <2>5. Readable(n) /\ proc'[a] = d => Result
    BY <1>1, <2>2, <2>4 DEF Result, Held, OfResolve, AfterRedraft
  <2> QED  BY <1>3, <1>6, <2>1, <2>3, <2>5
<1>10. CASE CheckInstances(a)
  <2>1. /\ c.pc = "published"
        /\ \/ End(a)
           \/ OpenInstances(n) = {} /\ Goto(a, "resolved")
           \/ Goto(a, "base")
    BY <1>10 DEF CheckInstances, At
  <2>2. DraftSettled(file, n)
    BY <2>1 DEF Held, AfterRedraft
  <2>3. OpenInstances(n) = {} => CurrentSettled(head, n)
    BY DEF OpenInstances, Instances, CurrentSettled
  <2> QED  BY <1>3, <1>6, <1>7, <2>1, <2>2, <2>3
<1>11. CASE ReadBase(a)
  <2> DEFINE v == FirstInstance(n)
             u == head[n][v]
             t == <<[line |-> n, rels |-> u.rels]>>
             d == [c EXCEPT !.pc = "create", !.stage = "scaffold", !.todo = t]
  <2>1. /\ c.pc = "base"
        /\ proc'[a] = d \/ (~u.open /\ Goto(a, "resolved"))
    BY <1>1, <1>11 DEF ReadBase, At
  <2>2. DraftSettled(file, n)
    BY <2>1 DEF Held, AfterRedraft
  <2>3. ASSUME ~u.open  PROVE FirstSettled(head, n)
    <3>1. /\ v \in Version /\ head[n][v] # NoUnit
          /\ \A w \in Version : head[n][w] # NoUnit => v <= w
      BY <1>1, <2>1, LowestInstance DEF StoreOK
    <3> HIDE DEF v
    <3> SUFFICES ASSUME NEW x \in Version, head[n][x] # NoUnit,
                        \A w \in Version : head[n][w] # NoUnit => x <= w
                 PROVE  ~head[n][x].open
      BY DEF FirstSettled
    <3>2. x <= v /\ v <= x
      BY <3>1
    <3>3. x \in Nat /\ v \in Nat
      BY <3>1, AuthoringAssumption DEF Version
    <3>4. x = v
      BY <3>2, <3>3
    <3> QED  BY <2>3, <3>4
  <2> HIDE DEF t, u
  <2>4. d.pc = "create" /\ d.line = n
    BY <1>1 DEF Command
  <2> HIDE DEF d
  <2> QED  BY <1>4, <1>7, <2>1, <2>2, <2>3, <2>4
<1> QED  BY <1>8, <1>9, <1>10, <1>11

\* A resolution has no other steps.
LEMMA StepHeld ==
  ASSUME AuthoringInv, VerbInv, NEW a \in Author, Held(file, head, proc[a]),
         Step(a) \/ Crash(a) \/ CrashTorn(a)
  PROVE  Held(file', head', proc'[a])
<1>1. CASE proc[a].verb # "resolve"
  BY <1>1, OthersHold
<1>2. CASE proc[a].verb = "resolve"
  <2>1. proc[a].pc \in OfResolve
    BY <1>2 DEF Held
  <2>2. CASE /\ ~Create(a) /\ ~CreateFails(a) /\ ~Rewrite(a) /\ ~RemoveDraft(a) /\ ~Report(a)
             /\ ~Scan(a) /\ ~AssignVersion(a) /\ ~Validate(a) /\ ~PutUnit(a)
             /\ ~StatDraft(a) /\ ~Redraft(a) /\ ~CheckInstances(a) /\ ~ReadBase(a)
             /\ Step(a)
    BY <2>1, <2>2 DEF OfResolve, Step, Rollback, RolledBack, ListDrafts, CheckEdges, NextDraft,
                      ReadCurrent, RelateGate, Repoint, Reread, At
  <2> QED  BY <1>2, <2>2, FileHeld, PublishHeld, NoteHeld
<1> QED  BY <1>1, <1>2

LEMMA ResolverNext ==
  ASSUME OneResolver, AuthoringInv, VerbInv, ResolverInv, [Next]_vars
  PROVE  ResolverInv'
<1>1. CASE UNCHANGED vars
  BY <1>1 DEF vars, ResolverInv
<1>2. ASSUME NEW b \in Author, Begin(b) \/ Step(b) \/ Crash(b) \/ CrashTorn(b)
      PROVE  ResolverInv'
  <2>1. may' = may /\ may \in Sessions
    BY <1>2, EveryStepLeaves DEF AuthoringInv, StepLeaves
  <2>2. \A x \in Author \ {b} : proc'[x] = proc[x]
    BY <1>2, StepFollows, BeginFollows
  <2> SUFFICES ASSUME NEW a \in Author, "resolve" \in may[a]
               PROVE  /\ Held(file', head', proc'[a])
                      /\ \A x \in Author \ {a} : OutsiderOK(proc'[x])
    BY <2>1 DEF ResolverInv
  <2>3. Held(file, head, proc[a]) /\ \A x \in Author \ {a} : OutsiderOK(proc[x])
    BY DEF ResolverInv
  <2>4. CASE b = a
    <3>1. Held(file', head', proc'[a])
      BY <1>2, <2>3, <2>4, BeginHeld, StepHeld
    <3> QED  BY <2>2, <2>3, <2>4, <3>1
  <2>5. CASE b # a
    <3>1. OutsiderOK(proc[b]) /\ may[b] \subseteq {"new", "discard", "edit", "crash"}
      BY <2>1, <2>3, <2>5 DEF OneResolver
    <3>2. OutsiderOK(proc'[b]) /\ head' = head /\ \A n \in Note : CalmFile(n)
      BY <1>2, <3>1, OutsiderStep
    <3>3. Held(file', head', proc[a])
      BY <2>3, <3>2, HeldStays
    <3> QED  BY <2>2, <2>3, <2>5, <3>2, <3>3
  <2> QED  BY <2>4, <2>5
<1> QED  BY <1>1, <1>2 DEF Next

\* note_resolve.go:216-220: whatever the one author who resolves does with notes
\* and the store in between, and whatever the others, who write no notes and
\* publish nothing, save, discard or leave half written: a resolution that
\* succeeds has resolved the draft, and the current instance unless a resolved
\* first instance hides it.
THEOREM ResolutionsCoverTheLine == OneResolver /\ Spec => []ResolutionCoversLine
<1> SUFFICES ASSUME OneResolver  PROVE Spec => []ResolutionCoversLine
  OBVIOUS
<1>1. Init => ResolverInv
  <2> SUFFICES ASSUME Init  PROVE ResolverInv
    OBVIOUS
  <2>1. \A a \in Author : proc[a] = Idle
    BY DEF Init
  <2> HIDE DEF Idle
  <2> QED  BY <2>1, IdleHeld DEF ResolverInv
<1>2. AuthoringInv /\ VerbInv /\ ResolverInv /\ [Next]_vars => ResolverInv'
  BY ResolverNext
<1>3. AuthoringInv /\ VerbInv /\ ResolverInv => ResolutionCoversLine
  <2> SUFFICES ASSUME AuthoringInv, VerbInv, ResolverInv, NEW a \in Author,
                      proc[a].pc = "resolved"
               PROVE  LET n == proc[a].line
                          last == MaxInstanceVersion(n)
                      IN  /\ Readable(n) => ~file[n].open
                          /\ Published(n) /\ head[n][last].open =>
                               FirstInstance(n) # last /\ ~head[n][FirstInstance(n)].open
    BY DEF ResolutionCoversLine, At
  <2> DEFINE n == proc[a].line
             m == MaxInstanceVersion(n)
             v == FirstInstance(n)
  <2>1. proc[a].verb = "resolve" /\ "resolve" \in may[a]
    BY DEF VerbInv, VerbOK, Resolving
  <2>2. Held(file, head, proc[a])
    BY <2>1 DEF ResolverInv
  <2>3. /\ n \in Line /\ DraftSettled(file, n)
        /\ CurrentSettled(head, n) \/ FirstSettled(head, n)
    BY <2>1, <2>2, AuthoringAssumption DEF Held, AfterRedraft
  <2>4. Readable(n) => ~file[n].open
    BY <2>3, FileCreated DEF AuthoringInv, DraftSettled
  <2>5. ASSUME Published(n), head[n][m].open  PROVE v # m /\ ~head[n][v].open
    <3>1. /\ v \in Version /\ head[n][v] # NoUnit
          /\ \A w \in Version : head[n][w] # NoUnit => v <= w
      BY <2>3, <2>5, PublishedHas, LowestInstance
    <3>2. /\ m \in 0..MaxVersion /\ (m > 0 => m \in Version /\ head[n][m] # NoUnit)
          /\ \A w \in Version : w > m => head[n][w] = NoUnit
      BY <2>3, HighestInstance
    <3>3. \A w \in Version : w \in Nat /\ w > 0
      BY AuthoringAssumption DEF Version
    <3>4. m \in Nat /\ MaxVersion \in Nat
      BY <3>2, AuthoringAssumption
    <3> HIDE DEF m, v
    <3>5. m > 0 /\ \A w \in Version : head[n][w] # NoUnit => w <= m
      BY <3>1, <3>2, <3>3, <3>4
    <3>6. ~CurrentSettled(head, n)
      BY <2>5, <3>2, <3>5 DEF CurrentSettled
    <3>7. ~head[n][v].open
      BY <2>3, <3>1, <3>6 DEF FirstSettled
    <3> QED  BY <2>5, <3>7
  <2> QED  BY <2>4, <2>5
<1> QED  BY <1>1, <1>2, <1>3, AuthoringInvHolds, VerbInvHolds, PTL DEF Spec
=============================================================================
