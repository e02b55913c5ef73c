\* Commands one after the other, over one of four sets of lines: three
\* containers and their plans in two repositories, with a second instance of a
\* container published at any time; a work item with its container and plan,
\* and two notes that are drafted, resolved and published at any time; a
\* container and its plan, of which a second instance is published; two
\* decisions, the superseding one of which is published later.
SPECIFICATION TransitionSpec
CONSTANTS
  i1 = i1  q1 = q1  q2 = q2  q3 = q3  q4 = q4
  c1 = c1  c2 = c2  c3 = c3  c4 = c4
  d1 = d1  d2 = d2  n1 = n1  n2 = n2  ann = ann  bob = bob  r1 = r1  r2 = r2
  Runtime = runtime  NoUnit = NoUnit  NoForm = NoForm
  Item = {i1}  Plan = {q1, q2, q3, q4}  Ctr = {c1, c2, c3, c4}  Adr = {d1, d2}
  Repo = {r1, r2}  Author = {ann}  MaxVersion = 2  MaxLog = 4
  PlanOf <- SerialPlanOf  Deps <- SerialDeps  Ticket <- SerialTicket  Supersedes <- D2OverD1
  Note = {n1, n2}  NoteOn <- NotesOn  Implementer = {n1}  Posted = {n1, n2}
  Births <- SerialBirths  Fresh <- SerialFresh  Acts <- FirstRepo  ReadFaults = FALSE
INVARIANTS OneActivePerRepo ActiveClosuresDisjoint DoneSeesOpenNotes SupersededIsDone
PROPERTIES CompletedWhenDone
\* Every lifecycle ends.
CHECK_DEADLOCK FALSE
