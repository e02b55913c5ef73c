\* One command, and a note that is published while its gates are evaluated.
SPECIFICATION TransitionSpec
CONSTANTS
  i1 = i1  q1 = q1  q2 = q2  q3 = q3  q4 = q4
  c1 = c1  c2 = c2  c3 = c3  c4 = c4
  d1 = d1  d2 = d2  n1 = n1  n2 = n2  ann = ann  bob = bob  r1 = r1  r2 = r2
  Runtime = runtime  NoUnit = NoUnit  NoForm = NoForm
  Item = {i1}  Plan = {}  Ctr = {}  Adr = {}
  Repo = {r1}  Author = {ann}  MaxVersion = 1  MaxLog = 4
  PlanOf <- Empty  Deps <- Empty  Ticket = {}  Supersedes = {}
  Note = {n1, n2}  NoteOn <- NotesOn  Implementer = {n1}  Posted = {n2}
  Births <- OnlyItemBorn  Fresh = {}  Acts <- AnyRepo  ReadFaults = FALSE
INVARIANT DoneSeesEveryNote
\* Every lifecycle ends.
CHECK_DEADLOCK FALSE
