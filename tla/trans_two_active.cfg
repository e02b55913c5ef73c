\* Two commands at once in one repository and on one plan.  TLC stops at the
\* first violation: with -continue it reports one of each property.
SPECIFICATION TransitionSpec
CONSTANTS
  i1 = i1  q1 = q1  q2 = q2  q3 = q3  q4 = q4
  c1 = c1  c2 = c2  c3 = c3  c4 = c4
  d1 = d1  d2 = d2  n1 = n1  n2 = n2  ann = ann  bob = bob  r1 = r1  r2 = r2
  Runtime = runtime  NoUnit = NoUnit  NoForm = NoForm
  Item = {}  Plan = {q1}  Ctr = {c1, c2}  Adr = {}
  Repo = {r1}  Author = {ann, bob}  MaxVersion = 1  MaxLog = 0
  PlanOf <- SharedPlanOf  Deps <- OneDeps  Ticket = {}  Supersedes = {}
  Note = {}  NoteOn <- Empty  Implementer = {}  Posted = {}
  Births <- OnlySharedBorn  Fresh = {}  Acts <- AnyRepo  ReadFaults = FALSE
INVARIANT OneActivePerRepo
PROPERTY HistoryKept
\* Every lifecycle ends.
CHECK_DEADLOCK FALSE
