\* A second instance of an active container is published.
SPECIFICATION TransitionSpec
CONSTANTS
  i1 = i1  q1 = q1  q2 = q2  q3 = q3  q4 = q4
  c1 = c1  c2 = c2  c3 = c3  c4 = c4
  d1 = d1  d2 = d2  n1 = n1  n2 = n2  ann = ann  bob = bob  r1 = r1  r2 = r2
  Runtime = runtime  NoUnit = NoUnit  NoForm = NoForm
  Item = {i1}  Plan = {q1}  Ctr = {c1}  Adr = {}
  Repo = {r1}  Author = {ann}  MaxVersion = 2  MaxLog = 1
  PlanOf <- OnePlanOf  Deps <- OneDeps  Ticket <- OneTicket  Supersedes = {}
  Note = {}  NoteOn <- Empty  Implementer = {}  Posted = {}
  Births <- OnlyUnreadBorn  Fresh <- NextCtr  Acts <- AnyRepo  ReadFaults = FALSE
PROPERTY UnwarnedIsRegistered
\* Every lifecycle ends.
CHECK_DEADLOCK FALSE
