\* Two commands at once: over two containers of one plan, with reads that fail,
\* or over one work item whose note is drafted, resolved and published in
\* between.
SPECIFICATION TransitionSpec
CONSTANTS
  i1 = i1  q1 = q1  q2 = q2  q3 = q3  q4 = q4
  c1 = c1  c2 = c2  c3 = c3  c4 = c4
  d1 = d1  d2 = d2  n1 = n1  n2 = n2  ann = ann  bob = bob  r1 = r1  r2 = r2
  Runtime = runtime  NoUnit = NoUnit  NoForm = NoForm
  Item = {i1}  Plan = {q1}  Ctr = {c1, c2}  Adr = {}
  Repo = {r1}  Author = {ann, bob}  MaxVersion = 1  MaxLog = 2
  PlanOf <- SharedPlanOf  Deps <- OneDeps  Ticket = {}  Supersedes = {}
  Note = {n1}  NoteOn <- OneNoteOn  Implementer = {n1}  Posted = {n1}
  Births <- ParallelBirths  Fresh = {}  Acts <- AnyRepo  ReadFaults = TRUE
INVARIANTS TransitionTypeOK LogsReplay ActiveHasLock
SYMMETRY AuthorSymmetry
\* Every lifecycle ends.
CHECK_DEADLOCK FALSE
