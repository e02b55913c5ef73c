\* Two instance versions of one numbered line in one project.
SPECIFICATION Spec
CONSTANTS
  a1 = a1  a2 = a2  a3 = a3  b1 = b1  b2 = b2  c1 = c1
  fa = fa  fb = fb  fc = fc  la = la  lb = lb  lc = lc
  ticket = ticket  note = note
  Payload = {a1, a2, a3, b1, b2}
  Form = {fa, fb}
  Line = {la}
  Project = {p1}
  Repo = {runtime, r1}
  Runtime = runtime
  Group = {ticket}
  NoGroup = NoGroup
  FormOf <- TwoFormOf
  LineOf <- VersionLineOf
  GroupOf <- TwoGroupOf
  Root = Root  Absent = Absent  NoRef = NoRef  NoBatch = NoBatch
  Legacy = {}
  LegacyRepo = r1
  LegacyProject = p1
  MaxBatch = 0
INVARIANT OneNumberPerLine
