\* The comment that a stale re-seed never regresses a reference, checked of
\* forms a repoint has moved back too.
SPECIFICATION Spec
CONSTANTS
  a1 = a1  a2 = a2  a3 = a3  b1 = b1  b2 = b2  c1 = c1
  fa = fa  fb = fb  fc = fc  la = la  lb = lb  lc = lc
  ticket = ticket  note = note
  Payload = {a1, a2, a3}
  Form = {fa}
  Line = {la}
  Project = {p1}
  Repo = {runtime, r1}
  Runtime = runtime
  Group = {ticket}
  NoGroup = NoGroup
  FormOf <- RewindFormOf
  LineOf <- RewindLineOf
  GroupOf <- RewindGroupOf
  Root = Root  Absent = Absent  NoRef = NoRef  NoBatch = NoBatch
  Legacy = {}
  LegacyRepo = r1
  LegacyProject = p1
  MaxBatch = 0
INVARIANT StaleReseedInert
