\* Two pushes of one working tree at once.
SPECIFICATION SyncSpec
CONSTANTS
  a1 = a1  a2 = a2  b1 = b1  fa = fa  fb = fb  la = la  lb = lb
  ticket = ticket  p1 = p1  p2 = p2  r1 = r1  r2 = r2  t1 = t1  t2 = t2  s1 = s1  s2 = s2
  Payload = {a1, b1}
  Form = {fa, fb}
  Line = {la, lb}
  Project = {p1}
  Repo = {runtime, r1}
  Runtime = runtime
  Group = {ticket}
  NoGroup = NoGroup
  FormOf <- PairFormOf
  LineOf <- MCLineOf
  GroupOf <- MCGroupOf
  Root = Root  Absent = Absent  NoRef = NoRef  NoBatch = NoBatch
  Legacy = {}
  LegacyRepo = r1
  LegacyProject = p1
  MaxBatch = 0
  Tree = {t1}
  TreeRepo <- OneTreeRepo
  TreeProject <- OneTreeProject
  Docs <- DocsA1
  NoPackage = NoPackage
  Remote <- RemoteA
  Run = {s1, s2}
  WorksIn <- TwoRuns
  Modes <- PushModes
  Rewindable = {}
  Header = Header  NoDir = NoDir  NoDigest = NoDigest
INVARIANT SnapshotWhole
