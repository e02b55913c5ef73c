\* Two trees of one project that carry the same identity; adoptions, snapshot
\* and docs pulls of both at once, with repoints in between.
SPECIFICATION SyncSpec
CONSTANTS
  a1 = a1  a2 = a2  b1 = b1  fa = fa  fb = fb  la = la  lb = lb
  ticket = ticket  p1 = p1  p2 = p2  r1 = r1  r2 = r2  t1 = t1  t2 = t2  s1 = s1  s2 = s2
  Payload = {a1, a2}
  Form = {fa}
  Line = {la, lb}
  Project = {p1}
  Repo = {runtime, r1, r2}
  Runtime = runtime
  Group = {ticket}
  NoGroup = NoGroup
  FormOf <- OneFormOf
  LineOf <- OneLineOf
  GroupOf <- OneGroupOf
  Root = Root  Absent = Absent  NoRef = NoRef  NoBatch = NoBatch
  Legacy = {}
  LegacyRepo = r1
  LegacyProject = p1
  MaxBatch = 0
  Tree = {t1, t2}
  TreeRepo <- TwoTreeRepo
  TreeProject <- TwoTreeProject
  Docs <- DocsBoth
  NoPackage = NoPackage
  Remote <- RemoteA
  Run = {s1, s2}
  WorksIn <- EachRun
  Modes <- PullModes
  Rewindable = {fa}
  Header = Header  NoDir = NoDir  NoDigest = NoDigest
INVARIANTS SkipLosesNothing
PROPERTIES AdoptedOnce
