\* One repository line with three payloads, so that a reference can leave a
\* payload, be moved back and be overtaken by a stale re-seed; three numbered
\* lines and two projects, so that a row can take its number to another project
\* while the first one allocates the next; batches of two.
SPECIFICATION Spec
CONSTANTS
  a1 = a1  a2 = a2  a3 = a3  b1 = b1  b2 = b2  c1 = c1
  fa = fa  fb = fb  fc = fc  la = la  lb = lb  lc = lc
  ticket = ticket  note = note
  Payload = {a1, a2, a3, b1, c1}
  Form = {fa, fb, fc}
  Line = {la, lb, lc}
  Project = {p1, p2}
  Repo = {runtime, r1}
  Runtime = runtime
  Group = {ticket}
  NoGroup = NoGroup
  FormOf <- LineageFormOf
  LineOf <- LineageLineOf
  GroupOf <- LineageGroupOf
  Root = Root  Absent = Absent  NoRef = NoRef  NoBatch = NoBatch
  Legacy = {a1}
  LegacyRepo = r1
  LegacyProject = p1
  MaxBatch = 2
INVARIANTS TypeOK ArchiveSound HistoryIsLinked NumbersSound
PROPERTIES WrittenOnce IsAnArchive
