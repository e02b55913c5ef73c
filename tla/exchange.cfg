SPECIFICATION Spec
CONSTANTS
  Malformed = Malformed
  NoFile = NoFile
  Repositories <- MCRepositories
  Attached <- Logo
  Received <- MCReceived
  Requests <- MCRequests
  Trees <- MCTrees
  Edits <- MCEdits
  MaxExports = 1
  MaxImports = 2
  MaxEdits = 1
  MaxCrashes = 1
INVARIANTS
  LoadedIsExported
  AuthorKept
  CleanRefusal
  RoundTrip
  CommitKeepsGate
PROPERTIES
  ImportEnds
CHECK_DEADLOCK FALSE
