SPECIFICATION Spec
CONSTANTS
  Malformed = Malformed
  NoFile = NoFile
  Repositories <- NoRepositories
  Attached <- Logo
  Received <- Replacing
  Requests <- MCRequests
  Trees <- MCTrees
  Edits <- MCEdits
  MaxExports = 1
  MaxImports = 1
  MaxEdits = 1
  MaxCrashes = 1
INVARIANTS
  AnyCommitKeepsGate
CHECK_DEADLOCK FALSE
