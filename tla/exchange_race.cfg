SPECIFICATION Spec
CONSTANTS
  Malformed = Malformed
  NoFile = NoFile
  Repositories <- NoRepositories
  Attached <- Logo
  Received <- MCReceived
  Requests <- MCRequests
  Trees <- MCTrees
  Edits <- Clash
  MaxExports = 1
  MaxImports = 1
  MaxEdits = 1
  MaxCrashes = 1
INVARIANTS
  ExchangeTypeOK
  AuthorKept
CHECK_DEADLOCK FALSE
