SPECIFICATION Spec
CONSTANTS
  Malformed = Malformed
  NoFile = NoFile
  Repositories <- NoRepositories
  Attached <- Logo
  Received <- TwoUnits
  Requests <- MCRequests
  Trees <- MCTrees
  Edits <- MCEdits
  MaxExports = 1
  MaxImports = 1
  MaxEdits = 1
  MaxCrashes = 1
INVARIANTS
  ImportedIsThere
CHECK_DEADLOCK FALSE
