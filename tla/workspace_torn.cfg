SPECIFICATION Spec
CONSTANTS
  Run = {r1, r2}
  Dir = {"d1", "d2", "sub"}
  Above <- MCAbove
  Base <- MCBase
  Project = {"p", "a"}
  Name = {"a", "b", "runtime"}
  Namespace = {"n1", "n2"}
  Reserved = "runtime"
  Databases <- MCDatabases
  Trees <- MCTrees
  Commands <- MCCommands
  Edits <- MCEdits
  Unset = Unset
  NoRow = NoRow
  NoFile = NoFile
  Torn = Torn
  MaxActions = 3
  MaxCrashes = 1
INVARIANT
  EnsureIsIdempotent
SYMMETRY Processes
CHECK_DEADLOCK FALSE
