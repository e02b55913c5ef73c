SPECIFICATION Spec
CONSTANTS
  Run = {r1, r2}
  Dir = {"d1", "d2", "sub"}
  Above <- MCAbove
  Base <- MCBase
  Project = {"p", "a"}
  Name = {"a", "b", "runtime"}
  Namespace = {"n1", "n2"}
  Reserved = "runtime"
  Databases <- Current
  Trees <- MovedTrees
  Commands <- MCCommands
  Edits <- NoEdits
  Unset = Unset
  NoRow = NoRow
  NoFile = NoFile
  Torn = Torn
  MaxActions = 2
  MaxCrashes = 1
INVARIANT
  AlignedAgrees
SYMMETRY Processes
CHECK_DEADLOCK FALSE
