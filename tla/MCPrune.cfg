CONSTANTS
  Module <- MCModule
  Index = "index"
  File <- MCFile
  Declares <- MCDeclares
  Spelled <- MCSpelled
  NumSources = 3
  Package = {1}
  Trees <- MCTrees
  Outputs <- MCOutputs
  None = None
  MaxEdits = 2
SPECIFICATION Spec
CHECK_DEADLOCK FALSE
INVARIANT KeepsOnlyTheSourced
PROPERTY RemovesOnlyTheSourceless
PROPERTY LeavesOthersAlone
