SPECIFICATION Spec
CONSTANTS
  Module <- Modules
  Imports <- ImportsOf
  Spaces <- SpaceList
  Holds <- HoldsOf
  Standard = {"standards"}
  Bundled <- Base
  BaseMibs <- BaseOf
  Settings <- Builds
  MaxRuns = 2
  MaxGone = 1
  None = None
INVARIANTS
  NothingUnpublished
  BrokenLeftOut
  OneModuleSet
  ScratchGone
CHECK_DEADLOCK FALSE
