CONSTANTS
  bare = bare
  py = py
  t1 = t1
  t2 = t2
  None = None
  Name <- MCName
  Text <- MCText
  Kind <- MCKind
  SourceTime <- MCSourceTime
  Beside <- MCBeside
  Package <- MCPackage
  StubLists <- MCStubLists
  Process = {p1, p2}
  MaxTime = 1
  MaxPuts = 1
  MaxMishaps = 2
SPECIFICATION Spec
INVARIANTS LeftoversExplained
PROPERTIES KeptIsCurrent ImplementsAtomicStore
CHECK_DEADLOCK FALSE
