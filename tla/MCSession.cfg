CONSTANTS
  Process <- MCProcess
  None = None
  Text <- MCText
  Content <- MCContent
  Relaxed <- MCRelaxed
  InMemory <- MCInMemory
  Bound = 2
  MaxAsks = 4
  MaxKills = 1
SPECIFICATION Spec
INVARIANTS
  EntriesAreParses
  KeepsTheMostRecent
PROPERTIES
  OnlyErrorsLinger
CHECK_DEADLOCK FALSE
