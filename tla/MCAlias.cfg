CONSTANTS
  Name <- MCName
  Text <- MCText
  NumSources = 2
  Revision <- MCRevision
  None = None
  Refused = Refused
  Mib <- MCMib
  Fake = {}
  Plain = Plain
  Foreign = Foreign
  Calls <- MCCalls
  Disks <- MCDisks
  MaxCalls = 1
SPECIFICATION Spec
CHECK_DEADLOCK FALSE
INVARIANT NoDepsWritesRequests
INVARIANT GeneratedFromItsTable
