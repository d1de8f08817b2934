CONSTANTS
  Name <- MCName
  Text <- MCText
  NumSources = 3
  Revision <- MCRevision
  None = None
  Refused = Refused
  Mib <- MCMib
  Fake = {}
  Plain = Plain
  Foreign = Foreign
  Calls <- MCCalls
  Disks <- MCDisks
  MaxCalls = 1
SPECIFICATION Spec
CHECK_DEADLOCK FALSE
INVARIANT CleanOutput
INVARIANT OmittedForCause
INVARIANT ReportMatchesOutput
INVARIANT EveryRequestAnswered
INVARIANT ShadowsAreTold
INVARIANT WritesAsExpected
