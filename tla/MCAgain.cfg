CONSTANTS
  Name <- MCName
  Text <- MCText
  NumSources = 2
  Revision <- MCRevision
  None = None
  Refused = Refused
  Mib <- MCMib
  Fake = {}
  Plain = Plain
  Foreign = Foreign
  Calls <- MCAgain
  Disks <- MCDisks
  MaxCalls = 2
SPECIFICATION FairSpec
CHECK_DEADLOCK FALSE
INVARIANT UntouchedIsCurrent
INVARIANT NoNeedlessRewrite
PROPERTY OnlyTheWriterWrites
PROPERTY Returns
