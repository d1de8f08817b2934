SPECIFICATION Spec
CONSTANTS
  Base = 4
  MaxWidth = 2
  PageSize = 2
  Minimum = 1
  Module <- Modules
  Tier <- TierOf
  Rfc <- RfcOf
  Enterprises <- EnterpriseRoot
  SmiRegistry <- Registry
  Holders <- Held
  Cited <- CitedArcs
  Spelling <- Names3
  Corpora <- Corpora3
  MaxBuilds = 2
INVARIANTS
  OwnerIsBest
  SpeakerIsLatest
  ClosureIsLeast
  AnchorsAnswer
  DbSound
  WalkInOrder
  BucketsPlace
  LinksResolve
PROPERTY FrozenStays
CHECK_DEADLOCK FALSE
