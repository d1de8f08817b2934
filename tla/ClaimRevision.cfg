SPECIFICATION Spec
CONSTANTS
  None = None
  Rank <- CRank
  Canonical <- CCanonical
  Always <- CAlways
  Rewritten <- CRewritten
  FakeName <- CFakeName
  Texts <- CTexts
  MaxReads = 3
INVARIANTS
  RevisionIsOwn
CHECK_DEADLOCK FALSE
