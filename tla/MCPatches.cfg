\* Layouts of an IMPORTS clause, texts a publisher moves, patches people write.
SPECIFICATION Spec
CONSTANTS
  Context = 1
  Home <- MCHome
  BaseModules <- MCBaseModules
  FileOrder <- MCFileOrder
  Published <- MCPublished
  Mended <- MCMended
  Gone = Gone
INVARIANT CleanMeansStaged
PROPERTY SettlesWhatItTouches
