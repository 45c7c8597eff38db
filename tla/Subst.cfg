CONSTANTS
  NK = NK
  NoKey <- NK
  BuildInit <- MCBuildPlain
  SrcInit <- MCSrcPlain
  MaxPasses = 16
  MaxLen = 40
SPECIFICATION Spec
INVARIANTS
  PathsResolved
  ResolvedAsDesigned
  CycleBound
PROPERTIES
  Terminates
