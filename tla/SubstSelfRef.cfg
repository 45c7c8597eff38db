CONSTANTS
  NK = NK
  NoKey <- NK
  BuildInit <- MCBuildPlain
  SrcInit <- MCSrcSelf
  MaxPasses = 16
  MaxLen = 40
SPECIFICATION Spec
INVARIANTS
  PathsResolved
