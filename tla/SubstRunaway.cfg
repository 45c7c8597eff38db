CONSTANTS
  NK = NK
  NoKey <- NK
  BuildInit <- MCBuildPlain
  SrcInit <- MCSrcLoop
  MaxPasses = 16
  MaxLen = 40
SPECIFICATION Spec
INVARIANTS
  CycleBound
CHECK_DEADLOCK FALSE
