CONSTANTS
  NV = NV
  MG = MG
  NoVal <- NV
  Mangled <- MG
  Files <- MCUnterminated
SPECIFICATION Spec
INVARIANTS
  ParseAgrees
