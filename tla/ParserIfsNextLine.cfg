CONSTANTS
  NV = NV
  MG = MG
  NoVal <- NV
  Mangled <- MG
  Files <- MCIfsNextLine
SPECIFICATION Spec
INVARIANTS
  ParseAgrees
