CONSTANTS
  NV = NV
  MG = MG
  NoVal <- NV
  Mangled <- MG
  Files <- MCHexId
SPECIFICATION Spec
INVARIANTS
  ParseAgrees
