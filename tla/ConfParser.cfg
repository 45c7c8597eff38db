CONSTANTS
  NV = NV
  MG = MG
  NoVal <- NV
  Mangled <- MG
  Files <- MCWellFormed
SPECIFICATION Spec
INVARIANTS
  TypeOK
  ParseAgrees
