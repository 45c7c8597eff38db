CONSTANTS
  NV = NV
  MG = MG
  NoVal <- NV
  Mangled <- MG
  Files <- MCTwoSites
SPECIFICATION Spec
INVARIANTS
  ParseAgrees
