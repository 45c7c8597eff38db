CONSTANTS
  r1 = r1
  r2 = r2
  NI = NI
  Runs = {r1}
  Ids = {1, 2, 3}
  Leftover = {1}
  Subs <- MCSubs
  NoId <- NI
SPECIFICATION Spec
INVARIANTS
  TypeOK
  OwnLayout
