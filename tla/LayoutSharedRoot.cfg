CONSTANTS
  r1 = r1
  r2 = r2
  NI = NI
  Runs = {r1, r2}
  Ids = {1, 2}
  Leftover = {}
  Subs <- MCSubs
  NoId <- NI
SPECIFICATION Spec
INVARIANTS
  OwnLayout
