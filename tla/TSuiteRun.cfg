CONSTANTS
  h1 = h1
  h2 = h2
  m1 = m1
  m2 = m2
  i1 = i1
  NoKey = NoKey
  NoTimeout = NoTimeout
  Hosts <- MCHosts
  Mds <- MCMds
  Ion <- MCIon
  HostOf <- MCHostOf
  CtlDir <- MCCtlPrivate
  Leftover <- MCNoLeftover
  Timeouts = {NoTimeout, 1, 2}
  PollCap = 2
SPECIFICATION Spec
INVARIANTS
  TypeOK
  AssertionsHold
  KeyAgreement
  KeysClosedOnDone
PROPERTIES
  ReadyIsOwn
  PollingEnds
  RunEnds
  PipelineRefined
