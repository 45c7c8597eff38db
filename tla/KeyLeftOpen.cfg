CONSTANTS
  h1 = h1
  h2 = h2
  m1 = m1
  m2 = m2
  i1 = i1
  NoKey = NoKey
  NoTimeout = NoTimeout
  Hosts <- MCHosts
  Mds <- MCMds
  Ion <- MCIon
  HostOf <- MCHostOf
  PollCap = 2
  CtlDir <- MCCtlPrivate
  Leftover <- MCNoLeftover
  Timeouts = {2}
SPECIFICATION Spec
INVARIANTS
  KeyNotLeftOpen
