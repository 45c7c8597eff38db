\* A topology with MDSes and no ION: run.py carries out every step of the
\* plan, then build_ion indexes self.sl2objects["ion"] and the run stops.
CONSTANTS
  h1 = h1
  h2 = h2
  m1 = m1
  m2 = m2
  i1 = i1
  NoKey = NoKey
  NoTimeout = NoTimeout
  Hosts <- MCHosts
  Mds <- MCMds
  Ion <- MCNoIon
  HostOf <- MCHostOfNoIon
  CtlDir <- MCCtlPrivate
  Leftover <- MCNoLeftover
  Timeouts = {NoTimeout, 1, 2}
  PollCap = 2
SPECIFICATION Spec
PROPERTIES
  PipelineRefined
