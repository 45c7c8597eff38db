CONSTANTS
  Confs <- MCConfs
  Builds = {"src"}
SPECIFICATION Spec
INVARIANTS
  ChecksSuffice
PROPERTIES
  ChecksRefined
