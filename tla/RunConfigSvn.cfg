CONSTANTS
  Confs <- MCConfs
  Builds = {"src", "svn"}
SPECIFICATION Spec
INVARIANTS
  ChecksSuffice
