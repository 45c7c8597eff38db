----------------------------- MODULE MC_RunConfig ---------------------------
EXTENDS RunConfig

\* Every section and option main or TSuite names, and the optional timeout.
MCFull ==
  [s \in {"tsuite", "slash2", "tests", "source", "svn"} |->
     CASE s = "tsuite" -> {"rootdir", "logbase"}
       [] s = "slash2" -> {"conf", "mds_gdb", "ion_gdb", "mnt_gdb", "timeout"}
       [] s = "tests" -> {"testdir", "excluded"}
       [] s = "source" -> {"srcroot"}
       [] s = "svn" -> {"svnroot"}]

\* The complete file, and every file with one section or one option
\* left out.
MCConfs ==
  {MCFull}
  \cup {[s \in DOMAIN MCFull \ {x} |-> MCFull[s]] : x \in DOMAIN MCFull}
  \cup UNION {{[MCFull EXCEPT ![x] = @ \ {o}] : o \in MCFull[x]} : x \in DOMAIN MCFull}
=============================================================================
