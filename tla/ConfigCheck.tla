----------------------------- MODULE ConfigCheck -----------------------------
(***************************************************************************)
(* What run.py's configuration checking promises: given a configuration   *)
(* file and a build, the run is either refused with a diagnostic or the   *)
(* test suite starts, and it starts only on a file that sets every option *)
(* the build requires.  Starting may only add options (defaults); it never *)
(* ends in an uncaught KeyError.                                           *)
(***************************************************************************)
CONSTANTS
  Confs,    \* the configuration files: section -> options
  Builds,   \* the values of --build
  Need(_)   \* build -> (section -> options it requires)

VARIABLES
  conf,     \* the configuration
  build,    \* the build
  status    \* "checking", "started" or "exit"

cvars == <<conf, build, status>>

\* Every section the build needs is there with every option it needs.
Complete(c, b) ==
  \A s \in DOMAIN Need(b) : s \in DOMAIN c /\ Need(b)[s] \subseteq c[s]

CInit ==
  /\ conf \in Confs
  /\ build \in Builds
  /\ status = "checking"

\* The run is refused: unreadable file, or a missing section or option.
Refuse ==
  /\ status = "checking"
  /\ status' = "exit"
  /\ UNCHANGED <<conf, build>>

\* The suite starts on a complete file; defaults only add options.
Start ==
  /\ status = "checking"
  /\ Complete(conf, build)
  /\ status' = "started"
  /\ DOMAIN conf' = DOMAIN conf
  /\ \A s \in DOMAIN conf : conf[s] \subseteq conf'[s]
  /\ UNCHANGED build

CNext == Refuse \/ Start

CSpec == CInit /\ [][CNext]_cvars
=============================================================================
