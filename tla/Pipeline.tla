------------------------------ MODULE Pipeline ------------------------------
(***************************************************************************)
(* What the orchestrator promises (design sections 2 and 7): the build    *)
(* and launch steps of the plan are carried out one at a time and in       *)
(* order, a launch step counts as done only once that resource's daemon   *)
(* is up, and the run either completes the whole plan or stops at its     *)
(* first fatal error; there is no partial success.                        *)
(***************************************************************************)
EXTENDS Naturals, Sequences

CONSTANTS
  Plan,  \* the steps in run order, each [op |-> "build" or "launch", res |-> r]
  Res    \* the resources

VARIABLES
  progress,  \* the number of steps of the plan carried out
  status,    \* "running", "done" or "fatal"
  up         \* the resources whose daemon is up

pvars == <<progress, status, up>>

PInit ==
  /\ progress = 0
  /\ status = "running"
  /\ up = {}

\* The next step of the plan is carried out; the last one ends the run.
Complete ==
  /\ status = "running"
  /\ progress < Len(Plan)
  /\ Plan[progress + 1].op = "launch" => Plan[progress + 1].res \in up
  /\ progress' = progress + 1
  /\ status' = IF progress + 1 = Len(Plan) THEN "done" ELSE "running"
  /\ UNCHANGED up

\* A fatal error ends the run where it is.
Fail ==
  /\ status = "running"
  /\ status' = "fatal"
  /\ UNCHANGED <<progress, up>>

\* A daemon comes up.
Up(r) ==
  /\ r \notin up
  /\ up' = up \cup {r}
  /\ UNCHANGED <<progress, status>>

PNext == Complete \/ Fail \/ \E r \in Res : Up(r)

PSpec == PInit /\ [][PNext]_pvars
=============================================================================
