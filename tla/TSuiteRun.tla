----------------------------- MODULE TSuiteRun -----------------------------
(***************************************************************************)
(* One run of the SLASH2 test suite after the topology has been parsed:   *)
(* the pipeline of run.py (build the MDS resources, launch them, build     *)
(* the IONs, launch them), with the build step of tsuite.py and the        *)
(* launch step of managers/sl2gen.py (screen session, launch check,        *)
(* readiness polling, authbuf key acquisition and distribution).          *)
(*                                                                         *)
(* The orchestrator is a single thread; what runs concurrently with it    *)
(* are the remote screen sessions and the daemons inside them, modelled   *)
(* as environment actions that may fire between any two of its steps.    *)
(***************************************************************************)
EXTENDS Naturals, Integers, Sequences, FiniteSets, Functions

CONSTANTS
  Hosts,      \* remote hosts named by the resources' ifs directives
  Mds,        \* registry list sl2objects["mds"], in topology-file order
  Ion,        \* registry list sl2objects["ion"], in topology-file order
  HostOf,     \* resource -> host (first host of its ifs directive)
  CtlDir,     \* host -> the directory build_dirs["ctl"] names on that host
  Timeouts,   \* the values conf["slash2"]["timeout"] may hold
  NoTimeout,  \* run.py stores None when the timeout key is absent
  Leftover,   \* host -> screen sessions already present before the run
  PollCap,    \* bound at which the poll counter saturates
  NoKey       \* no authbuf.key file

Res == Range(Mds) \cup Range(Ion)
Roles == {"mds", "ion"}
List(role) == IF role = "mds" THEN Mds ELSE Ion
RoleOf(r) == IF r \in Range(Mds) THEN "mds" ELSE "ion"
Dirs == Range(CtlDir)

\* A key file is identified by the host whose daemon generated it.
Keys == Hosts \cup {NoKey}
Modes == {"0400", "0666"}

\* Screen session names: ts.<role>.<id> for builds, sl.<bin>.<id> for launches,
\* and the suffixes the session wrapper appends when a command ends badly.
SessNames == {"ts", "sl"} \X Res
Suffixes == {"", "-error", "-timed"}
Screens == SessNames \X Suffixes
TsName(r) == <<"ts", r>>
SlName(r) == <<"sl", r>>

\* res_bin_type of each role and the control sockets the daemons create.
Bin(role) == IF role = "mds" THEN "slashd" ELSE "sliod"
Socks == [bin : {"slashd", "sliod"}, host : Hosts]

PosTimeouts == {t \in Timeouts : t \in Nat \ {0}}

ASSUME ConstantsAssumption ==
  /\ Mds \in Seq(Res) /\ Ion \in Seq(Res)
  /\ IsInjective(Mds) /\ IsInjective(Ion)
  /\ Range(Mds) \cap Range(Ion) = {}
  /\ HostOf \in [Res -> Hosts]
  /\ CtlDir \in [Hosts -> Dirs]
  /\ NoKey \notin Hosts
  /\ PollCap \in Nat
  /\ Timeouts \subseteq Int \cup {NoTimeout}
  /\ NoTimeout \notin Int
  /\ \A t \in PosTimeouts : t <= PollCap
  /\ Leftover \in [Hosts -> SUBSET Screens]

(***************************************************************************)
(* run.py main: build_mds, launch_mds, build_ion, launch_ion.             *)
(***************************************************************************)
Stages == << [op |-> "build", role |-> "mds"], [op |-> "launch", role |-> "mds"],
             [op |-> "build", role |-> "ion"], [op |-> "launch", role |-> "ion"] >>

FirstStep(op) == IF op = "build" THEN "b_screen" ELSE "l_auth"
Terminal == {"done", "fatal"}
PCs == {"start", "b_screen", "b_wait", "l_auth", "l_open", "l_copy", "l_close",
        "l_gdbcmd", "l_screen", "l_check", "l_poll", "p_open", "p_pull",
        "p_close"} \cup Terminal

VARIABLES
  pc,         \* the orchestrator's position in the current resource's workflow
  stage,      \* index into Stages
  idx,        \* index of the current resource in its registry list
  tout,       \* conf["slash2"]["timeout"]
  count,      \* readiness poll counter of launch_gdb_sl
  need,       \* need_authbuf returned by handle_authbuf for the current resource
  obtained,   \* tsuite.authbuf_obtained
  localKey,   \* the local datadir/authbuf.key
  localMode,  \* its permission mode
  keyAt,      \* host -> the authbuf.key in that host's datadir
  srcMode,    \* mode of the key file on the host it is pulled from
  scr,        \* host -> screen sessions listed by list_screen_socks
  started,    \* screen sessions this run created (history)
  socks,      \* control directory -> sockets present in it
  up,         \* resources whose daemon has come up in this run (history)
  dkey        \* resource -> key its daemon authenticates with

vars == <<pc, stage, idx, tout, count, need, obtained, localKey, localMode,
          keyAt, srcMode, scr, started, socks, up, dkey>>

role == Stages[stage].role
cur == List(role)[idx]
host == HostOf[cur]

Init ==
  /\ pc = "start"
  /\ stage = 1
  /\ idx = 1
  /\ tout \in Timeouts
  /\ count = 0
  /\ need = FALSE
  /\ obtained = FALSE
  /\ localKey = NoKey
  /\ localMode = "0400"
  /\ keyAt = [h \in Hosts |-> NoKey]
  /\ srcMode = "0400"
  /\ scr = Leftover
  /\ started = {}
  /\ socks = [d \in Dirs |-> {}]
  /\ up = {}
  /\ dkey = [r \in Res |-> NoKey]

\* Mutants of Advance: the stage bound tested with <=, and the index of the
\* resource list never moved on.
AdvanceStagePastEnd ==
  IF idx < Len(List(role))
    THEN /\ idx' = idx + 1 /\ stage' = stage
         /\ pc' = FirstStep(Stages[stage].op)
    ELSE IF stage <= Len(Stages)
      THEN /\ idx' = 1 /\ stage' = stage + 1 /\ pc' = "start"
      ELSE /\ idx' = idx /\ stage' = stage /\ pc' = "done"

AdvanceSameIdx ==
  IF idx < Len(List(role))
    THEN /\ idx' = idx /\ stage' = stage
         /\ pc' = FirstStep(Stages[stage].op)
    ELSE IF stage < Len(Stages)
      THEN /\ idx' = 1 /\ stage' = stage + 1 /\ pc' = "start"
      ELSE /\ idx' = idx /\ stage' = stage /\ pc' = "done"

\* Mutant: the last resource of a list is never reached (idx + 1 < len).
AdvanceSkipLast ==
  IF idx + 1 < Len(List(role))
    THEN /\ idx' = idx + 1 /\ stage' = stage
         /\ pc' = FirstStep(Stages[stage].op)
    ELSE IF stage < Len(Stages)
      THEN /\ idx' = 1 /\ stage' = stage + 1 /\ pc' = "start"
      ELSE /\ idx' = idx /\ stage' = stage /\ pc' = "done"

\* Move to the next resource of the list, or to the next stage of run.py.
Advance ==
  IF idx < Len(List(role))
    THEN /\ idx' = idx + 1 /\ stage' = stage
         /\ pc' = FirstStep(Stages[stage].op)
    ELSE IF stage < Len(Stages)
      THEN /\ idx' = 1 /\ stage' = stage + 1 /\ pc' = "start"
      ELSE /\ idx' = idx /\ stage' = stage /\ pc' = "done"

\* Entering a stage indexes self.sl2objects[role]: the key exists only when
\* some resource of that role was finalized, otherwise KeyError ends the run.
StartStage ==
  /\ pc = "start"
  /\ pc' = IF Len(List(role)) = 0 THEN "fatal" ELSE FirstStep(Stages[stage].op)
  /\ UNCHANGED <<stage, idx, tout, count, need, obtained, localKey, localMode,
                 keyAt, srcMode, scr, started, socks, up, dkey>>

(***************************************************************************)
(* Build: sl_screen_and_wait.  run_screen refuses a name that exists in   *)
(* any form; wait_for_screen blocks until the session is gone and reports *)
(* whether it left a -timed or -error session behind.                     *)
(***************************************************************************)
BuildScreen ==
  /\ pc = "b_screen"
  /\ IF \E sfx \in Suffixes : <<TsName(cur), sfx>> \in scr[host]
       THEN /\ pc' = "fatal" /\ UNCHANGED <<scr, started>>
       ELSE /\ scr' = [scr EXCEPT ![host] = @ \cup {<<TsName(cur), "">>}]
            /\ started' = started \cup {TsName(cur)}
            /\ pc' = "b_wait"
  /\ UNCHANGED <<stage, idx, tout, count, need, obtained, localKey, localMode,
                 keyAt, srcMode, socks, up, dkey>>

BuildWait ==
  /\ pc = "b_wait"
  /\ <<TsName(cur), "">> \notin scr[host]
  /\ IF <<TsName(cur), "-timed">> \in scr[host] \/ <<TsName(cur), "-error">> \in scr[host]
       THEN /\ pc' = "fatal" /\ UNCHANGED <<stage, idx>>
       ELSE Advance
  /\ UNCHANGED <<tout, count, need, obtained, localKey, localMode, keyAt,
                 srcMode, scr, started, socks, up, dkey>>

(***************************************************************************)
(* Launch: launch_gdb_sl and handle_authbuf.                              *)
(***************************************************************************)
\* Mutant: every MDS is treated as the one the key is pulled from.
LaunchAuthEveryMds ==
  /\ pc = "l_auth"
  /\ need' = (role = "mds")
  /\ pc' = IF need' THEN "l_gdbcmd" ELSE "l_open"
  /\ UNCHANGED <<stage, idx, tout, count, obtained, localKey, localMode, keyAt,
                 srcMode, scr, started, socks, up, dkey>>

\* handle_authbuf: the first MDS must have its key pulled after launch;
\* every other resource first receives a copy of the local key.
LaunchAuth ==
  /\ pc = "l_auth"
  /\ need' = (role = "mds" /\ ~obtained)
  /\ pc' = IF need' THEN "l_gdbcmd" ELSE "l_open"
  /\ UNCHANGED <<stage, idx, tout, count, obtained, localKey, localMode, keyAt,
                 srcMode, scr, started, socks, up, dkey>>

\* chmod(location, "0666") before the copy ...
KeyOpen ==
  /\ pc = "l_open"
  /\ localMode' = "0666"
  /\ pc' = "l_copy"
  /\ UNCHANGED <<stage, idx, tout, count, need, obtained, localKey, keyAt,
                 srcMode, scr, started, socks, up, dkey>>

\* Mutant: the copy to the remote datadir is left out.
KeyCopySkipped ==
  /\ pc = "l_copy"
  /\ pc' = "l_close"
  /\ UNCHANGED <<stage, idx, tout, count, need, obtained, localKey, localMode,
                 keyAt, srcMode, scr, started, socks, up, dkey>>

\* ... ssh.copy_file(location, location) ...
KeyCopy ==
  /\ pc = "l_copy"
  /\ keyAt' = [keyAt EXCEPT ![host] = localKey]
  /\ pc' = "l_close"
  /\ UNCHANGED <<stage, idx, tout, count, need, obtained, localKey, localMode,
                 srcMode, scr, started, socks, up, dkey>>

\* Mutant: the chmod back to 0400 is left out.
KeyCloseNoChmod ==
  /\ pc = "l_close"
  /\ pc' = "l_gdbcmd"
  /\ UNCHANGED <<stage, idx, tout, count, need, obtained, localKey, localMode,
                 keyAt, srcMode, scr, started, socks, up, dkey>>

\* ... and chmod(location, "0400") after it.
KeyClose ==
  /\ pc = "l_close"
  /\ localMode' = "0400"
  /\ pc' = "l_gdbcmd"
  /\ UNCHANGED <<stage, idx, tout, count, need, obtained, localKey, keyAt,
                 srcMode, scr, started, socks, up, dkey>>

\* ls of the control directory (its count is not used), gdbcmd written from
\* the template and copied to the host; repl_file returns None when the
\* template cannot be read, and the run stops.
LaunchGdbcmd ==
  /\ pc = "l_gdbcmd"
  /\ \E readable \in BOOLEAN : pc' = IF readable THEN "l_screen" ELSE "fatal"
  /\ UNCHANGED <<stage, idx, tout, count, need, obtained, localKey, localMode,
                 keyAt, srcMode, scr, started, socks, up, dkey>>

\* ssh.run_screen(cmd, screen_sock_name): its result is not looked at, so a
\* name that already exists leaves the old session in place.
LaunchScreen ==
  /\ pc = "l_screen"
  /\ IF \E sfx \in Suffixes : <<SlName(cur), sfx>> \in scr[host]
       THEN UNCHANGED <<scr, started>>
       ELSE /\ scr' = [scr EXCEPT ![host] = @ \cup {<<SlName(cur), "">>}]
            /\ started' = started \cup {SlName(cur)}
  /\ pc' = "l_check"
  /\ UNCHANGED <<stage, idx, tout, count, need, obtained, localKey, localMode,
                 keyAt, srcMode, socks, up, dkey>>

\* Mutant: the poll counter starts at 1.
LaunchCheckCountFromOne ==
  /\ pc = "l_check"
  /\ IF <<SlName(cur), "-error">> \in scr[host] \/ <<SlName(cur), "">> \notin scr[host]
       THEN pc' = "fatal"
       ELSE pc' = "l_poll"
  /\ count' = 1
  /\ UNCHANGED <<stage, idx, tout, need, obtained, localKey, localMode, keyAt,
                 srcMode, scr, started, socks, up, dkey>>

\* After time.sleep(2): fatal if the -error session exists or the session is gone.
LaunchCheck ==
  /\ pc = "l_check"
  /\ IF <<SlName(cur), "-error">> \in scr[host] \/ <<SlName(cur), "">> \notin scr[host]
       THEN pc' = "fatal"
       ELSE pc' = "l_poll"
  /\ count' = 0
  /\ UNCHANGED <<stage, idx, tout, need, obtained, localKey, localMode, keyAt,
                 srcMode, scr, started, socks, up, dkey>>

\* One iteration of the readiness loop: any socket whose name contains
\* res_bin_type ends it; otherwise count += 1 and the run stops when count
\* equals int(timeout) (int(None) raises TypeError).
\* Mutant: any socket in the control directory ends the loop.
SockFoundAnyBin == socks[CtlDir[host]] # {}

SockFound == \E s \in socks[CtlDir[host]] : s.bin = Bin(role)

LaunchPoll ==
  /\ pc = "l_poll"
  /\ IF SockFound
       THEN IF need
              THEN /\ pc' = "p_open" /\ UNCHANGED <<stage, idx, count>>
              ELSE /\ Advance /\ UNCHANGED count
       ELSE /\ count' = IF count < PollCap THEN count + 1 ELSE count
            /\ pc' = IF tout = NoTimeout \/ count + 1 = tout THEN "fatal" ELSE "l_poll"
            /\ UNCHANGED <<stage, idx>>
  /\ UNCHANGED <<tout, need, obtained, localKey, localMode, keyAt, srcMode,
                 scr, started, socks, up, dkey>>

(***************************************************************************)
(* pull_authbuf: sudo chmod 666, pull_file, sudo chmod 400, then the flag. *)
(***************************************************************************)
PullOpen ==
  /\ pc = "p_open"
  /\ srcMode' = "0666"
  /\ pc' = "p_pull"
  /\ UNCHANGED <<stage, idx, tout, count, need, obtained, localKey, localMode,
                 keyAt, scr, started, socks, up, dkey>>

\* pull_file of a missing file raises IOError: only RemoteFailure is enabled.
PullCopy ==
  /\ pc = "p_pull"
  /\ keyAt[host] # NoKey
  /\ localKey' = keyAt[host]
  /\ pc' = "p_close"
  /\ UNCHANGED <<stage, idx, tout, count, need, obtained, localMode, keyAt,
                 srcMode, scr, started, socks, up, dkey>>

PullClose ==
  /\ pc = "p_close"
  /\ srcMode' = "0400"
  /\ obtained' = TRUE
  /\ Advance
  /\ UNCHANGED <<tout, count, need, localKey, localMode, keyAt, scr, started,
                 socks, up, dkey>>

\* An SSHException or IOError in any remote step stops the run at once.
RemoteSteps == PCs \ ({"start", "l_auth", "l_open", "l_close"} \cup Terminal)

RemoteFailure ==
  /\ pc \in RemoteSteps
  /\ pc' = "fatal"
  /\ UNCHANGED <<stage, idx, tout, count, need, obtained, localKey, localMode,
                 keyAt, srcMode, scr, started, socks, up, dkey>>

\* The run has ended; the process is gone.
Finished ==
  /\ pc \in Terminal
  /\ UNCHANGED vars

\* The orchestrator's own steps, failures aside.
Step ==
  \/ StartStage \/ BuildScreen \/ BuildWait
  \/ LaunchAuth \/ KeyOpen \/ KeyCopy \/ KeyClose
  \/ LaunchGdbcmd \/ LaunchScreen \/ LaunchCheck \/ LaunchPoll
  \/ PullOpen \/ PullCopy \/ PullClose

Orchestrator == Step \/ RemoteFailure

(***************************************************************************)
(* Environment: screen sessions ending and daemons coming up.             *)
(***************************************************************************)
\* A running session ends: its command exits 0 and the session disappears,
\* or the wrapper renames it <name>-error / <name>-timed (timeouts are only
\* given to the build sessions).
SessionEnds(h, n, sfx) ==
  /\ <<n, "">> \in scr[h]
  /\ sfx = "-timed" => n[1] = "ts"
  /\ scr' = [scr EXCEPT ![h] = (@ \ {<<n, "">>}) \cup
                                  (IF sfx = "" THEN {} ELSE {<<n, sfx>>})]
  /\ UNCHANGED <<pc, stage, idx, tout, count, need, obtained, localKey,
                 localMode, keyAt, srcMode, started, socks, up, dkey>>

\* The daemon launched in session sl.<bin>.<id> initialises: it reads the
\* authbuf key in its datadir, creating one when there is none, and then
\* creates its control socket.
DaemonUp(r) ==
  LET h == HostOf[r]
      k == IF keyAt[h] = NoKey THEN h ELSE keyAt[h]
  IN /\ SlName(r) \in started
     /\ <<SlName(r), "">> \in scr[h]
     /\ r \notin up
     /\ keyAt' = [keyAt EXCEPT ![h] = k]
     /\ dkey' = [dkey EXCEPT ![r] = k]
     /\ socks' = [socks EXCEPT ![CtlDir[h]] = @ \cup {[bin |-> Bin(RoleOf(r)), host |-> h]}]
     /\ up' = up \cup {r}
     /\ UNCHANGED <<pc, stage, idx, tout, count, need, obtained, localKey,
                    localMode, srcMode, scr, started>>

Environment ==
  \/ \E h \in Hosts, n \in SessNames, sfx \in Suffixes : SessionEnds(h, n, sfx)
  \/ \E r \in Res : DaemonUp(r)

Next == Orchestrator \/ Environment \/ Finished

(***************************************************************************)
(* Fairness.  The orchestrator is a running process: it keeps taking      *)
(* steps; a remote failure may happen but never has to.  A build session  *)
(* is given the configured timeout by run_screen, so the session wrapper  *)
(* ends it when that timeout is a positive number.  Nothing guarantees a  *)
(* daemon ever comes up, and an idle readiness loop at a saturated        *)
(* counter changes no state.                                              *)
(***************************************************************************)
BuildSessionEnds(h, r) ==
  /\ tout \in PosTimeouts
  /\ \E sfx \in Suffixes : SessionEnds(h, TsName(r), sfx)

Fairness ==
  /\ WF_vars(Step)
  /\ \A h \in Hosts, r \in Res : WF_vars(BuildSessionEnds(h, r))

Spec == Init /\ [][Next]_vars /\ Fairness

-----------------------------------------------------------------------------
(***************************************************************************)
(* Properties.                                                            *)
(***************************************************************************)
TypeOK ==
  /\ pc \in PCs
  /\ stage \in 1..Len(Stages)
  /\ idx \in Nat \ {0}
  /\ tout \in Timeouts
  /\ count \in 0..PollCap
  /\ need \in BOOLEAN
  /\ obtained \in BOOLEAN
  /\ localKey \in Keys
  /\ localMode \in Modes
  /\ keyAt \in [Hosts -> Keys]
  /\ srcMode \in Modes
  /\ scr \in [Hosts -> SUBSET Screens]
  /\ started \subseteq SessNames
  /\ socks \in [Dirs -> SUBSET Socks]
  /\ up \subseteq Res
  /\ dkey \in [Res -> Keys]

\* The two assertions of the authbuf code never fail: handle_authbuf only
\* reaches its copy branch once the key has been obtained (an ION is never
\* launched before an MDS key was pulled), and pull_authbuf is never entered
\* a second time.
AssertionsHold ==
  /\ pc = "l_auth" => (role = "mds" \/ obtained)
  /\ pc \in {"p_open", "p_pull", "p_close"} => ~obtained

\* Every daemon that comes up during the run authenticates with the same
\* authbuf key: the one the first MDS generated, pulled and copied out by
\* handle_authbuf before each later launch.
KeyAgreement == \A r1, r2 \in up : dkey[r1] = dkey[r2]

\* The readiness loop of launch_gdb_sl lets a resource through only once
\* that resource's own daemon has come up and created its socket.
ReadyIsOwn ==
  [][pc = "l_poll" /\ pc' \notin {"l_poll", "fatal"} => cur \in up']_vars

\* The launch check never accepts a session this run did not create: a
\* screen name collision is fatal rather than a silent attach.
NoSilentAttach ==
  [][pc = "l_check" /\ pc' = "l_poll" => SlName(cur) \in started]_vars

\* When the run ends, no copy of the authbuf key is left world-readable by
\* the chmod 0666 / chmod 0400 brackets around its transfers.
KeyNotLeftOpen == pc \in Terminal => localMode = "0400" /\ srcMode = "0400"

\* A run that finishes (run.py reaches the end of launch_ion) has closed
\* both chmod brackets: handle_authbuf's on the local key and
\* pull_authbuf's on the key of the host it is pulled from.
KeysClosedOnDone == pc = "done" => localMode = "0400" /\ srcMode = "0400"

\* The readiness loop of launch_gdb_sl always ends, whether or not the
\* daemon's socket ever appears.
PollingEnds == (pc = "l_poll") ~> (pc # "l_poll")

\* With a positive timeout configured, every run ends, successfully or fatally.
RunEnds == (tout \in PosTimeouts) => <>(pc \in Terminal)

-----------------------------------------------------------------------------
(***************************************************************************)
(* Refinement of Pipeline.  The plan is the four stages of run.py over    *)
(* the registry lists; the steps carried out are those before the current *)
(* resource, and all of them once the run is done.                        *)
(***************************************************************************)
StepsOf(op, L) == [i \in 1..Len(L) |-> [op |-> op, res |-> L[i]]]
Plan == StepsOf("build", Mds) \o StepsOf("launch", Mds)
          \o StepsOf("build", Ion) \o StepsOf("launch", Ion)

\* The number of plan steps of the stages before stage s.
Offset(s) == CASE s = 1 -> 0
               [] s = 2 -> Len(Mds)
               [] s = 3 -> 2 * Len(Mds)
               [] OTHER -> 2 * Len(Mds) + Len(Ion)

pProgress == IF pc = "done" THEN Len(Plan) ELSE Offset(stage) + idx - 1
pStatus == CASE pc = "done" -> "done"
             [] pc = "fatal" -> "fatal"
             [] OTHER -> "running"

P == INSTANCE Pipeline WITH progress <- pProgress, status <- pStatus

\* run.py carries out the build and launch steps one by one in plan order,
\* lets launch_gdb_sl finish a resource only once its own daemon is up,
\* and ends either with every step done or at the first fatal error.
PipelineRefined == P!PSpec
=============================================================================
