----------------------- MODULE TSuiteSessions_proofs -----------------------
(***************************************************************************)
(* Proofs about the screen sessions and the key-file modes of a tsuite    *)
(* run, for every topology, host assignment and timeout:                  *)
(*  - launch_gdb_sl's check after run_screen only ever accepts a launch   *)
(*    session this run created, provided no sl.* session of the run's     *)
(*    resources is left over on a host (leftover_session shows that the   *)
(*    proviso is needed);                                                 *)
(*  - a run that finishes has closed both chmod 0666 / chmod 0400         *)
(*    brackets of handle_authbuf and pull_authbuf (key_left_open shows    *)
(*    that a run stopped by a remote failure may leave one open).         *)
(***************************************************************************)
EXTENDS TSuiteRun_proofs

\* The environment the first result assumes: no launch session of the
\* run's resources exists on any host before the run.
NoSlLeftover == \A h \in Hosts : \A sc \in Leftover[h] : sc[1][1] # "sl"

\* Every launch session on a host, running or renamed, is one this run
\* created: run_screen is the only place one is made, and the session
\* wrapper renames it without changing its name.
SlStarted == \A h \in Hosts : \A sc \in scr[h] : sc[1][1] = "sl" => sc[1] \in started

\* The chmod brackets: the local key is world-writable only between
\* chmod 0666 and chmod 0400 of handle_authbuf, the source key only between
\* those of pull_authbuf; a run stopped inside a bracket keeps it open.
ModesClosed ==
  /\ pc \notin {"l_copy", "l_close", "fatal"} => localMode = "0400"
  /\ pc \notin {"p_pull", "p_close", "fatal"} => srcMode = "0400"

-----------------------------------------------------------------------------
(***************************************************************************)
(* Launch sessions.                                                       *)
(***************************************************************************)
\* The initial sessions are the leftover ones: none is a launch session.
LEMMA InitSlStarted == NoSlLeftover /\ Init => SlStarted
BY DEF NoSlLeftover, Init, SlStarted

\* run_screen of a new session n on host h, recorded as started.
LEMMA AddSession ==
  ASSUME NEW h \in Hosts, NEW n, scr \in [Hosts -> SUBSET Screens], SlStarted,
         scr' = [scr EXCEPT ![h] = @ \cup {<<n, "">>}],
         started' = started \cup {n}
  PROVE  SlStarted'
<1> SUFFICES ASSUME NEW h2 \in Hosts, NEW sc \in scr'[h2], sc[1][1] = "sl"
             PROVE  sc[1] \in started'
  BY DEF SlStarted
<1>1. sc \in scr[h2] \/ sc = <<n, "">>
  OBVIOUS
<1>2. CASE sc \in scr[h2]
  <2>1. sc[1] \in started
    BY <1>2 DEF SlStarted
  <2>2. QED
    BY <2>1
<1>3. CASE sc = <<n, "">>
  BY <1>3
<1>4. QED
  BY <1>1, <1>2, <1>3

\* The wrapper ends or renames a session and keeps its name.
LEMMA EndSession ==
  ASSUME NEW h \in Hosts, NEW n \in SessNames, NEW sfx \in Suffixes,
         scr \in [Hosts -> SUBSET Screens], SlStarted, SessionEnds(h, n, sfx)
  PROVE  SlStarted'
<1>1. /\ <<n, "">> \in scr[h]
      /\ scr' = [scr EXCEPT ![h] = (@ \ {<<n, "">>}) \cup
                                   (IF sfx = "" THEN {} ELSE {<<n, sfx>>})]
      /\ started' = started
  BY Zenon DEF SessionEnds
<1>2. n[1] = "sl" => n \in started
  BY <1>1 DEF SlStarted
<1> SUFFICES ASSUME NEW h2 \in Hosts, NEW sc \in scr'[h2], sc[1][1] = "sl"
             PROVE  sc[1] \in started'
  BY DEF SlStarted
<1>3. sc \in scr[h2] \/ sc = <<n, sfx>>
  BY <1>1
<1>4. CASE sc \in scr[h2]
  <2>1. sc[1] \in started
    BY <1>4 DEF SlStarted
  <2>2. QED
    BY <1>1, <2>1
<1>5. CASE sc = <<n, sfx>>
  BY <1>1, <1>2, <1>5
<1>6. QED
  BY <1>3, <1>4, <1>5

\* A step that neither makes nor ends a session keeps the invariant.
LEMMA SessionsSame ==
  ASSUME SlStarted, UNCHANGED <<scr, started>>
  PROVE  SlStarted'
BY DEF SlStarted

\* Only run_screen and the wrapper change the sessions.
LEMMA NextSlStarted == Inv /\ SlStarted /\ [Next]_vars => SlStarted'
<1> SUFFICES ASSUME Inv, SlStarted, [Next]_vars PROVE SlStarted'
  OBVIOUS
<1>1. CASE BuildScreen
  <2>1. host \in Hosts
    BY <1>1, CurFacts, Zenon DEF BuildScreen, BuildPCs, Inv
  <2>2. QED
    BY <1>1, <2>1, AddSession, SessionsSame, Zenon DEF BuildScreen, Inv, TypeOK
<1>2. CASE LaunchScreen
  <2>1. host \in Hosts
    BY <1>2, CurFacts, Zenon DEF LaunchScreen, LaunchPCs, Inv
  <2>2. QED
    BY <1>2, <2>1, AddSession, SessionsSame, Zenon DEF LaunchScreen, Inv, TypeOK
<1>3. ASSUME NEW h \in Hosts, NEW n \in SessNames, NEW sfx \in Suffixes,
             SessionEnds(h, n, sfx)
      PROVE  SlStarted'
  BY <1>3, EndSession DEF Inv, TypeOK
<1>4. CASE UNCHANGED <<scr, started>>
  BY <1>4, SessionsSame
<1>5. QED
  BY <1>1, <1>2, <1>3, <1>4, Zenon
     DEF Next, Orchestrator, Step, Environment, Finished, vars,
         StartStage, BuildWait, LaunchAuth, KeyOpen, KeyCopy, KeyClose,
         LaunchGdbcmd, LaunchCheck, LaunchPoll, PullOpen, PullCopy, PullClose,
         RemoteFailure, DaemonUp

\* Only the launch check moves from l_check to l_poll, and only when the
\* session it looks for is on the host: by SlStarted, one this run made.
LEMMA CheckStarted ==
  Inv /\ SlStarted /\ [Next]_vars =>
    [pc = "l_check" /\ pc' = "l_poll" => SlName(cur) \in started]_vars
<1> SUFFICES ASSUME Inv, SlStarted, [Next]_vars, pc = "l_check", pc' = "l_poll"
             PROVE  SlName(cur) \in started
  OBVIOUS
<1>1. LaunchCheck
  BY Zenon DEF Next, Orchestrator, Step, Environment, Finished, vars, Terminal,
     StartStage, BuildScreen, BuildWait, LaunchAuth, KeyOpen, KeyCopy, KeyClose,
     LaunchGdbcmd, LaunchScreen, LaunchPoll, PullOpen, PullCopy, PullClose,
     RemoteFailure, SessionEnds, DaemonUp
<1>2. <<SlName(cur), "">> \in scr[host]
  BY <1>1, Zenon DEF LaunchCheck
<1>3. host \in Hosts
  BY CurFacts DEF Inv, LaunchPCs
<1>4. QED
  BY <1>2, <1>3 DEF SlStarted, SlName

\* launch_gdb_sl never accepts a launch session it did not create, when no
\* sl.* session of the run's resources was left over on the hosts.
THEOREM NoSilentAttachCorrect ==
  ASSUME NoSlLeftover
  PROVE  Spec => NoSilentAttach
<1>1. Init => Inv /\ SlStarted
  BY InitInv, InitSlStarted
<1>2. Inv /\ SlStarted /\ [Next]_vars => (Inv /\ SlStarted)'
  BY NextInv, NextSlStarted
<1>3. Inv /\ SlStarted /\ [Next]_vars =>
        [pc = "l_check" /\ pc' = "l_poll" => SlName(cur) \in started]_vars
  BY CheckStarted
<1>4. QED
  BY <1>1, <1>2, <1>3, PTL DEF Spec, NoSilentAttach

-----------------------------------------------------------------------------
(***************************************************************************)
(* The chmod brackets around the key transfers.                           *)
(***************************************************************************)
LEMMA InitModes == Init => ModesClosed
BY DEF Init, ModesClosed

\* The pcs inside a bracket.
LocalOpen == {"l_copy", "l_close", "fatal"}
SrcOpen == {"p_pull", "p_close", "fatal"}

\* A step that leaves both modes alone and does not leave a bracket.
LEMMA ModesSame ==
  ASSUME ModesClosed, UNCHANGED <<localMode, srcMode>>,
         pc \in LocalOpen => pc' \in LocalOpen,
         pc \in SrcOpen => pc' \in SrcOpen
  PROVE  ModesClosed'
BY DEF ModesClosed, LocalOpen, SrcOpen

\* Advance moves to a new resource, a new stage or the end: never into a
\* bracket (it is only taken with both modes at 0400).
LEMMA AdvanceOutside ==
  ASSUME Inv, pc \in BuildPCs \cup LaunchPCs, Advance
  PROVE  pc' \notin LocalOpen \cup SrcOpen
<1>1. pc' \in {"start", "done"} \cup {FirstStep(Stages[stage].op)}
  BY AdvanceFacts DEF Inv
<1>2. QED
  BY <1>1 DEF FirstStep, LocalOpen, SrcOpen

\* Each step opens a bracket only with its chmod 0666, and closes one only
\* with its chmod 0400.
LEMMA NextModes == Inv /\ ModesClosed /\ [Next]_vars => ModesClosed'
<1> SUFFICES ASSUME Inv, ModesClosed, [Next]_vars PROVE ModesClosed'
  OBVIOUS
<1>1. CASE KeyOpen
  BY <1>1 DEF KeyOpen, ModesClosed
<1>2. CASE KeyClose
  BY <1>2 DEF KeyClose, ModesClosed
<1>3. CASE PullOpen
  BY <1>3 DEF PullOpen, ModesClosed
<1>4. CASE PullClose
  <2>1. pc' \notin LocalOpen \cup SrcOpen
    BY <1>4, AdvanceOutside, Zenon DEF PullClose, LaunchPCs
  <2>2. localMode' = "0400" /\ srcMode' = "0400"
    BY <1>4 DEF PullClose, ModesClosed
  <2>3. QED
    BY <2>1, <2>2 DEF ModesClosed, LocalOpen, SrcOpen
<1>5. CASE BuildWait \/ LaunchPoll
  <2>1. UNCHANGED <<localMode, srcMode>>
    BY <1>5, Zenon DEF BuildWait, LaunchPoll
  <2>2. pc \notin LocalOpen \cup SrcOpen
    BY <1>5 DEF BuildWait, LaunchPoll, LocalOpen, SrcOpen
  <2>3. QED
    BY <2>1, <2>2, ModesSame DEF LocalOpen, SrcOpen
<1>6. CASE StartStage \/ BuildScreen \/ LaunchAuth \/ KeyCopy \/ LaunchGdbcmd
           \/ LaunchScreen \/ LaunchCheck \/ PullCopy \/ RemoteFailure
  <2>1. UNCHANGED <<localMode, srcMode>>
    BY <1>6, Zenon DEF StartStage, BuildScreen, LaunchAuth, KeyCopy,
       LaunchGdbcmd, LaunchScreen, LaunchCheck, PullCopy, RemoteFailure
  <2>2. /\ pc \in LocalOpen => pc' \in LocalOpen
        /\ pc \in SrcOpen => pc' \in SrcOpen
    BY <1>6 DEF StartStage, BuildScreen, LaunchAuth, KeyCopy, LaunchGdbcmd,
       LaunchScreen, LaunchCheck, PullCopy, RemoteFailure, LocalOpen, SrcOpen,
       FirstStep
  <2>3. QED
    BY <2>1, <2>2, ModesSame DEF LocalOpen, SrcOpen
<1>7. CASE Environment \/ Finished \/ UNCHANGED vars
  <2>1. UNCHANGED <<pc, localMode, srcMode>>
    BY <1>7, Zenon DEF Environment, SessionEnds, DaemonUp, Finished, vars
  <2>2. QED
    BY <2>1, ModesSame
<1>8. QED
  BY <1>1, <1>2, <1>3, <1>4, <1>5, <1>6, <1>7 DEF Next, Orchestrator, Step

\* A run that reaches the end of run.py leaves both key files at 0400.
THEOREM KeysClosedCorrect == Spec => []KeysClosedOnDone
<1>1. Init => Inv /\ ModesClosed
  BY InitInv, InitModes
<1>2. Inv /\ ModesClosed /\ [Next]_vars => (Inv /\ ModesClosed)'
  BY NextInv, NextModes
<1>3. ModesClosed => KeysClosedOnDone
  BY DEF ModesClosed, KeysClosedOnDone
<1>4. QED
  BY <1>1, <1>2, <1>3, PTL DEF Spec

=============================================================================
