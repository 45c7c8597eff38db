-------------------------- MODULE TSuiteRun_proofs --------------------------
(***************************************************************************)
(* Proofs about TSuiteRun: its type invariant and the two authbuf         *)
(* assertions of managers/sl2gen.py, for every value of the constants.    *)
(***************************************************************************)
EXTENDS TSuiteRun, SequenceTheorems, TLAPS

BuildPCs == {"b_screen", "b_wait"}
LaunchPCs == {"l_auth", "l_open", "l_copy", "l_close", "l_gdbcmd", "l_screen",
              "l_check", "l_poll", "p_open", "p_pull", "p_close"}
PostAuth == LaunchPCs \ {"l_auth"}
PullPCs == {"p_open", "p_pull", "p_close"}

\* Inside a workflow, the orchestrator points at a resource of the current
\* list, and the workflow is the one the stage of run.py calls for.
IdxOK ==
  /\ pc = "start" => idx = 1
  /\ pc \in BuildPCs \cup LaunchPCs => idx \in 1..Len(List(role))
  /\ pc \in BuildPCs => Stages[stage].op = "build"
  /\ pc \in LaunchPCs => Stages[stage].op = "launch"

\* What handle_authbuf and pull_authbuf rely on: once launch_mds is over
\* the key is obtained; after handle_authbuf, need_authbuf is exactly
\* "not obtained yet"; pull_authbuf runs only when need_authbuf said so.
AuthInv ==
  /\ stage \in 3..4 => obtained
  /\ pc \in PostAuth => (need = ~obtained)
  /\ pc \in PullPCs => need

Inv == TypeOK /\ IdxOK
IInv == Inv /\ AuthInv

-----------------------------------------------------------------------------
\* The parts of the constants' assumption the proofs use.
LEMMA ConstFacts ==
  /\ Mds \in Seq(Res) /\ Ion \in Seq(Res)
  /\ HostOf \in [Res -> Hosts]
  /\ CtlDir \in [Hosts -> Dirs]
  /\ PollCap \in Nat
  /\ Leftover \in [Hosts -> SUBSET Screens]
BY ConstantsAssumption

\* The stages of run.py, spelt out for the provers.
LEMMA StagesFacts ==
  /\ Len(Stages) = 4
  /\ \A s \in 1..4 : Stages[s].role \in Roles /\ Stages[s].op \in {"build", "launch"}
  /\ Stages[1].op = "build" /\ Stages[2].op = "launch"
  /\ Stages[3].op = "build" /\ Stages[4].op = "launch"
  /\ Stages[2].role = "mds" /\ Stages[4].role = "ion"
BY DEF Stages, Roles

\* Every list of the registry is a sequence of resources.
LEMMA ListFacts ==
  \A rl \in Roles : List(rl) \in Seq(Res)
BY ConstFacts DEF List, Roles

\* Inside a workflow the current resource is a resource, on a host.
LEMMA CurFacts ==
  ASSUME TypeOK, IdxOK, pc \in BuildPCs \cup LaunchPCs
  PROVE  /\ role \in Roles
         /\ cur \in Res
         /\ host \in Hosts
<1>1. role \in Roles
  BY StagesFacts DEF TypeOK, role
<1>2. cur \in Res
  BY <1>1, ListFacts DEF IdxOK, cur
<1>3. QED
  BY <1>1, <1>2, ConstFacts DEF host

\* Advance keeps the position inside a stage's list and the stage in range.
LEMMA AdvanceFacts ==
  ASSUME TypeOK, IdxOK, pc \in BuildPCs \cup LaunchPCs, Advance
  PROVE  /\ stage' \in 1..Len(Stages)
         /\ idx' \in Nat \ {0}
         /\ pc' \in {"start", "done"} \cup {FirstStep(Stages[stage].op)}
         /\ pc' # "start" => stage' = stage /\ idx' \in 1..Len(List(role))
<1>1. Len(List(role)) \in Nat
  BY CurFacts, ListFacts
<1>2. QED
  BY <1>1, StagesFacts DEF Advance, TypeOK, IdxOK, role

\* The type invariant, split into the orchestrator's variables and the
\* variables the remote side (and the key transfers) change.
TypeCtl ==
  /\ pc \in PCs
  /\ stage \in 1..Len(Stages)
  /\ idx \in Nat \ {0}
  /\ count \in 0..PollCap
  /\ need \in BOOLEAN
  /\ obtained \in BOOLEAN
  /\ localKey \in Keys
  /\ localMode \in Modes
  /\ srcMode \in Modes

TypeEnv ==
  /\ tout \in Timeouts
  /\ keyAt \in [Hosts -> Keys]
  /\ scr \in [Hosts -> SUBSET Screens]
  /\ started \subseteq SessNames
  /\ socks \in [Dirs -> SUBSET Socks]
  /\ up \subseteq Res
  /\ dkey \in [Res -> Keys]

LEMMA TypeSplit == TypeOK <=> TypeCtl /\ TypeEnv
BY DEF TypeOK, TypeCtl, TypeEnv

\* Session names of a resource are session names and screens.
LEMMA NameFacts ==
  ASSUME NEW r \in Res
  PROVE  /\ TsName(r) \in SessNames /\ SlName(r) \in SessNames
         /\ <<TsName(r), "">> \in Screens /\ <<SlName(r), "">> \in Screens
BY DEF TsName, SlName, Screens, SessNames, Suffixes

\* A step that leaves the remote side alone keeps its part of the type.
LEMMA EnvUnchanged ==
  ASSUME TypeEnv, UNCHANGED <<tout, keyAt, scr, started, socks, up, dkey>>
  PROVE  TypeEnv'
BY DEF TypeEnv

\* A step of the orchestrator that changes neither stage nor idx keeps
\* IdxOK when it stays in the same kind of workflow or leaves it.
LEMMA IdxSame ==
  ASSUME IdxOK, UNCHANGED <<stage, idx>>, pc \in LaunchPCs,
         pc' \in LaunchPCs \cup Terminal
  PROVE  IdxOK'
BY DEF IdxOK, BuildPCs, LaunchPCs, Terminal, role

\* The initial state satisfies the type invariant.
LEMMA InitInv == Init => Inv
<1> SUFFICES ASSUME Init PROVE Inv
  OBVIOUS
<1>1. TypeCtl
  <2>1. PollCap \in Nat /\ Len(Stages) = 4
    BY ConstFacts, StagesFacts
  <2>2. pc \in PCs
    BY DEF Init, PCs, Terminal
  <2>3. stage \in 1..Len(Stages) /\ idx \in Nat \ {0} /\ count \in 0..PollCap
    BY <2>1 DEF Init
  <2>4. need \in BOOLEAN /\ obtained \in BOOLEAN
    BY DEF Init
  <2>5. localKey \in Keys /\ localMode \in Modes /\ srcMode \in Modes
    BY DEF Init, Keys, Modes
  <2>6. QED
    BY <2>2, <2>3, <2>4, <2>5 DEF TypeCtl
<1>2. TypeEnv
  BY ConstFacts DEF Init, TypeEnv, Keys
<1>3. IdxOK
  BY DEF Init, IdxOK, BuildPCs, LaunchPCs
<1>4. QED
  BY <1>1, <1>2, <1>3, TypeSplit DEF Inv

\* Every step preserves the type invariant.
LEMMA NextInv == Inv /\ [Next]_vars => Inv'
<1> SUFFICES ASSUME TypeCtl, TypeEnv, IdxOK, [Next]_vars
             PROVE  TypeCtl' /\ TypeEnv' /\ IdxOK'
  BY DEF Inv, TypeOK, TypeCtl, TypeEnv
<1>1. CASE StartStage
  <2>1. TypeCtl'
    BY <1>1 DEF StartStage, TypeCtl, PCs, Terminal, FirstStep
  <2>2. IdxOK'
    <3>1. CASE Len(List(role)) = 0
      BY <1>1, <3>1 DEF StartStage, IdxOK, BuildPCs, LaunchPCs
    <3>2. CASE Len(List(role)) # 0
      <4>1. role \in Roles
        BY StagesFacts DEF TypeCtl, role
      <4>2. Len(List(role)) \in Nat
        BY <4>1, ListFacts
      <4>3. QED
        BY <1>1, <3>2, <4>2, StagesFacts DEF StartStage, IdxOK, BuildPCs,
           LaunchPCs, FirstStep, role, TypeCtl
    <3>3. QED
      BY <3>1, <3>2
  <2>3. QED
    BY <1>1, <2>1, <2>2, EnvUnchanged DEF StartStage
<1>2. CASE BuildScreen
  <2>1. cur \in Res /\ host \in Hosts
    BY <1>2, CurFacts, TypeSplit DEF BuildScreen, BuildPCs
  <2>2. TypeCtl'
    BY <1>2 DEF BuildScreen, TypeCtl, PCs, Terminal
  <2>3. TypeEnv'
    <3>1. [scr EXCEPT ![host] = @ \cup {<<TsName(cur), "">>}] \in [Hosts -> SUBSET Screens]
      <4>1. scr \in [Hosts -> SUBSET Screens] /\ <<TsName(cur), "">> \in Screens
        BY <2>1, NameFacts DEF TypeEnv
      <4>2. QED
        BY <2>1, <4>1
    <3>2. started \cup {TsName(cur)} \subseteq SessNames
      BY <2>1, NameFacts DEF TypeEnv
    <3>3. QED
      BY <1>2, <3>1, <3>2 DEF BuildScreen, TypeEnv
  <2>4. IdxOK'
    BY <1>2 DEF BuildScreen, IdxOK, BuildPCs, LaunchPCs, Terminal, role
  <2>5. QED
    BY <2>2, <2>3, <2>4
<1>3. CASE BuildWait
  <2>1. CASE <<TsName(cur), "-timed">> \in scr[host] \/ <<TsName(cur), "-error">> \in scr[host]
    BY <1>3, <2>1, EnvUnchanged DEF BuildWait, TypeCtl, IdxOK, PCs, Terminal,
       BuildPCs, LaunchPCs, role
  <2>2. CASE ~(<<TsName(cur), "-timed">> \in scr[host] \/ <<TsName(cur), "-error">> \in scr[host])
    <3>1. Advance /\ pc \in BuildPCs
      BY <1>3, <2>2 DEF BuildWait, BuildPCs
    <3>2. /\ stage' \in 1..Len(Stages)
          /\ idx' \in Nat \ {0}
          /\ pc' \in {"start", "done"} \cup {FirstStep(Stages[stage].op)}
          /\ pc' # "start" => stage' = stage /\ idx' \in 1..Len(List(role))
      BY <3>1, AdvanceFacts, TypeSplit
    <3>3. TypeCtl'
      BY <1>3, <3>2, StagesFacts DEF BuildWait, TypeCtl, PCs, Terminal, FirstStep
    <3>4. IdxOK'
      BY <1>3, <3>1, <3>2, StagesFacts DEF BuildWait, Advance, IdxOK, TypeCtl,
         BuildPCs, LaunchPCs, FirstStep, role
    <3>5. QED
      BY <1>3, <3>3, <3>4, EnvUnchanged DEF BuildWait
  <2>3. QED
    BY <2>1, <2>2
<1>4. CASE LaunchAuth
  BY <1>4, EnvUnchanged, IdxSame DEF LaunchAuth, TypeCtl, PCs, Terminal, LaunchPCs
<1>5. CASE KeyOpen
  BY <1>5, EnvUnchanged, IdxSame DEF KeyOpen, TypeCtl, PCs, Terminal, Modes, LaunchPCs
<1>6. CASE KeyCopy
  <2>1. host \in Hosts
    BY <1>6, CurFacts, TypeSplit DEF KeyCopy, LaunchPCs
  <2>2. TypeEnv'
    BY <1>6, <2>1 DEF KeyCopy, TypeEnv, TypeCtl
  <2>3. QED
    BY <1>6, <2>2, IdxSame DEF KeyCopy, TypeCtl, PCs, Terminal, LaunchPCs
<1>7. CASE KeyClose
  BY <1>7, EnvUnchanged, IdxSame DEF KeyClose, TypeCtl, PCs, Terminal, Modes, LaunchPCs
<1>8. CASE LaunchGdbcmd
  BY <1>8, EnvUnchanged, IdxSame DEF LaunchGdbcmd, TypeCtl, PCs, Terminal, LaunchPCs
<1>9. CASE LaunchScreen
  <2>1. cur \in Res /\ host \in Hosts
    BY <1>9, CurFacts, TypeSplit DEF LaunchScreen, LaunchPCs
  <2>2. TypeEnv'
    <3>1. [scr EXCEPT ![host] = @ \cup {<<SlName(cur), "">>}] \in [Hosts -> SUBSET Screens]
      <4>1. scr \in [Hosts -> SUBSET Screens] /\ <<SlName(cur), "">> \in Screens
        BY <2>1, NameFacts DEF TypeEnv
      <4>2. QED
        BY <2>1, <4>1
    <3>2. started \cup {SlName(cur)} \subseteq SessNames
      BY <2>1, NameFacts DEF TypeEnv
    <3>3. QED
      BY <1>9, <3>1, <3>2 DEF LaunchScreen, TypeEnv
  <2>3. QED
    BY <1>9, <2>2, IdxSame DEF LaunchScreen, TypeCtl, PCs, Terminal, LaunchPCs
<1>10. CASE LaunchCheck
  <2>1. PollCap \in Nat
    BY ConstFacts
  <2>2. pc' \in {"fatal", "l_poll"}
    BY <1>10 DEF LaunchCheck
  <2>3. TypeCtl'
    <3>1. pc' \in PCs
      BY <2>2 DEF PCs, Terminal
    <3>2. count' \in 0..PollCap
      <4>1. count' = 0
        BY <1>10, Zenon DEF LaunchCheck
      <4>2. QED
        BY <2>1, <4>1
    <3>3. QED
      BY <1>10, <3>1, <3>2 DEF LaunchCheck, TypeCtl
  <2>4. TypeEnv'
    BY <1>10, EnvUnchanged DEF LaunchCheck
  <2>5. IdxOK'
    BY <1>10, <2>2, IdxSame DEF LaunchCheck, LaunchPCs, Terminal
  <2>6. QED
    BY <2>3, <2>4, <2>5
<1>11. CASE LaunchPoll
  <2>1. CASE SockFound /\ need
    BY <1>11, <2>1, EnvUnchanged, IdxSame DEF LaunchPoll, TypeCtl, PCs, Terminal, LaunchPCs
  <2>2. CASE SockFound /\ ~need
    <3>1. Advance /\ count' = count /\ pc \in LaunchPCs
      BY <1>11, <2>2 DEF LaunchPoll, LaunchPCs
    <3>2. /\ stage' \in 1..Len(Stages)
          /\ idx' \in Nat \ {0}
          /\ pc' \in {"start", "done"} \cup {FirstStep(Stages[stage].op)}
          /\ pc' # "start" => stage' = stage /\ idx' \in 1..Len(List(role))
      BY <3>1, AdvanceFacts, TypeSplit
    <3>3. TypeCtl'
      BY <1>11, <3>1, <3>2, StagesFacts DEF LaunchPoll, TypeCtl, PCs, Terminal, FirstStep
    <3>4. IdxOK'
      BY <1>11, <3>1, <3>2, StagesFacts DEF LaunchPoll, Advance, IdxOK, TypeCtl,
         BuildPCs, LaunchPCs, FirstStep, role
    <3>5. QED
      BY <1>11, <3>3, <3>4, EnvUnchanged DEF LaunchPoll
  <2>3. CASE ~SockFound
    <3>1. PollCap \in Nat
      BY ConstFacts
    <3>2. QED
      BY <1>11, <2>3, <3>1, EnvUnchanged, IdxSame DEF LaunchPoll, TypeCtl, PCs,
         Terminal, LaunchPCs
  <2>4. QED
    BY <2>1, <2>2, <2>3
<1>12. CASE PullOpen
  BY <1>12, EnvUnchanged, IdxSame DEF PullOpen, TypeCtl, PCs, Terminal, Modes, LaunchPCs
<1>13. CASE PullCopy
  <2>1. host \in Hosts
    BY <1>13, CurFacts, TypeSplit DEF PullCopy, LaunchPCs
  <2>2. TypeCtl'
    BY <1>13, <2>1 DEF PullCopy, TypeCtl, TypeEnv, PCs, Terminal
  <2>3. QED
    BY <1>13, <2>2, EnvUnchanged, IdxSame DEF PullCopy, LaunchPCs
<1>14. CASE PullClose
  <2>1. Advance /\ pc \in LaunchPCs
    BY <1>14 DEF PullClose, LaunchPCs
  <2>2. /\ stage' \in 1..Len(Stages)
        /\ idx' \in Nat \ {0}
        /\ pc' \in {"start", "done"} \cup {FirstStep(Stages[stage].op)}
        /\ pc' # "start" => stage' = stage /\ idx' \in 1..Len(List(role))
    BY <2>1, AdvanceFacts, TypeSplit
  <2>3. TypeCtl'
    BY <1>14, <2>2, StagesFacts DEF PullClose, TypeCtl, PCs, Terminal, FirstStep, Modes
  <2>4. IdxOK'
    BY <1>14, <2>1, <2>2, StagesFacts DEF PullClose, Advance, IdxOK, TypeCtl,
       BuildPCs, LaunchPCs, FirstStep, role
  <2>5. QED
    BY <1>14, <2>3, <2>4, EnvUnchanged DEF PullClose
<1>15. CASE RemoteFailure
  <2>1. IdxOK'
    BY <1>15 DEF RemoteFailure, IdxOK, BuildPCs, LaunchPCs, Terminal, role
  <2>2. QED
    BY <1>15, <2>1, EnvUnchanged DEF RemoteFailure, TypeCtl, PCs, Terminal
<1>16. CASE Finished \/ UNCHANGED vars
  BY <1>16 DEF Finished, vars, TypeCtl, TypeEnv, IdxOK, role, List
<1>17. CASE \E h \in Hosts, n \in SessNames, sfx \in Suffixes : SessionEnds(h, n, sfx)
  <2>1. PICK h \in Hosts, n \in SessNames, sfx \in Suffixes : SessionEnds(h, n, sfx)
    BY <1>17
  <2>2. <<n, sfx>> \in Screens
    BY DEF Screens
  <2>3. scr' \in [Hosts -> SUBSET Screens]
    BY <2>1, <2>2 DEF SessionEnds, TypeEnv
  <2>4. QED
    BY <2>1, <2>3 DEF SessionEnds, TypeCtl, TypeEnv, IdxOK, role
<1>18. CASE \E r \in Res : DaemonUp(r)
  <2>1. PICK r \in Res : DaemonUp(r)
    BY <1>18
  <2>2. /\ HostOf[r] \in Hosts
        /\ CtlDir[HostOf[r]] \in Dirs
        /\ [bin |-> Bin(RoleOf(r)), host |-> HostOf[r]] \in Socks
    BY ConstFacts DEF Bin, Socks
  <2>3. socks' \in [Dirs -> SUBSET Socks]
    <3>1. socks \in [Dirs -> SUBSET Socks]
      BY DEF TypeEnv
    <3>2. QED
      BY <2>1, <2>2, <3>1 DEF DaemonUp
  <2>4. keyAt' \in [Hosts -> Keys] /\ dkey' \in [Res -> Keys] /\ up' \subseteq Res
    BY <2>1, <2>2 DEF DaemonUp, TypeEnv, Keys
  <2>5. QED
    BY <2>1, <2>3, <2>4 DEF DaemonUp, TypeCtl, TypeEnv, IdxOK, role
<1>19. QED
  BY <1>1, <1>2, <1>3, <1>4, <1>5, <1>6, <1>7, <1>8, <1>9, <1>10, <1>11,
     <1>12, <1>13, <1>14, <1>15, <1>16, <1>17, <1>18
     DEF Next, Orchestrator, Step, Environment

\* The type invariant of the run holds in every reachable state.
THEOREM TypeCorrect == Spec => []TypeOK
<1>1. Init => Inv
  BY InitInv
<1>2. Inv /\ [Next]_vars => Inv'
  BY NextInv
<1>3. Inv => TypeOK
  BY DEF Inv
<1>4. QED
  BY <1>1, <1>2, <1>3, PTL DEF Spec

-----------------------------------------------------------------------------
(***************************************************************************)
(* The authbuf assertions.                                                *)
(***************************************************************************)
\* A launch workflow runs in stage 2 (launch_mds) or stage 4 (launch_ion).
LEMMA LaunchStage ==
  ASSUME TypeOK, IdxOK, pc \in LaunchPCs
  PROVE  \/ stage = 2 /\ role = "mds"
         \/ stage = 4 /\ role = "ion"
BY StagesFacts DEF TypeOK, IdxOK, role

\* Advance moves at most one stage on, and only into a stage's start.
LEMMA AdvanceStage ==
  ASSUME TypeOK, Advance
  PROVE  /\ stage' \in {stage, stage + 1}
         /\ stage' # stage => pc' = "start"
         /\ pc' \in {"start", "done", "b_screen", "l_auth"}
BY StagesFacts DEF TypeOK, Advance, FirstStep

\* A step that touches neither the stage, the key flags nor the workflow
\* position relevant to them keeps AuthInv.
LEMMA AuthSame ==
  ASSUME AuthInv, UNCHANGED <<stage, obtained, need>>,
         pc' \in PostAuth => pc \in PostAuth,
         pc' \in PullPCs => pc \in PullPCs
  PROVE  AuthInv'
BY DEF AuthInv

\* The strengthened invariant holds initially.
LEMMA InitIInv == Init => IInv
<1> SUFFICES ASSUME Init PROVE IInv
  OBVIOUS
<1>1. AuthInv
  BY DEF Init, AuthInv, PostAuth, LaunchPCs, PullPCs
<1>2. QED
  BY <1>1, InitInv DEF IInv

\* Every step keeps the strengthened invariant.
LEMMA NextIInv == IInv /\ [Next]_vars => IInv'
<1> SUFFICES ASSUME IInv, [Next]_vars PROVE AuthInv'
  BY NextInv DEF IInv
<1>0. TypeOK /\ IdxOK /\ AuthInv
  BY DEF IInv, Inv
<1>1. CASE StartStage
  BY <1>1, <1>0, AuthSame DEF StartStage, FirstStep, PostAuth, LaunchPCs, PullPCs
<1>2. CASE BuildScreen
  BY <1>2, <1>0, AuthSame DEF BuildScreen, PostAuth, LaunchPCs, PullPCs
<1>3. CASE BuildWait
  <2>1. CASE <<TsName(cur), "-timed">> \in scr[host] \/ <<TsName(cur), "-error">> \in scr[host]
    BY <1>3, <2>1, <1>0, AuthSame DEF BuildWait, PostAuth, LaunchPCs, PullPCs
  <2>2. CASE ~(<<TsName(cur), "-timed">> \in scr[host] \/ <<TsName(cur), "-error">> \in scr[host])
    <3>1. Advance /\ UNCHANGED <<obtained, need>>
      BY <1>3, <2>2 DEF BuildWait
    <3>2. /\ stage' \in {stage, stage + 1}
          /\ stage' # stage => pc' = "start"
          /\ pc' \in {"start", "done", "b_screen", "l_auth"}
      BY <3>1, <1>0, AdvanceStage
    <3>3. stage \in {1, 3}
      <4>1. Stages[stage].op = "build" /\ stage \in 1..Len(Stages)
        BY <1>3, <1>0 DEF BuildWait, TypeOK, IdxOK, BuildPCs
      <4>2. QED
        BY <4>1, StagesFacts
    <3>4. stage' \in 3..4 => obtained
      BY <3>2, <3>3, <1>0 DEF AuthInv
    <3>5. QED
      BY <3>1, <3>2, <3>4 DEF AuthInv, PostAuth, LaunchPCs, PullPCs
  <2>3. QED
    BY <2>1, <2>2
<1>4. CASE LaunchAuth
  <2>1. \/ stage = 2 /\ role = "mds"
        \/ stage = 4 /\ role = "ion"
    BY <1>4, <1>0, LaunchStage DEF LaunchAuth, LaunchPCs
  <2>2. need' = ~obtained
    BY <1>4, <2>1, <1>0 DEF LaunchAuth, AuthInv, TypeOK
  <2>3. QED
    BY <1>4, <2>2, <1>0 DEF LaunchAuth, AuthInv, PostAuth, LaunchPCs, PullPCs
<1>5. CASE KeyOpen \/ KeyCopy \/ KeyClose
  BY <1>5, <1>0, AuthSame DEF KeyOpen, KeyCopy, KeyClose, PostAuth, LaunchPCs, PullPCs
<1>6. CASE LaunchGdbcmd \/ LaunchScreen \/ LaunchCheck
  BY <1>6, <1>0, AuthSame DEF LaunchGdbcmd, LaunchScreen, LaunchCheck, PostAuth,
     LaunchPCs, PullPCs
<1>7. CASE LaunchPoll
  <2>1. CASE SockFound /\ need
    BY <1>7, <2>1, <1>0 DEF LaunchPoll, AuthInv, PostAuth, LaunchPCs, PullPCs
  <2>2. CASE SockFound /\ ~need
    <3>1. Advance /\ UNCHANGED <<obtained, need>>
      BY <1>7, <2>2 DEF LaunchPoll
    <3>2. /\ stage' \in {stage, stage + 1}
          /\ stage' # stage => pc' = "start"
          /\ pc' \in {"start", "done", "b_screen", "l_auth"}
      BY <3>1, <1>0, AdvanceStage
    <3>3. obtained
      BY <1>7, <2>2, <1>0 DEF LaunchPoll, AuthInv, PostAuth, LaunchPCs, TypeOK
    <3>4. QED
      BY <3>1, <3>2, <3>3 DEF AuthInv, PostAuth, LaunchPCs, PullPCs
  <2>3. CASE ~SockFound
    BY <1>7, <2>3, <1>0, AuthSame DEF LaunchPoll, PostAuth, LaunchPCs, PullPCs
  <2>4. QED
    BY <2>1, <2>2, <2>3
<1>8. CASE PullOpen \/ PullCopy
  BY <1>8, <1>0, AuthSame DEF PullOpen, PullCopy, PostAuth, LaunchPCs, PullPCs
<1>9. CASE PullClose
  <2>1. Advance /\ obtained' = TRUE
    BY <1>9 DEF PullClose
  <2>2. pc' \in {"start", "done", "b_screen", "l_auth"}
    BY <2>1, <1>0, AdvanceStage
  <2>3. QED
    BY <2>1, <2>2 DEF AuthInv, PostAuth, LaunchPCs, PullPCs
<1>10. CASE RemoteFailure
  BY <1>10, <1>0, AuthSame DEF RemoteFailure, PostAuth, LaunchPCs, PullPCs
<1>11. CASE Finished \/ UNCHANGED vars
  BY <1>11, <1>0, AuthSame DEF Finished, vars
<1>12. CASE Environment
  BY <1>12, <1>0, AuthSame DEF Environment, SessionEnds, DaemonUp
<1>13. QED
  BY <1>1, <1>2, <1>3, <1>4, <1>5, <1>6, <1>7, <1>8, <1>9, <1>10, <1>11,
     <1>12 DEF Next, Orchestrator, Step

\* The two assertions of handle_authbuf and pull_authbuf (run through
\* tsuite.authbuf_obtained) never fail, whatever the lists of MDSes and
\* IONs, their hosts, control directories and the configured timeout.
THEOREM AssertionsCorrect == Spec => []AssertionsHold
<1>1. Init => IInv
  BY InitIInv
<1>2. IInv /\ [Next]_vars => IInv'
  BY NextIInv
<1>3. IInv => AssertionsHold
  <2> SUFFICES ASSUME IInv PROVE AssertionsHold
    OBVIOUS
  <2>1. TypeOK /\ IdxOK /\ AuthInv
    BY DEF IInv, Inv
  <2>2. pc = "l_auth" => (role = "mds" \/ obtained)
    BY <2>1, LaunchStage DEF AuthInv, LaunchPCs
  <2>3. pc \in {"p_open", "p_pull", "p_close"} => ~obtained
    BY <2>1 DEF AuthInv, PostAuth, LaunchPCs, PullPCs, TypeOK
  <2>4. QED
    BY <2>2, <2>3 DEF AssertionsHold
<1>4. QED
  BY <1>1, <1>2, <1>3, PTL DEF Spec

-----------------------------------------------------------------------------
(***************************************************************************)
(* The refinement of Pipeline.                                            *)
(***************************************************************************)
\* No two resources of one role share a control directory: a socket's
\* binary and directory then name the daemon that made it.
PrivateCtl ==
  \A r1, r2 \in Res :
    RoleOf(r1) = RoleOf(r2) /\ CtlDir[HostOf[r1]] = CtlDir[HostOf[r2]] => r1 = r2

\* Every control socket was created by a daemon that is up, in its host's
\* control directory and named after its binary.
SockInv ==
  \A d \in Dirs : \A s \in socks[d] :
    \E r \in up : CtlDir[HostOf[r]] = d /\ s.bin = Bin(RoleOf(r))

\* pull_authbuf runs only for a resource whose daemon is up.
PullUp == pc \in PullPCs => cur \in up

RInv == IInv /\ SockInv /\ PullUp

StepSet == [op : {"build", "launch"}, res : Res]

\* StepsOf builds a sequence of steps as long as its list.
LEMMA StepsOfFacts ==
  ASSUME NEW op \in {"build", "launch"}, NEW L \in Seq(Res)
  PROVE  /\ StepsOf(op, L) \in Seq(StepSet)
         /\ Len(StepsOf(op, L)) = Len(L)
         /\ \A i \in 1..Len(L) : StepsOf(op, L)[i] = [op |-> op, res |-> L[i]]
BY DEF StepsOf, StepSet

\* The plan steps each stage of run.py accounts for.
LEMMA OffsetFacts ==
  /\ Len(Mds) \in Nat /\ Len(Ion) \in Nat
  /\ Offset(1) = 0 /\ Offset(2) = Len(Mds)
  /\ Offset(3) = 2 * Len(Mds) /\ Offset(4) = 2 * Len(Mds) + Len(Ion)
  /\ \A s \in 1..4 : List(Stages[s].role) = IF s <= 2 THEN Mds ELSE Ion
<1>1. Len(Mds) \in Nat /\ Len(Ion) \in Nat
  BY ConstFacts
<1>2. \A s \in 1..4 : List(Stages[s].role) = IF s <= 2 THEN Mds ELSE Ion
  BY DEF Stages, List
<1>3. QED
  BY <1>1, <1>2 DEF Offset


\* Concatenation of two sequences of steps.
LEMMA ConcatSteps ==
  ASSUME NEW s1 \in Seq(StepSet), NEW s2 \in Seq(StepSet)
  PROVE  /\ s1 \o s2 \in Seq(StepSet)
         /\ Len(s1 \o s2) = Len(s1) + Len(s2)
         /\ \A i \in 1..Len(s1) + Len(s2) :
              (s1 \o s2)[i] = IF i <= Len(s1) THEN s1[i] ELSE s2[i - Len(s1)]
BY ConcatProperties

\* The plan, stage by stage: the i-th resource of stage s is the step
\* Offset(s) + i of the plan.
LEMMA PlanFacts ==
  /\ Plan \in Seq(StepSet)
  /\ Len(Plan) = 2 * Len(Mds) + 2 * Len(Ion)
  /\ \A s \in 1..4 : \A i \in 1..Len(List(Stages[s].role)) :
       Plan[Offset(s) + i] = [op |-> Stages[s].op, res |-> List(Stages[s].role)[i]]
<1> DEFINE A1 == StepsOf("build", Mds)   A2 == StepsOf("launch", Mds)
           A3 == StepsOf("build", Ion)   A4 == StepsOf("launch", Ion)
           B2 == A1 \o A2                B3 == B2 \o A3
           M == Len(Mds)                 N == Len(Ion)
<1>0. M \in Nat /\ N \in Nat /\ Mds \in Seq(Res) /\ Ion \in Seq(Res)
  BY ConstFacts
<1>1. /\ A1 \in Seq(StepSet) /\ Len(A1) = M
      /\ \A i \in 1..M : A1[i] = [op |-> "build", res |-> Mds[i]]
  BY <1>0, StepsOfFacts
<1>2. /\ A2 \in Seq(StepSet) /\ Len(A2) = M
      /\ \A i \in 1..M : A2[i] = [op |-> "launch", res |-> Mds[i]]
  BY <1>0, StepsOfFacts
<1>3. /\ A3 \in Seq(StepSet) /\ Len(A3) = N
      /\ \A i \in 1..N : A3[i] = [op |-> "build", res |-> Ion[i]]
  BY <1>0, StepsOfFacts
<1>4. /\ A4 \in Seq(StepSet) /\ Len(A4) = N
      /\ \A i \in 1..N : A4[i] = [op |-> "launch", res |-> Ion[i]]
  BY <1>0, StepsOfFacts
<1>5. /\ B2 \in Seq(StepSet) /\ Len(B2) = M + M
      /\ \A i \in 1..M + M : B2[i] = IF i <= M THEN A1[i] ELSE A2[i - M]
  <2>1. /\ B2 \in Seq(StepSet) /\ Len(B2) = Len(A1) + Len(A2)
        /\ \A i \in 1..Len(A1) + Len(A2) :
             B2[i] = IF i <= Len(A1) THEN A1[i] ELSE A2[i - Len(A1)]
    BY <1>1, <1>2, ConcatSteps, Zenon
  <2>2. QED
    BY <1>1, <1>2, <2>1, Zenon
<1>6. /\ B3 \in Seq(StepSet) /\ Len(B3) = (M + M) + N
      /\ \A i \in 1..(M + M) + N : B3[i] = IF i <= M + M THEN B2[i] ELSE A3[i - (M + M)]
  <2>1. /\ B3 \in Seq(StepSet) /\ Len(B3) = Len(B2) + Len(A3)
        /\ \A i \in 1..Len(B2) + Len(A3) :
             B3[i] = IF i <= Len(B2) THEN B2[i] ELSE A3[i - Len(B2)]
    BY <1>3, <1>5, ConcatSteps, Zenon
  <2>2. QED
    BY <1>3, <1>5, <2>1, Zenon
<1>7. /\ Plan \in Seq(StepSet) /\ Len(Plan) = ((M + M) + N) + N
      /\ \A i \in 1..((M + M) + N) + N :
           Plan[i] = IF i <= (M + M) + N THEN B3[i] ELSE A4[i - ((M + M) + N)]
  <2>1. Plan = B3 \o A4
    BY DEF Plan
  <2>2. /\ B3 \o A4 \in Seq(StepSet) /\ Len(B3 \o A4) = Len(B3) + Len(A4)
        /\ \A i \in 1..Len(B3) + Len(A4) :
             (B3 \o A4)[i] = IF i <= Len(B3) THEN B3[i] ELSE A4[i - Len(B3)]
    BY <1>4, <1>6, ConcatSteps, Zenon
  <2>3. QED
    BY <1>4, <1>6, <2>1, <2>2, Zenon
<1>8. ASSUME NEW s \in 1..4, NEW i \in 1..Len(List(Stages[s].role))
      PROVE  Plan[Offset(s) + i] = [op |-> Stages[s].op, res |-> List(Stages[s].role)[i]]
  <2>1. CASE s = 1
    <3>1. List(Stages[s].role) = Mds /\ Stages[s].op = "build" /\ Offset(s) = 0
      BY <2>1, OffsetFacts, StagesFacts
    <3>2. i \in 1..M /\ Offset(s) + i = i
      BY <1>0, <3>1
    <3>3. i \in 1..((M + M) + N) + N /\ i <= (M + M) + N /\ i \in 1..(M + M) + N
          /\ i <= M + M /\ i \in 1..M + M /\ i <= M
      BY <1>0, <3>2
    <3>4. Plan[i] = B3[i]
      BY <1>7, <3>3, Zenon
    <3>5. B3[i] = B2[i]
      BY <1>6, <3>3, Zenon
    <3>6. B2[i] = A1[i]
      BY <1>5, <3>3, Zenon
    <3>7. QED
      BY <1>1, <3>1, <3>2, <3>4, <3>5, <3>6, Zenon
  <2>2. CASE s = 2
    <3>1. List(Stages[s].role) = Mds /\ Stages[s].op = "launch" /\ Offset(s) = M
      BY <2>2, OffsetFacts, StagesFacts
    <3>2. i \in 1..M /\ Offset(s) + i = M + i
      BY <1>0, <3>1
    <3>3. M + i \in 1..((M + M) + N) + N /\ M + i <= (M + M) + N
          /\ M + i \in 1..(M + M) + N /\ M + i <= M + M /\ M + i \in 1..M + M
          /\ ~(M + i <= M) /\ (M + i) - M = i
      BY <1>0, <3>2
    <3>4. Plan[M + i] = B3[M + i]
      BY <1>7, <3>3, Zenon
    <3>5. B3[M + i] = B2[M + i]
      BY <1>6, <3>3, Zenon
    <3>6. B2[M + i] = A2[i]
      BY <1>5, <3>3, Zenon
    <3>7. QED
      BY <1>2, <3>1, <3>2, <3>4, <3>5, <3>6, Zenon
  <2>3. CASE s = 3
    <3>1. List(Stages[s].role) = Ion /\ Stages[s].op = "build" /\ Offset(s) = 2 * M
      BY <2>3, OffsetFacts, StagesFacts
    <3>2. i \in 1..N /\ Offset(s) + i = (M + M) + i
      BY <1>0, <3>1
    <3>3. (M + M) + i \in 1..((M + M) + N) + N /\ (M + M) + i <= (M + M) + N
          /\ (M + M) + i \in 1..(M + M) + N /\ ~((M + M) + i <= M + M)
          /\ ((M + M) + i) - (M + M) = i
      BY <1>0, <3>2
    <3>4. Plan[(M + M) + i] = B3[(M + M) + i]
      BY <1>7, <3>3, Zenon
    <3>5. B3[(M + M) + i] = A3[i]
      BY <1>6, <3>3, Zenon
    <3>6. QED
      BY <1>3, <3>1, <3>2, <3>4, <3>5, Zenon
  <2>4. CASE s = 4
    <3>1. i \in 1..N /\ Offset(s) + i = ((M + M) + N) + i /\ Stages[s].op = "launch"
          /\ List(Stages[s].role) = Ion
      BY <2>4, <1>0, OffsetFacts, StagesFacts
    <3>2. ((M + M) + N) + i \in 1..((M + M) + N) + N
          /\ ~(((M + M) + N) + i <= (M + M) + N)
          /\ (((M + M) + N) + i) - ((M + M) + N) = i
      BY <1>0, <3>1
    <3>3. QED
      BY <1>4, <1>7, <3>1, <3>2, Zenon
  <2>5. QED
    BY <2>1, <2>2, <2>3, <2>4
<1>9. ((M + M) + N) + N = 2 * M + 2 * N
  BY <1>0
<1>10. QED
  BY <1>7, <1>8, <1>9, Zenon


\* No resource is both an MDS and an ION.
LEMMA DisjointFacts == Range(Mds) \cap Range(Ion) = {}
BY ConstantsAssumption

\* Inside a workflow, the current resource has the stage's role.
LEMMA RoleOfCur ==
  ASSUME TypeOK, IdxOK, pc \in BuildPCs \cup LaunchPCs
  PROVE  RoleOf(cur) = role
<1>1. role \in Roles /\ idx \in 1..Len(List(role))
  BY StagesFacts DEF TypeOK, IdxOK, role
<1>2. DOMAIN Mds = 1..Len(Mds) /\ DOMAIN Ion = 1..Len(Ion)
  BY ConstFacts
<1>3. CASE role = "mds"
  <2>1. cur \in Range(Mds)
    BY <1>1, <1>2, <1>3 DEF cur, List, Range
  <2>2. QED
    BY <1>3, <2>1 DEF RoleOf
<1>4. CASE role = "ion"
  <2>1. cur \in Range(Ion)
    BY <1>1, <1>2, <1>4 DEF cur, List, Range
  <2>2. cur \notin Range(Mds)
    BY <2>1, DisjointFacts
  <2>3. QED
    BY <1>4, <2>2 DEF RoleOf
<1>5. QED
  BY <1>1, <1>3, <1>4 DEF Roles

\* A socket of the current resource's binary in its host's control
\* directory was made by that resource's own daemon.
LEMMA SockOwn ==
  ASSUME TypeOK, IdxOK, SockInv, PrivateCtl, pc \in LaunchPCs, SockFound
  PROVE  cur \in up
<1>1. cur \in Res /\ host \in Hosts /\ role \in Roles /\ RoleOf(cur) = role
  BY CurFacts, RoleOfCur
<1>2. CtlDir[host] \in Dirs
  BY <1>1, ConstFacts
<1>3. PICK sk \in socks[CtlDir[host]] : sk.bin = Bin(role)
  BY DEF SockFound
<1>4. PICK r \in up : CtlDir[HostOf[r]] = CtlDir[host] /\ sk.bin = Bin(RoleOf(r))
  BY <1>2, <1>3 DEF SockInv
<1>5. r \in Res
  BY DEF TypeOK
<1>6. RoleOf(r) = role
  BY <1>1, <1>3, <1>4 DEF Bin, RoleOf, Roles
<1>7. r = cur
  BY <1>1, <1>4, <1>5, <1>6 DEF PrivateCtl, host
<1>8. QED
  BY <1>4, <1>7


\* A step that leaves the workflow position, the sockets and the up set
\* alone keeps SockInv and PullUp.
LEMMA SockSame ==
  ASSUME SockInv, PullUp, UNCHANGED <<pc, stage, idx, socks, up>>
  PROVE  SockInv' /\ PullUp'
BY DEF SockInv, PullUp, cur, role

\* Every step keeps the sockets accounted for and pull_authbuf confined
\* to a resource that is up.
LEMMA NextRInv ==
  ASSUME PrivateCtl, RInv, [Next]_vars
  PROVE  RInv'
<1> SUFFICES SockInv' /\ PullUp'
  BY NextIInv DEF RInv
<1>0. TypeOK /\ IdxOK /\ AuthInv /\ SockInv /\ PullUp
  BY DEF RInv, IInv, Inv
\* The orchestrator's steps other than entering pull_authbuf leave it or
\* stay in it without touching the sockets.
<1>1. ASSUME Orchestrator \/ Finished \/ UNCHANGED vars
      PROVE  SockInv' /\ PullUp'
  <2>1. UNCHANGED <<socks, up>>
    BY <1>1, Zenon DEF Orchestrator, Step, StartStage, BuildScreen, BuildWait,
       LaunchAuth, KeyOpen, KeyCopy, KeyClose, LaunchGdbcmd, LaunchScreen,
       LaunchCheck, LaunchPoll, PullOpen, PullCopy, PullClose, RemoteFailure,
       Finished, vars
  <2>2. SockInv'
    BY <1>0, <2>1 DEF SockInv
  <2>3. CASE LaunchPoll /\ SockFound /\ need
    <3>1. cur \in up
      BY <1>0, <2>3, SockOwn DEF LaunchPoll, LaunchPCs
    <3>2. UNCHANGED <<stage, idx, up>>
      BY <2>3 DEF LaunchPoll
    <3>3. QED
      BY <2>2, <3>1, <3>2 DEF PullUp, cur, role
  <2>4. CASE Finished \/ UNCHANGED vars
    <3>1. UNCHANGED <<pc, stage, idx, socks, up>>
      BY <2>4, Zenon DEF Finished, vars
    <3>2. QED
      BY <1>0, <3>1, SockSame
  <2>8. CASE PullOpen \/ PullCopy
    <3>1. pc \in PullPCs /\ UNCHANGED <<stage, idx, up>>
      BY <2>8, Zenon DEF PullOpen, PullCopy, PullPCs
    <3>2. QED
      BY <1>0, <2>2, <3>1 DEF PullUp, cur, role
  <2>5. CASE BuildWait \/ (LaunchPoll /\ ~(SockFound /\ need)) \/ PullClose
    <3>1. pc \in BuildPCs \cup LaunchPCs
      <4>1. pc \in {"b_wait", "l_poll", "p_close"}
        BY <2>5, Zenon DEF BuildWait, LaunchPoll, PullClose
      <4>2. QED
        BY <4>1 DEF BuildPCs, LaunchPCs
    <3>2. pc' \in {"start", "done", "b_screen", "l_auth", "fatal", "l_poll"}
      <4>1. CASE Advance
        BY <1>0, <4>1, AdvanceStage
      <4>2. CASE ~Advance
        BY <2>5, <4>2, Zenon DEF BuildWait, LaunchPoll, PullClose
      <4>3. QED
        BY <4>1, <4>2
    <3>3. QED
      BY <2>2, <3>2 DEF PullUp, PullPCs
  <2>6. CASE StartStage \/ BuildScreen \/ LaunchAuth \/ KeyOpen \/ KeyCopy
             \/ KeyClose \/ LaunchGdbcmd \/ LaunchScreen \/ LaunchCheck
             \/ RemoteFailure
    <3>1. pc' \in {"fatal", "b_screen", "l_auth", "b_wait", "l_gdbcmd", "l_open",
                    "l_copy", "l_close", "l_screen", "l_check", "l_poll"}
      BY <2>6, Zenon DEF StartStage, BuildScreen, LaunchAuth, KeyOpen, KeyCopy,
         KeyClose, LaunchGdbcmd, LaunchScreen, LaunchCheck, RemoteFailure,
         FirstStep
    <3>2. pc' \notin PullPCs
      BY <3>1 DEF PullPCs
    <3>3. QED
      BY <2>2, <3>2 DEF PullUp
  <2>7. QED
    BY <1>1, <2>3, <2>4, <2>5, <2>6, <2>8 DEF Orchestrator, Step
<1>2. CASE \E h \in Hosts, n \in SessNames, sfx \in Suffixes : SessionEnds(h, n, sfx)
  <2>1. UNCHANGED <<pc, stage, idx, socks, up>>
    BY <1>2, Zenon DEF SessionEnds
  <2>2. QED
    BY <1>0, <2>1, SockSame
<1>3. CASE \E r \in Res : DaemonUp(r)
  <2>1. PICK r \in Res : DaemonUp(r)
    BY <1>3
  <2>2. /\ HostOf[r] \in Hosts /\ CtlDir[HostOf[r]] \in Dirs
        /\ socks \in [Dirs -> SUBSET Socks]
    BY <1>0, ConstFacts DEF TypeOK
  <2>3. /\ up' = up \cup {r}
        /\ socks' = [socks EXCEPT ![CtlDir[HostOf[r]]] =
                       @ \cup {[bin |-> Bin(RoleOf(r)), host |-> HostOf[r]]}]
        /\ UNCHANGED <<pc, stage, idx>>
    BY <2>1, Zenon DEF DaemonUp
  <2>4. SockInv'
    <3> SUFFICES ASSUME NEW d \in Dirs, NEW sk \in socks'[d]
                 PROVE  \E q \in up' : CtlDir[HostOf[q]] = d /\ sk.bin = Bin(RoleOf(q))
      BY DEF SockInv
    <3>1. CASE sk \in socks[d]
      BY <1>0, <2>3, <3>1 DEF SockInv
    <3>2. CASE sk \notin socks[d]
      <4>1. d = CtlDir[HostOf[r]] /\ sk = [bin |-> Bin(RoleOf(r)), host |-> HostOf[r]]
        BY <2>2, <2>3, <3>2
      <4>2. QED
        BY <2>3, <4>1
    <3>3. QED
      BY <3>1, <3>2
  <2>5. PullUp'
    BY <1>0, <2>3 DEF PullUp, cur, role
  <2>6. QED
    BY <2>4, <2>5
<1>4. QED
  BY <1>1, <1>2, <1>3 DEF Next, Environment


\* Where each stage's steps end in the plan: at the next stage's offset,
\* which lies inside the plan because the ION stages are not empty, and
\* at the plan's end for the last stage.
LEMMA OffsetStep ==
  ASSUME Ion # << >>, NEW s \in 1..4
  PROVE  /\ Offset(s) \in Nat
         /\ s < 4 => /\ Offset(s + 1) = Offset(s) + Len(List(Stages[s].role))
                     /\ Offset(s + 1) < Len(Plan)
         /\ s = 4 => Offset(s) + Len(List(Stages[s].role)) = Len(Plan)
<1>1. Len(Ion) > 0 /\ Len(Mds) \in Nat /\ Len(Ion) \in Nat
  BY ConstFacts, EmptySeq
<1>2. Len(Plan) = 2 * Len(Mds) + 2 * Len(Ion)
  BY PlanFacts
<1>3. List(Stages[s].role) = IF s <= 2 THEN Mds ELSE Ion
  BY OffsetFacts
<1>4. /\ Offset(1) = 0 /\ Offset(2) = Len(Mds)
      /\ Offset(3) = 2 * Len(Mds) /\ Offset(4) = 2 * Len(Mds) + Len(Ion)
  BY OffsetFacts
<1>5. CASE s = 1
  BY <1>1, <1>2, <1>3, <1>4, <1>5
<1>6. CASE s = 2
  BY <1>1, <1>2, <1>3, <1>4, <1>6
<1>7. CASE s = 3
  BY <1>1, <1>2, <1>3, <1>4, <1>7
<1>8. CASE s = 4
  BY <1>1, <1>2, <1>3, <1>4, <1>8
<1>9. QED
  BY <1>5, <1>6, <1>7, <1>8

\* Moving on from a resource whose step is complete carries out the next
\* step of the plan.
LEMMA AdvanceComplete ==
  ASSUME TypeOK, IdxOK, Ion # << >>, pc \in BuildPCs \cup LaunchPCs, Advance,
         up' = up, Stages[stage].op = "launch" => cur \in up
  PROVE  P!Complete
<1> DEFINE n == Len(List(role))  k == Offset(stage) + idx
<1>1. stage \in 1..4 /\ idx \in 1..n /\ n \in Nat /\ role = Stages[stage].role
  <2>1. stage \in 1..4
    BY StagesFacts DEF TypeOK
  <2>2. idx \in 1..n
    BY DEF IdxOK
  <2>3. role \in Roles
    BY CurFacts
  <2>4. n \in Nat
    BY <2>3, ListFacts
  <2>5. QED
    BY <2>1, <2>2, <2>4 DEF role
<1>2. /\ Offset(stage) \in Nat
      /\ stage < 4 => Offset(stage + 1) = Offset(stage) + n /\ Offset(stage + 1) < Len(Plan)
      /\ stage = 4 => Offset(stage) + n = Len(Plan)
  <2>1. stage \in 1..4 /\ role = Stages[stage].role
    BY <1>1
  <2>2. QED
    BY <2>1, OffsetStep, Zenon DEF role
<1>3. pProgress = k - 1 /\ pStatus = "running"
  <2>1. pc # "done" /\ pc # "fatal"
    BY DEF BuildPCs, LaunchPCs
  <2>2. QED
    BY <1>1, <1>2, <2>1 DEF pProgress, pStatus
<1>4. Plan[k] = [op |-> Stages[stage].op, res |-> cur]
  <2>1. \A s \in 1..4 : \A i \in 1..Len(List(Stages[s].role)) :
          Plan[Offset(s) + i] = [op |-> Stages[s].op, res |-> List(Stages[s].role)[i]]
    BY PlanFacts
  <2>2. QED
    BY <1>1, <2>1 DEF cur
<1>5. k \in Nat /\ k <= Len(Plan) /\ (k - 1) + 1 = k /\ Len(Plan) \in Nat
  BY <1>1, <1>2, PlanFacts
<1>6. pProgress' = k /\ pStatus' = IF k = Len(Plan) THEN "done" ELSE "running"
  <2>1. CASE idx < n
    <3>1. idx' = idx + 1 /\ stage' = stage /\ pc' = FirstStep(Stages[stage].op)
      BY <2>1 DEF Advance
    <3>2. pc' # "done" /\ pc' # "fatal"
      BY <3>1 DEF FirstStep
    <3>3. k < Len(Plan)
      BY <1>1, <1>2, <1>5, <2>1
    <3>4. pProgress' = k
      BY <1>1, <1>2, <3>1, <3>2 DEF pProgress
    <3>5. pStatus' = "running"
      BY <3>2 DEF pStatus
    <3>6. QED
      BY <3>3, <3>4, <3>5
  <2>2. CASE idx = n /\ stage < 4
    <3>1. idx' = 1 /\ stage' = stage + 1 /\ pc' = "start"
      BY <1>1, <2>2, StagesFacts DEF Advance
    <3>2. pProgress' = k
      BY <1>1, <1>2, <2>2, <3>1 DEF pProgress
    <3>3. pStatus' = "running" /\ k # Len(Plan)
      BY <1>1, <1>2, <2>2, <3>1 DEF pStatus
    <3>4. QED
      BY <3>2, <3>3
  <2>3. CASE idx = n /\ stage = 4
    <3>1. pc' = "done"
      BY <1>1, <2>3, StagesFacts DEF Advance
    <3>2. pProgress' = k /\ pStatus' = "done" /\ k = Len(Plan)
      BY <1>1, <1>2, <2>3, <3>1 DEF pProgress, pStatus
    <3>3. QED
      BY <3>2
  <2>4. QED
    BY <1>1, <2>1, <2>2, <2>3
<1>7. Plan[k].op = "launch" => Plan[k].res \in up
  BY <1>4
<1>8. QED
  BY <1>3, <1>5, <1>6, <1>7 DEF P!Complete


\* A step that stays inside the current resource's workflow, or ends the
\* run with a fatal error, carries out no step of the plan.
LEMMA QuietStep ==
  ASSUME pc \notin Terminal, pc' # "done", UNCHANGED <<stage, idx, up>>
  PROVE  [P!PNext]_P!pvars
<1>1. pStatus = "running" /\ pProgress' = pProgress
  BY DEF pStatus, pProgress, Terminal
<1>2. CASE pc' = "fatal"
  <2>1. P!Fail
    BY <1>1, <1>2 DEF P!Fail, pStatus
  <2>2. QED
    BY <2>1 DEF P!PNext
<1>3. CASE pc' # "fatal"
  BY <1>1, <1>3 DEF pStatus, P!pvars
<1>4. QED
  BY <1>2, <1>3

\* A step that leaves the workflow position and the up set alone is a
\* stuttering step of the pipeline.
LEMMA StutterStep ==
  ASSUME UNCHANGED <<pc, stage, idx, up>>
  PROVE  UNCHANGED P!pvars
BY DEF P!pvars, pProgress, pStatus

\* A daemon coming up is a daemon of the pipeline coming up.
LEMMA UpStep ==
  ASSUME NEW r \in Res, DaemonUp(r)
  PROVE  P!PNext
<1>1. r \notin up /\ up' = up \cup {r} /\ UNCHANGED <<pc, stage, idx>>
  BY Zenon DEF DaemonUp
<1>2. P!Up(r)
  BY <1>1 DEF P!Up, pProgress, pStatus
<1>3. QED
  BY <1>2 DEF P!PNext


\* Every step of the run is a step of the pipeline or leaves it alone.
LEMMA StepRefines ==
  ASSUME PrivateCtl, Ion # << >>, RInv, [Next]_vars
  PROVE  [P!PNext]_P!pvars
<1>0. TypeOK /\ IdxOK /\ SockInv /\ PullUp
  BY DEF RInv, IInv, Inv
<1>1. CASE StartStage \/ BuildScreen \/ LaunchAuth \/ KeyOpen \/ KeyCopy
           \/ KeyClose \/ LaunchGdbcmd \/ LaunchScreen \/ LaunchCheck
           \/ PullOpen \/ PullCopy
  <2>1. /\ pc \in {"start", "b_screen", "l_auth", "l_open", "l_copy", "l_close",
                   "l_gdbcmd", "l_screen", "l_check", "p_open", "p_pull"}
        /\ pc' \in {"fatal", "b_screen", "l_auth", "b_wait", "l_gdbcmd", "l_open",
                    "l_copy", "l_close", "l_screen", "l_check", "l_poll",
                    "p_pull", "p_close"}
        /\ UNCHANGED <<stage, idx, up>>
    BY <1>1, Zenon DEF StartStage, BuildScreen, LaunchAuth, KeyOpen, KeyCopy,
       KeyClose, LaunchGdbcmd, LaunchScreen, LaunchCheck, PullOpen, PullCopy,
       FirstStep
  <2>2. QED
    BY <2>1, QuietStep DEF Terminal
<1>2. CASE RemoteFailure
  <2>1. pc \in RemoteSteps /\ pc' = "fatal" /\ UNCHANGED <<stage, idx, up>>
    BY <1>2, Zenon DEF RemoteFailure
  <2>2. QED
    BY <2>1, QuietStep DEF RemoteSteps
<1>3. CASE BuildWait
  <2>1. pc = "b_wait" /\ up' = up
    BY <1>3, Zenon DEF BuildWait
  <2>2. CASE pc' = "fatal" /\ UNCHANGED <<stage, idx>>
    BY <2>1, <2>2, QuietStep DEF Terminal
  <2>3. CASE ~(pc' = "fatal" /\ UNCHANGED <<stage, idx>>)
    <3>1. Advance
      BY <1>3, <2>3, Zenon DEF BuildWait
    <3>2. Stages[stage].op = "build"
      BY <1>0, <2>1 DEF IdxOK, BuildPCs
    <3>3. P!Complete
      BY <1>0, <2>1, <3>1, <3>2, AdvanceComplete DEF BuildPCs
    <3>4. QED
      BY <3>3 DEF P!PNext
  <2>4. QED
    BY <2>2, <2>3
<1>4. CASE LaunchPoll
  <2>1. pc = "l_poll" /\ up' = up
    BY <1>4, Zenon DEF LaunchPoll
  <2>2. CASE SockFound /\ ~need
    <3>1. Advance
      BY <1>4, <2>2, Zenon DEF LaunchPoll
    <3>2. cur \in up
      BY <1>0, <2>1, <2>2, SockOwn DEF LaunchPCs
    <3>3. P!Complete
      BY <1>0, <2>1, <3>1, <3>2, AdvanceComplete DEF LaunchPCs
    <3>4. QED
      BY <3>3 DEF P!PNext
  <2>3. CASE ~(SockFound /\ ~need)
    <3>1. pc' \in {"p_open", "fatal", "l_poll"} /\ UNCHANGED <<stage, idx>>
      BY <1>4, <2>3, Zenon DEF LaunchPoll
    <3>2. QED
      BY <2>1, <3>1, QuietStep DEF Terminal
  <2>4. QED
    BY <2>2, <2>3
<1>5. CASE PullClose
  <2>1. pc = "p_close" /\ up' = up /\ Advance
    BY <1>5, Zenon DEF PullClose
  <2>2. cur \in up
    BY <1>0, <2>1 DEF PullUp, PullPCs
  <2>3. P!Complete
    BY <1>0, <2>1, <2>2, AdvanceComplete DEF LaunchPCs
  <2>4. QED
    BY <2>3 DEF P!PNext
<1>6. CASE Finished \/ UNCHANGED vars
       \/ \E h \in Hosts, n \in SessNames, sfx \in Suffixes : SessionEnds(h, n, sfx)
  <2>1. UNCHANGED <<pc, stage, idx, up>>
    BY <1>6, Zenon DEF Finished, vars, SessionEnds
  <2>2. QED
    BY <2>1, StutterStep
<1>7. CASE \E r \in Res : DaemonUp(r)
  BY <1>7, UpStep
<1>8. QED
  BY <1>1, <1>2, <1>3, <1>4, <1>5, <1>6, <1>7
     DEF Next, Orchestrator, Step, Environment


\* The refinement invariant holds initially.
LEMMA InitRInv == Init => RInv
<1> SUFFICES ASSUME Init PROVE RInv
  OBVIOUS
<1>1. SockInv
  BY DEF Init, SockInv
<1>2. PullUp
  BY DEF Init, PullUp, PullPCs
<1>3. QED
  BY <1>1, <1>2, InitIInv DEF RInv

\* run.py implements the pipeline the design describes: the build and
\* launch steps are carried out one at a time in plan order, a launch step
\* is complete only once that resource's daemon is up (launch_gdb_sl's
\* readiness loop), and the run ends with the whole plan done or at its
\* first fatal error.  This holds whenever no two resources of one role
\* share a control directory and the topology has an ION; with no ION,
\* run.py completes every step and then stops on self.sl2objects["ion"].
THEOREM Refinement ==
  ASSUME PrivateCtl, Ion # << >>
  PROVE  Spec => PipelineRefined
<1>1. Init => RInv
  BY InitRInv
<1>2. RInv /\ [Next]_vars => RInv'
  BY NextRInv
<1>3. Init => P!PInit
  BY DEF Init, P!PInit, pProgress, pStatus, Offset
<1>4. RInv /\ [Next]_vars => [P!PNext]_P!pvars
  BY StepRefines
<1>5. QED
  BY <1>1, <1>2, <1>3, <1>4, PTL DEF Spec, PipelineRefined, P!PSpec


-----------------------------------------------------------------------------
\* A step out of the readiness loop other than a failure is the loop of
\* launch_gdb_sl finding its daemon's socket.
LEMMA PollExit ==
  ASSUME PrivateCtl, RInv, [Next]_vars,
         pc = "l_poll", pc' \notin {"l_poll", "fatal"}
  PROVE  cur \in up'
<1>0. TypeOK /\ IdxOK /\ SockInv
  BY DEF RInv, IInv, Inv
<1>1. LaunchPoll
  <2>1. ~(UNCHANGED pc)
    OBVIOUS
  <2>2. \A h \in Hosts, n \in SessNames, sfx \in Suffixes : ~SessionEnds(h, n, sfx)
    BY <2>1, Zenon DEF SessionEnds
  <2>3. \A r \in Res : ~DaemonUp(r)
    BY <2>1, Zenon DEF DaemonUp
  <2>4. ~Finished /\ ~RemoteFailure
    BY DEF Finished, Terminal, RemoteFailure
  <2>5. ~(StartStage \/ BuildScreen \/ BuildWait \/ LaunchAuth \/ KeyOpen
          \/ KeyCopy \/ KeyClose \/ LaunchGdbcmd \/ LaunchScreen \/ LaunchCheck
          \/ PullOpen \/ PullCopy \/ PullClose)
    BY DEF StartStage, BuildScreen, BuildWait, LaunchAuth, KeyOpen, KeyCopy,
       KeyClose, LaunchGdbcmd, LaunchScreen, LaunchCheck, PullOpen, PullCopy,
       PullClose
  <2>6. QED
    BY <2>1, <2>2, <2>3, <2>4, <2>5, Zenon DEF Next, Orchestrator, Step, Environment, vars
<1>2. SockFound /\ up' = up
  <2>1. CASE SockFound
    BY <1>1, <2>1 DEF LaunchPoll
  <2>2. CASE ~SockFound
    <3>1. pc' \in {"l_poll", "fatal"}
      BY <1>1, <2>2, Zenon DEF LaunchPoll
    <3>2. QED
      BY <3>1
  <2>3. QED
    BY <2>1, <2>2
<1>3. cur \in up
  BY <1>0, <1>2, SockOwn DEF LaunchPCs
<1>4. QED
  BY <1>2, <1>3

\* ReadyIsOwn: when no two resources of one role share a control
\* directory, the readiness loop of launch_gdb_sl (the socket test of
\* check_status) lets a resource through only once its own daemon is up.
\* With a shared directory the socket of another host's daemon passes the
\* test (run readiness_shared_ctl).
THEOREM ReadyIsOwnCorrect ==
  ASSUME PrivateCtl
  PROVE  Spec => ReadyIsOwn
<1>1. Init => RInv
  BY InitRInv
<1>2. RInv /\ [Next]_vars => RInv'
  BY NextRInv
<1>3. RInv /\ [Next]_vars => [pc = "l_poll" /\ pc' \notin {"l_poll", "fatal"} => cur \in up']_vars
  BY PollExit
<1>4. QED
  BY <1>1, <1>2, <1>3, PTL DEF Spec, ReadyIsOwn

=============================================================================
