------------------------- MODULE TSuiteKeys_proofs -------------------------
(***************************************************************************)
(* Proof that every daemon of a run authenticates with one authbuf key    *)
(* (KeyAgreement), for every topology, host assignment, control           *)
(* directory layout and leftover session.  The key the first MDS's daemon *)
(* makes is pulled by pull_authbuf and copied by handle_authbuf to each   *)
(* later resource's host before its launch session starts.                *)
(***************************************************************************)
EXTENDS TSuiteRun_proofs

\* The first MDS: the one launch_mds launches with need_authbuf set.
First == Mds[1]

\* Only a daemon whose launch session this run started comes up.
UpStarted == \A r \in up : SlName(r) \in started

\* Before the key is obtained: only the first MDS has been launched, and
\* the only key on any host is the one its daemon made.
KeysBefore ==
  /\ \A r \in Res : SlName(r) \in started => r = First
  /\ \A h \in Hosts : keyAt[h] # NoKey =>
        /\ First \in up
        /\ h = HostOf[First]
        /\ keyAt[h] = dkey[First]

\* Once it is obtained: the local key is the only key on any host, every
\* daemon up uses it, and every host with a launch session holds it.
KeysAfter ==
  /\ localKey # NoKey
  /\ \A h \in Hosts : keyAt[h] \in {NoKey, localKey}
  /\ \A r \in up : dkey[r] = localKey
  /\ \A r \in Res : SlName(r) \in started => keyAt[HostOf[r]] = localKey

\* The key in transit: what the pull has read, and the copy made before a
\* later resource's launch session starts.
KeyInFlight ==
  /\ ~obtained /\ pc \in LaunchPCs => idx = 1
  /\ pc = "p_close" => localKey = keyAt[host] /\ localKey # NoKey
  /\ pc \in {"l_open", "l_copy", "l_close"} => ~need
  /\ pc \in {"l_close", "l_gdbcmd", "l_screen"} /\ ~need => keyAt[host] = localKey

KInv ==
  /\ UpStarted
  /\ ~obtained => KeysBefore
  /\ obtained => KeysAfter
  /\ KeyInFlight

-----------------------------------------------------------------------------
\* A launch before the key is obtained is the first MDS's.
LEMMA FirstCur ==
  ASSUME IInv, ~obtained, pc \in LaunchPCs, idx = 1
  PROVE  cur = First
<1>1. TypeOK /\ IdxOK /\ AuthInv
  BY DEF IInv, Inv
<1>2. stage \notin 3..4
  BY <1>1 DEF AuthInv
<1>3. stage = 2 /\ role = "mds"
  BY <1>1, <1>2, LaunchStage
<1>4. QED
  BY <1>3 DEF cur, List, First

\* Build session names are never launch session names.
LEMMA TsNotSl ==
  ASSUME NEW x, NEW y
  PROVE  TsName(x) # SlName(y)
BY DEF TsName, SlName

\* A step that leaves the keys, the flag and the sessions alone keeps the
\* invariant as soon as it keeps the in-flight part.
LEMMA KeysSame ==
  ASSUME KInv, UNCHANGED <<keyAt, localKey, obtained, up, dkey, started>>,
         KeyInFlight'
  PROVE  KInv'
BY DEF KInv, UpStarted, KeysBefore, KeysAfter

\* The initial state satisfies the invariant.
LEMMA InitKInv == Init => KInv
<1> SUFFICES ASSUME Init PROVE KInv
  OBVIOUS
<1>1. keyAt = [h \in Hosts |-> NoKey] /\ up = {} /\ started = {} /\ ~obtained
      /\ pc = "start"
  BY DEF Init
<1>2. KeysBefore
  BY <1>1 DEF KeysBefore
<1>3. QED
  BY <1>1, <1>2 DEF KInv, UpStarted, KeyInFlight, LaunchPCs

\* The in-flight part holds after a step into a position it does not
\* constrain.
LEMMA FlightFree ==
  ASSUME pc' \in {"start", "done", "fatal", "b_screen", "b_wait"}
  PROVE  KeyInFlight'
BY DEF KeyInFlight, LaunchPCs

\* Steps that move only the orchestrator inside one workflow, without
\* touching any key, keep the invariant.
LEMMA QuietKeys ==
  ASSUME IInv, KInv, [Next]_vars,
         StartStage \/ BuildWait \/ LaunchAuth \/ KeyOpen \/ KeyClose
         \/ LaunchGdbcmd \/ LaunchCheck \/ LaunchPoll \/ PullOpen
         \/ RemoteFailure
  PROVE  KInv'
<1>0. /\ TypeOK /\ IdxOK /\ AuthInv /\ KeyInFlight
      /\ obtained => KeysAfter
  BY DEF IInv, Inv, KInv
<1>1. UNCHANGED <<keyAt, localKey, obtained, up, dkey, started>>
  BY Zenon DEF StartStage, BuildWait, LaunchAuth, KeyOpen, KeyClose,
     LaunchGdbcmd, LaunchCheck, LaunchPoll, PullOpen, RemoteFailure
<1>2. KeyInFlight'
  <2>1. CASE StartStage
    <3>1. pc = "start" /\ pc' \in {"fatal", "b_screen", "l_auth"}
          /\ UNCHANGED <<stage, idx>>
      BY <2>1, Zenon DEF StartStage, FirstStep
    <3>2. idx = 1
      BY <1>0, <3>1 DEF IdxOK
    <3>3. QED
      BY <1>1, <3>1, <3>2 DEF KeyInFlight, LaunchPCs
  <2>2. CASE BuildWait
    <3>1. pc = "b_wait"
      BY <2>2, Zenon DEF BuildWait
    <3>2. CASE Advance
      <4>1. Stages[stage].op = "build"
        BY <1>0, <3>1 DEF IdxOK, BuildPCs
      <4>2. pc' \in {"start", "done", "b_screen"}
        BY <1>0, <3>1, <3>2, <4>1, AdvanceFacts DEF BuildPCs, FirstStep
      <4>3. QED
        BY <4>2, FlightFree
    <3>3. CASE ~Advance
      <4>1. pc' = "fatal"
        BY <2>2, <3>3, Zenon DEF BuildWait
      <4>2. QED
        BY <4>1, FlightFree
    <3>4. QED
      BY <3>2, <3>3
  <2>3. CASE LaunchAuth
    <3>1. /\ pc = "l_auth" /\ pc' = IF need' THEN "l_gdbcmd" ELSE "l_open"
          /\ UNCHANGED <<stage, idx>>
      BY <2>3, Zenon DEF LaunchAuth
    <3>2. QED
      BY <1>0, <1>1, <3>1 DEF KeyInFlight, LaunchPCs
  <2>4. CASE KeyOpen \/ KeyClose \/ LaunchGdbcmd \/ LaunchCheck \/ PullOpen
    <3>1. /\ \/ pc = "l_open" /\ pc' = "l_copy"
             \/ pc = "l_close" /\ pc' = "l_gdbcmd"
             \/ pc = "l_gdbcmd" /\ pc' \in {"l_screen", "fatal"}
             \/ pc = "l_check" /\ pc' \in {"l_poll", "fatal"}
             \/ pc = "p_open" /\ pc' = "p_pull"
          /\ UNCHANGED <<stage, idx, need>>
      BY <2>4, Zenon DEF KeyOpen, KeyClose, LaunchGdbcmd, LaunchCheck, PullOpen
    <3>2. QED
      BY <1>0, <1>1, <3>1 DEF KeyInFlight, LaunchPCs, host, cur, role
  <2>5. CASE LaunchPoll
    <3>1. pc = "l_poll" /\ UNCHANGED need
      BY <2>5 DEF LaunchPoll
    <3>2. CASE SockFound /\ ~need
      <4>1. Advance
        BY <2>5, <3>2, Zenon DEF LaunchPoll
      <4>2. obtained
        <5>1. pc \in PostAuth
          BY <3>1 DEF PostAuth, LaunchPCs
        <5>2. QED
          BY <1>0, <3>2, <5>1, Zenon DEF AuthInv
      <4>3. pc' \in {"start", "done", "b_screen", "l_auth"}
        BY <1>0, <4>1, AdvanceStage
      <4>4. QED
        BY <1>1, <4>2, <4>3 DEF KeyInFlight, LaunchPCs
    <3>3. CASE ~(SockFound /\ ~need)
      <4>1. pc' \in {"p_open", "l_poll", "fatal"} /\ UNCHANGED <<stage, idx>>
        BY <2>5, <3>3, Zenon DEF LaunchPoll
      <4>2. QED
        BY <1>0, <1>1, <3>1, <4>1 DEF KeyInFlight, LaunchPCs
    <3>4. QED
      BY <3>2, <3>3
  <2>6. CASE RemoteFailure
    <3>1. pc' = "fatal"
      BY <2>6 DEF RemoteFailure
    <3>2. QED
      BY <3>1, FlightFree
  <2>7. QED
    BY <2>1, <2>2, <2>3, <2>4, <2>5, <2>6
<1>3. QED
  BY <1>1, <1>2, KeysSame DEF IInv


\* Launch session names tell resources apart.
LEMMA SlInj ==
  ASSUME NEW x, NEW y, SlName(x) = SlName(y)
  PROVE  x = y
BY DEF SlName

\* Starting a build session (run_screen of a build) starts no launch session.
LEMMA BuildScreenKeys ==
  ASSUME KInv, BuildScreen
  PROVE  KInv'
<1>1. /\ pc' \in {"fatal", "b_wait"}
      /\ UNCHANGED <<keyAt, localKey, obtained, up, dkey>>
      /\ started' \subseteq started \cup {TsName(cur)}
      /\ started \subseteq started'
  BY Zenon DEF BuildScreen
<1>2. \A r : SlName(r) \in started' <=> SlName(r) \in started
  BY <1>1, TsNotSl
<1>3. KeyInFlight'
  BY <1>1, FlightFree
<1>4. QED
  BY <1>1, <1>2, <1>3 DEF KInv, UpStarted, KeysBefore, KeysAfter

\* run_screen of a launch: before the key is obtained the session is the
\* first MDS's; after, handle_authbuf has already put the key on its host.
LEMMA LaunchScreenKeys ==
  ASSUME IInv, KInv, LaunchScreen
  PROVE  KInv'
<1>0. /\ TypeOK /\ IdxOK /\ AuthInv /\ KeyInFlight /\ UpStarted
      /\ ~obtained => KeysBefore
      /\ obtained => KeysAfter
  BY DEF IInv, Inv, KInv
<1>1. /\ pc = "l_screen" /\ pc' = "l_check"
      /\ UNCHANGED <<stage, idx, need, keyAt, localKey, obtained, up, dkey>>
      /\ started' \subseteq started \cup {SlName(cur)}
      /\ started \subseteq started'
  BY Zenon DEF LaunchScreen
<1>2. KeyInFlight'
  BY <1>0, <1>1 DEF KeyInFlight, LaunchPCs
<1>3. UpStarted'
  BY <1>0, <1>1 DEF UpStarted
<1>4. \A r : SlName(r) \in started' => SlName(r) \in started \/ r = cur
  BY <1>1, SlInj
<1>5. CASE ~obtained
  <2>1. cur = First
    BY <1>0, <1>1, <1>5, FirstCur DEF KeyInFlight, LaunchPCs
  <2>2. KeysBefore'
    BY <1>0, <1>1, <1>4, <1>5, <2>1 DEF KeysBefore
  <2>3. QED
    BY <1>1, <1>2, <1>3, <1>5, <2>2 DEF KInv
<1>6. CASE obtained
  <2>1. ~need
    <3>1. pc \in PostAuth
      BY <1>1 DEF PostAuth, LaunchPCs
    <3>2. QED
      BY <1>0, <1>6, <3>1, Zenon DEF AuthInv
  <2>2. keyAt[host] = localKey
    BY <1>0, <1>1, <2>1 DEF KeyInFlight
  <2>3. KeysAfter'
    BY <1>0, <1>1, <1>4, <1>6, <2>2 DEF KeysAfter, host, cur, role
  <2>4. QED
    BY <1>1, <1>2, <1>3, <1>6, <2>3 DEF KInv
<1>7. QED
  BY <1>5, <1>6

\* handle_authbuf's put_file: the key goes to the host of a later resource,
\* once it has been obtained.
LEMMA KeyCopyKeys ==
  ASSUME IInv, KInv, KeyCopy
  PROVE  KInv'
<1>0. /\ TypeOK /\ IdxOK /\ AuthInv /\ KeyInFlight /\ UpStarted
      /\ obtained => KeysAfter
  BY DEF IInv, Inv, KInv
<1>1. /\ pc = "l_copy" /\ pc' = "l_close"
      /\ keyAt' = [keyAt EXCEPT ![host] = localKey]
      /\ UNCHANGED <<stage, idx, need, localKey, obtained, up, dkey, started>>
  BY Zenon DEF KeyCopy
<1>2. ~need
  BY <1>0, <1>1 DEF KeyInFlight
<1>3. obtained
  <2>1. pc \in PostAuth
    BY <1>1 DEF PostAuth, LaunchPCs
  <2>2. QED
    BY <1>0, <1>2, <2>1, Zenon DEF AuthInv
<1>4. host \in Hosts /\ host' = host
  BY <1>0, <1>1, CurFacts DEF LaunchPCs, host, cur, role
<1>5. KeysAfter'
  BY <1>0, <1>1, <1>3, <1>4 DEF KeysAfter
<1>6. keyAt'[host'] = localKey'
  BY <1>0, <1>1, <1>4 DEF TypeOK
<1>8. KeyInFlight'
  BY <1>1, <1>2, <1>3, <1>6 DEF KeyInFlight
<1>7. QED
  BY <1>0, <1>1, <1>3, <1>5, <1>8 DEF KInv, UpStarted


\* pull_authbuf's pull_file: the orchestrator reads the key on the first
\* MDS's host; the key is not yet marked obtained.
LEMMA PullCopyKeys ==
  ASSUME IInv, KInv, PullCopy
  PROVE  KInv'
<1>0. /\ TypeOK /\ IdxOK /\ AuthInv /\ KeyInFlight
  BY DEF IInv, Inv, KInv
<1>1. /\ pc = "p_pull" /\ pc' = "p_close"
      /\ keyAt[host] # NoKey /\ localKey' = keyAt[host]
      /\ UNCHANGED <<stage, idx, need, keyAt, obtained, up, dkey, started>>
  BY Zenon DEF PullCopy
<1>2. ~obtained
  <2>1. pc \in PostAuth /\ pc \in PullPCs
    BY <1>1 DEF PostAuth, LaunchPCs, PullPCs
  <2>2. QED
    BY <1>0, <2>1, Zenon DEF AuthInv
<1>3. host' = host
  BY <1>1 DEF host, cur, role
<1>4. KeyInFlight'
  BY <1>0, <1>1, <1>2, <1>3 DEF KeyInFlight, LaunchPCs
<1>5. QED
  BY <1>1, <1>2, <1>4 DEF KInv, UpStarted, KeysBefore

\* pull_authbuf sets the flag: the key read is the first MDS daemon's, so
\* it is the only key anywhere and every daemon up uses it.
LEMMA PullCloseKeys ==
  ASSUME IInv, KInv, PullClose
  PROVE  KInv'
<1>0. /\ TypeOK /\ IdxOK /\ AuthInv /\ KeyInFlight /\ UpStarted
      /\ ~obtained => KeysBefore
  BY DEF IInv, Inv, KInv
<1>1. /\ pc = "p_close" /\ obtained' = TRUE /\ Advance
      /\ UNCHANGED <<localKey, keyAt, up, dkey, started>>
  BY Zenon DEF PullClose
<1>2. ~obtained
  <2>1. pc \in PostAuth /\ pc \in PullPCs
    BY <1>1 DEF PostAuth, LaunchPCs, PullPCs
  <2>2. QED
    BY <1>0, <2>1, Zenon DEF AuthInv
<1>3. localKey = keyAt[host] /\ localKey # NoKey
  BY <1>0, <1>1 DEF KeyInFlight
<1>4. host \in Hosts
  BY <1>0, <1>1, CurFacts DEF LaunchPCs
<1>5. /\ First \in up /\ host = HostOf[First] /\ dkey[First] = localKey
  BY <1>0, <1>2, <1>3, <1>4 DEF KeysBefore
<1>6. \A h \in Hosts : keyAt[h] \in {NoKey, localKey}
  BY <1>0, <1>2, <1>3, <1>5 DEF KeysBefore
<1>7. \A r \in Res : SlName(r) \in started => r = First
  BY <1>0, <1>2 DEF KeysBefore
<1>8. \A r \in up : dkey[r] = localKey
  BY <1>0, <1>5, <1>7 DEF UpStarted, TypeOK
<1>9. KeysAfter'
  BY <1>1, <1>3, <1>5, <1>6, <1>7, <1>8 DEF KeysAfter
<1>10. pc' \in {"start", "done", "b_screen", "l_auth"}
  BY <1>0, <1>1, AdvanceStage
<1>11. KeyInFlight'
  BY <1>1, <1>10 DEF KeyInFlight
<1>12. QED
  BY <1>0, <1>1, <1>9, <1>11 DEF KInv, UpStarted

\* A daemon coming up keeps a key that is on its host, or makes one there.
LEMMA DaemonKeyFacts ==
  ASSUME TypeOK, NEW r \in Res, DaemonUp(r)
  PROVE  /\ \A x \in Hosts : keyAt[x] # NoKey => keyAt'[x] = keyAt[x]
         /\ \A x \in Hosts \ {HostOf[r]} : keyAt'[x] = keyAt[x]
         /\ keyAt'[HostOf[r]] = dkey'[r] /\ dkey'[r] # NoKey
         /\ \A q \in Res \ {r} : dkey'[q] = dkey[q]
         /\ keyAt' \in [Hosts -> Keys]
         /\ up' = up \cup {r} /\ SlName(r) \in started
         /\ UNCHANGED <<pc, stage, idx, need, obtained, localKey, started>>
<1>1. HostOf[r] \in Hosts
  BY ConstFacts
<1>2. NoKey \notin Hosts
  BY ConstantsAssumption
<1> DEFINE h == HostOf[r]
           k == IF keyAt[h] = NoKey THEN h ELSE keyAt[h]
<1>3. /\ keyAt' = [keyAt EXCEPT ![h] = k]
      /\ dkey' = [dkey EXCEPT ![r] = k]
      /\ up' = up \cup {r} /\ SlName(r) \in started
      /\ UNCHANGED <<pc, stage, idx, need, obtained, localKey, started>>
  BY Zenon DEF DaemonUp
<1>4. k \in Hosts
  BY <1>1 DEF TypeOK, Keys
<1>5. QED
  BY <1>1, <1>2, <1>3, <1>4 DEF TypeOK, Keys


\* A daemon comes up: before the key is obtained it is the first MDS's and
\* makes the only key; after, it finds the obtained key on its host.
LEMMA DaemonUpKeys ==
  ASSUME IInv, KInv, NEW r \in Res, DaemonUp(r)
  PROVE  KInv'
<1>0. /\ TypeOK /\ IdxOK /\ AuthInv /\ KeyInFlight /\ UpStarted
      /\ ~obtained => KeysBefore
      /\ obtained => KeysAfter
  BY DEF IInv, Inv, KInv
<1>1. /\ \A x \in Hosts : keyAt[x] # NoKey => keyAt'[x] = keyAt[x]
      /\ \A x \in Hosts \ {HostOf[r]} : keyAt'[x] = keyAt[x]
      /\ keyAt'[HostOf[r]] = dkey'[r] /\ dkey'[r] # NoKey
      /\ \A q \in Res \ {r} : dkey'[q] = dkey[q]
      /\ keyAt' \in [Hosts -> Keys]
      /\ up' = up \cup {r} /\ SlName(r) \in started
      /\ UNCHANGED <<pc, stage, idx, need, obtained, localKey, started>>
  BY <1>0, DaemonKeyFacts
<1>2. UpStarted'
  BY <1>0, <1>1 DEF UpStarted
<1>3. host' = host
  BY <1>1 DEF host, cur, role
<1>4. HostOf[r] \in Hosts
  BY ConstFacts
<1>5. CASE ~obtained
  <2>1. r = First
    BY <1>0, <1>1, <1>5 DEF KeysBefore
  <2>2. KeysBefore'
    BY <1>0, <1>1, <1>4, <1>5, <2>1 DEF KeysBefore
  <2>3. pc \in {"l_close", "l_gdbcmd", "l_screen"} => need
    <3>1. pc \in {"l_close", "l_gdbcmd", "l_screen"} => pc \in PostAuth
      BY DEF PostAuth, LaunchPCs
    <3>2. QED
      BY <1>0, <1>5, <3>1, Zenon DEF AuthInv
  <2>4. pc = "p_close" => host \in Hosts
    BY <1>0, CurFacts DEF LaunchPCs
  <2>5. KeyInFlight'
    BY <1>0, <1>1, <1>3, <2>3, <2>4 DEF KeyInFlight
  <2>6. QED
    BY <1>1, <1>2, <1>5, <2>2, <2>5 DEF KInv
<1>6. CASE obtained
  <2>1. keyAt[HostOf[r]] = localKey /\ localKey # NoKey
    BY <1>0, <1>1, <1>6 DEF KeysAfter
  <2>2. keyAt' = keyAt
    BY <1>0, <1>1, <1>4, <2>1 DEF TypeOK
  <2>3. dkey'[r] = localKey
    BY <1>1, <2>1, <2>2
  <2>4. KeysAfter'
    BY <1>0, <1>1, <1>6, <2>2, <2>3 DEF KeysAfter, TypeOK
  <2>5. KeyInFlight'
    BY <1>0, <1>1, <1>3, <2>2 DEF KeyInFlight
  <2>6. QED
    BY <1>1, <1>2, <1>6, <2>4, <2>5 DEF KInv
<1>7. QED
  BY <1>5, <1>6

\* Every step of the run keeps the key invariant.
LEMMA NextKInv ==
  ASSUME IInv, KInv, [Next]_vars
  PROVE  KInv'
<1>1. CASE StartStage \/ BuildWait \/ LaunchAuth \/ KeyOpen \/ KeyClose
           \/ LaunchGdbcmd \/ LaunchCheck \/ LaunchPoll \/ PullOpen
           \/ RemoteFailure
  BY <1>1, QuietKeys
<1>2. CASE BuildScreen
  BY <1>2, BuildScreenKeys
<1>3. CASE LaunchScreen
  BY <1>3, LaunchScreenKeys
<1>4. CASE KeyCopy
  BY <1>4, KeyCopyKeys
<1>5. CASE PullCopy
  BY <1>5, PullCopyKeys
<1>6. CASE PullClose
  BY <1>6, PullCloseKeys
<1>7. CASE \E r \in Res : DaemonUp(r)
  BY <1>7, DaemonUpKeys
<1>8. CASE \E h \in Hosts, n \in SessNames, sfx \in Suffixes : SessionEnds(h, n, sfx)
  <2>1. UNCHANGED <<pc, stage, idx, need, keyAt, localKey, obtained, up, dkey, started>>
    BY <1>8, Zenon DEF SessionEnds
  <2>2. KeyInFlight'
    BY <2>1 DEF KInv, KeyInFlight, host, cur, role
  <2>3. QED
    BY <2>1, <2>2, KeysSame
<1>9. CASE Finished \/ UNCHANGED vars
  <2>1. UNCHANGED vars
    BY <1>9 DEF Finished
  <2>2. QED
    BY <2>1 DEF vars, KInv, UpStarted, KeysBefore, KeysAfter, KeyInFlight,
       host, cur, role
<1>10. QED
  BY <1>1, <1>2, <1>3, <1>4, <1>5, <1>6, <1>7, <1>8, <1>9
     DEF Next, Orchestrator, Step, Environment


\* The key invariant gives the agreement: before the key is obtained only
\* the first MDS's daemon can be up; after, every daemon up uses the key.
LEMMA KInvAgreement ==
  ASSUME IInv, KInv
  PROVE  KeyAgreement
<1>0. up \subseteq Res
  BY DEF IInv, Inv, TypeOK
<1>1. CASE ~obtained
  <2>1. \A r \in up : r = First
    BY <1>0, <1>1 DEF KInv, UpStarted, KeysBefore
  <2>2. QED
    BY <2>1 DEF KeyAgreement
<1>2. CASE obtained
  BY <1>2 DEF KInv, KeysAfter, KeyAgreement
<1>3. QED
  BY <1>1, <1>2

-----------------------------------------------------------------------------
\* KeyAgreement: every daemon that comes up during a run authenticates with
\* one authbuf key, whatever the topology, the hosts the resources share,
\* the control directories and the sessions left over from an earlier run.
\* It rests on launch_mds launching the first MDS alone with need_authbuf
\* set, pull_authbuf reading that daemon's key, and handle_authbuf copying
\* it to each later host before launch_gdb_sl starts its session there.
THEOREM KeyAgreementCorrect == Spec => []KeyAgreement
<1>1. Init => IInv /\ KInv
  BY InitIInv, InitKInv
<1>2. IInv /\ KInv /\ [Next]_vars => (IInv /\ KInv)'
  BY NextIInv, NextKInv
<1>3. IInv /\ KInv => KeyAgreement
  BY KInvAgreement
<1>4. QED
  BY <1>1, <1>2, <1>3, PTL DEF Spec

=============================================================================
