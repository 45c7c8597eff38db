---------------------------- MODULE MC_TSuiteRun ----------------------------
(* Small instances of TSuiteRun: two hosts, two MDS and one ION.          *)
EXTENDS TSuiteRun, TLC

CONSTANTS h1, h2, m1, m2, i1

MCHosts == {h1, h2}
MCMds == <<m1, m2>>
MCIon == <<i1>>
\* The first MDS shares its host with the ION.
MCHostOf == (m1 :> h1) @@ (m2 :> h2) @@ (i1 :> h1)
\* build_dirs["ctl"] on a host-local filesystem ...
MCCtlPrivate == (h1 :> "ctl1") @@ (h2 :> "ctl2")
\* ... and on a filesystem shared by both hosts.
MCCtlShared == (h1 :> "ctl") @@ (h2 :> "ctl")
MCNoLeftover == [h \in MCHosts |-> {}]
\* A launch session of a previous run still open on h1.
MCLeftoverSl == (h1 :> {<<<<"sl", m1>>, "">>}) @@ (h2 :> {})
\* A topology file with no ION: every resource is an MDS.
MCNoIon == << >>
MCHostOfNoIon == (m1 :> h1) @@ (m2 :> h2)
=============================================================================
