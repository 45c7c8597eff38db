--------------------------- MODULE RunConfig_proofs -------------------------
(***************************************************************************)
(* Proof that run.py's checks suffice for every configuration file and    *)
(* every build other than svn: TSuite.__init__ never raises KeyError on   *)
(* a configuration main has accepted.  The svn build is left out because *)
(* the claim is false there (run RunConfigSvn): main requires [svn] and   *)
(* not [source], which TSuite.__init__ reads.                              *)
(***************************************************************************)
EXTENDS RunConfig, TLAPS

\* What the for loop of main has established by the time it is running:
\* every required section is present, and the sections it has already
\* passed have every required option.
FieldsChecked ==
  pc = "fields" =>
    /\ DOMAIN Required(build) \subseteq DOMAIN conf
    /\ todo \subseteq DOMAIN Required(build)
    /\ \A s \in DOMAIN Required(build) \ todo : Required(build)[s] \subseteq conf[s]

\* The inductive invariant.
CInv ==
  /\ build \in Builds
  /\ pc \in {"read", "sections", "fields", "started", "exit", "crash"}
  /\ FieldsChecked
  /\ build # "svn" => pc # "crash"

-----------------------------------------------------------------------------
\* check_subset reports nothing exactly when every necessary item is there.
LEMMA CheckSubsetEmpty ==
  ASSUME NEW necessary, NEW check
  PROVE  CheckSubset(necessary, check) = {} <=> necessary \subseteq check
BY DEF CheckSubset

\* The sections main requires of a build other than svn include the two
\* options TSuite.__init__ reads.
LEMMA RequiredReads ==
  ASSUME NEW b, b # "svn"
  PROVE  \A r \in Reads : r[1] \in DOMAIN Required(b) /\ r[2] \in Required(b)[r[1]]
BY DEF Required, Reads

LEMMA InitCInv == Init => CInv
BY DEF Init, CInv, FieldsChecked

\* The for loop over the sections keeps what it has established.
LEMMA FieldsStep ==
  ASSUME CInv, CheckFields
  PROVE  CInv'
<1>1. PICK s \in todo :
        CASE s \notin DOMAIN conf -> pc' = "crash" /\ UNCHANGED todo
          [] CheckSubset(Required(build)[s], conf[s]) = {} ->
               todo' = todo \ {s} /\ UNCHANGED pc
          [] OTHER -> pc' = "exit" /\ UNCHANGED todo
  BY DEF CheckFields
<1>2. pc = "fields" /\ UNCHANGED <<conf, build>>
  BY DEF CheckFields
<1>3. s \in DOMAIN conf
  BY <1>1, <1>2 DEF CInv, FieldsChecked
<1>4. CASE CheckSubset(Required(build)[s], conf[s]) = {}
  <2>1. todo' = todo \ {s} /\ pc' = pc
    BY <1>1, <1>3, <1>4
  <2>2. Required(build)[s] \subseteq conf[s]
    BY <1>4, CheckSubsetEmpty
  <2>3. QED
    BY <1>2, <2>1, <2>2 DEF CInv, FieldsChecked
<1>5. CASE CheckSubset(Required(build)[s], conf[s]) # {}
  <2>1. pc' = "exit"
    BY <1>1, <1>3, <1>5
  <2>2. QED
    BY <1>2, <2>1 DEF CInv, FieldsChecked
<1>6. QED
  BY <1>4, <1>5

\* TSuite.__init__ starts only after the loop, with every option present.
LEMMA StartStep ==
  ASSUME CInv, StartSuite
  PROVE  CInv'
<1>1. /\ pc = "fields" /\ todo = {} /\ UNCHANGED build
      /\ pc' = IF \A r \in Reads : r[1] \in DOMAIN conf /\ r[2] \in conf[r[1]]
                 THEN "started" ELSE "crash"
  BY DEF StartSuite
<1>2. CASE build # "svn"
  <2>1. \A r \in Reads : r[1] \in DOMAIN conf /\ r[2] \in conf[r[1]]
    BY <1>1, <1>2, RequiredReads DEF CInv, FieldsChecked
  <2>2. QED
    BY <1>1, <2>1 DEF CInv, FieldsChecked
<1>3. CASE build = "svn"
  BY <1>1, <1>3 DEF CInv, FieldsChecked
<1>4. QED
  BY <1>2, <1>3

LEMMA NextCInv == CInv /\ [Next]_vars => CInv'
<1> SUFFICES ASSUME CInv, [Next]_vars PROVE CInv'
  OBVIOUS
<1>1. CASE ReadConf
  BY <1>1 DEF ReadConf, CInv, FieldsChecked
<1>2. CASE CheckSections
  <2>1. CASE CheckSubset(DOMAIN Required(build), DOMAIN conf) = {}
    BY <1>2, <2>1, CheckSubsetEmpty DEF CheckSections, CInv, FieldsChecked
  <2>2. CASE CheckSubset(DOMAIN Required(build), DOMAIN conf) # {}
    BY <1>2, <2>2 DEF CheckSections, CInv, FieldsChecked
  <2>3. QED
    BY <2>1, <2>2
<1>3. CASE CheckFields
  BY <1>3, FieldsStep
<1>4. CASE StartSuite
  BY <1>4, StartStep
<1>5. CASE Stopped \/ UNCHANGED vars
  BY <1>5 DEF Stopped, vars, CInv, FieldsChecked
<1>6. QED
  BY <1>1, <1>2, <1>3, <1>4, <1>5 DEF Next

-----------------------------------------------------------------------------
\* ChecksSuffice, for every configuration file and every build but svn: a
\* configuration that passes main's check_subset tests of sections and
\* options never makes TSuite.__init__ raise KeyError.
THEOREM ChecksSufficeCorrect == Spec => [](build # "svn" => ChecksSuffice)
<1>1. Init => CInv
  BY InitCInv
<1>2. CInv /\ [Next]_vars => CInv'
  BY NextCInv
<1>3. CInv => (build # "svn" => ChecksSuffice)
  BY DEF CInv, ChecksSuffice
<1>4. QED
  BY <1>1, <1>2, <1>3, PTL DEF Spec

-----------------------------------------------------------------------------
(***************************************************************************)
(* Refinement: main's checks implement ConfigCheck, for every             *)
(* configuration file, when svn is not among the builds.                  *)
(***************************************************************************)
\* The loop done, main has seen every section and option it requires.
LEMMA LoopComplete ==
  ASSUME CInv, pc = "fields", todo = {}
  PROVE  C!Complete(conf, build)
BY DEF CInv, FieldsChecked, C!Complete

\* The timeout default adds an option and keeps the sections.
LEMMA DefaultOnlyAdds ==
  ASSUME NEW c, NEW c2, c2 = [c EXCEPT !["slash2"] = @ \cup {"timeout"}]
  PROVE  /\ DOMAIN c2 = DOMAIN c
         /\ \A s \in DOMAIN c : c[s] \subseteq c2[s]
BY Zenon

\* A step of main is a step of ConfigCheck or leaves its state alone.
LEMMA StepRefined ==
  ASSUME "svn" \notin Builds, CInv, CInv', [Next]_vars
  PROVE  [C!CNext]_C!cvars
<1>1. build # "svn" /\ pc' # "crash"
  BY DEF CInv
<1>2. CASE pc' = pc /\ UNCHANGED <<conf, build>>
  BY <1>2 DEF C!cvars, cstatus
<1>3. CASE pc \in {"read", "sections", "fields"} /\ pc' = "exit"
           /\ UNCHANGED <<conf, build>>
  BY <1>3 DEF C!CNext, C!Refuse, cstatus
<1>4. CASE pc \in {"read", "sections"} /\ pc' \in {"sections", "fields"}
           /\ UNCHANGED <<conf, build>>
  BY <1>4 DEF C!cvars, cstatus
<1>5. CASE StartSuite
  <2>1. /\ pc = "fields" /\ todo = {} /\ UNCHANGED build
        /\ conf' = [conf EXCEPT !["slash2"] = @ \cup {"timeout"}]
        /\ pc' \in {"started", "crash"}
    BY <1>5 DEF StartSuite
  <2>2. C!Complete(conf, build)
    BY <2>1, LoopComplete
  <2>3. /\ DOMAIN conf' = DOMAIN conf
        /\ \A s \in DOMAIN conf : conf[s] \subseteq conf'[s]
    BY <2>1, DefaultOnlyAdds
  <2>4. C!Start
    BY <1>1, <2>1, <2>2, <2>3 DEF C!Start, cstatus
  <2>5. QED
    BY <2>4 DEF C!CNext
<1>6. QED
  <2>1. CASE ReadConf
    BY <2>1, <1>3, <1>4 DEF ReadConf
  <2>2. CASE CheckSections
    BY <2>2, <1>3, <1>4 DEF CheckSections
  <2>3. CASE CheckFields
    BY <2>3, <1>1, <1>2, <1>3, Zenon DEF CheckFields
  <2>4. CASE Stopped \/ UNCHANGED vars
    BY <2>4, <1>2 DEF Stopped, vars
  <2>5. QED
    BY <2>1, <2>2, <2>3, <2>4, <1>5 DEF Next

\* With no svn build, main's checks implement ConfigCheck: a file is
\* refused or the suite starts on a file that has every required section
\* and option, and the checks never end in a KeyError.
THEOREM ChecksRefinedCorrect ==
  ASSUME "svn" \notin Builds
  PROVE  Spec => ChecksRefined
<1>1. Init => C!CInit
  BY DEF Init, C!CInit, cstatus
<1>2. CInv /\ CInv' /\ [Next]_vars => [C!CNext]_C!cvars
  BY StepRefined
<1>3. Init => CInv
  BY InitCInv
<1>4. CInv /\ [Next]_vars => CInv'
  BY NextCInv
<1>5. QED
  BY <1>1, <1>2, <1>3, <1>4, PTL DEF Spec, ChecksRefined, C!CSpec

=============================================================================
