---------------------------- MODULE Layout_proofs ---------------------------
(***************************************************************************)
(* Proofs about the build directories of TSuite.__init__: the type of the *)
(* layout state for any number of runs sharing a rootdir, and OwnLayout   *)
(* for a rootdir that one run uses at a time.  OwnLayout fails for two    *)
(* runs (run LayoutSharedRoot): between one run's path.exists and its     *)
(* makedirs another run may create the same base.                         *)
(***************************************************************************)
EXTENDS Layout, TLAPS

\* Every directory any layout of a drawn tsid has.
AllDirs == UNION {Layout(i) : i \in Ids}

\* The strengthening of TypeOK: the per-run records are functions, a run
\* still choosing its base has nothing pending or made, and a run past
\* build_base_dir has a tsid.
TInv ==
  /\ TypeOK
  /\ pending \in [Runs -> SUBSET AllDirs]
  /\ made \in [Runs -> SUBSET AllDirs]
  /\ \A r \in Runs : pc[r] = "pick" => made[r] = {} /\ pending[r] = {}
  /\ \A r \in Runs : pc[r] # "pick" => base[r] \in Ids

\* Every directory under rootdir has its base there too: makedirs makes
\* the ancestors of what it makes, and a leftover layout is whole.
Closed == \A x \in fs : <<x[1]>> \in fs

\* The strengthening of OwnLayout for one run: once it has chosen its base,
\* every directory of its layout that exists it made itself, and so did
\* every one mk_dirs has already passed.
OwnSoFar ==
  \A r \in Runs : pc[r] \in {"mk", "done"} =>
    /\ Layout(base[r]) \cap fs \subseteq made[r]
    /\ Layout(base[r]) \ pending[r] \subseteq made[r]
    /\ pc[r] = "done" => pending[r] = {}

OInv == TInv /\ Closed /\ OwnSoFar

-----------------------------------------------------------------------------
\* A directory of a layout lies below its base, and makedirs of it makes
\* only directories of that layout.
LEMMA LayoutFacts ==
  ASSUME NEW i, NEW x \in Layout(i)
  PROVE  /\ x[1] = i
         /\ <<i>> \in Layout(i)
         /\ Ancestry(x) \subseteq Layout(i)
BY DEF Layout, Ancestry

LEMMA InitTInv == Init => TInv
<1> SUFFICES ASSUME Init PROVE TInv
  OBVIOUS
<1>1. fs \subseteq UNION {Layout(i) : i \in Ids}
  BY LayoutAssumption DEF Init
<1>2. QED
  BY <1>1 DEF Init, TInv, TypeOK, AllDirs

\* build_base_dir keeps the type.
LEMMA PickTInv ==
  ASSUME TInv, NEW r \in Runs, PickBase(r)
  PROVE  TInv'
<1>1. PICK i \in Ids :
        /\ base' = [base EXCEPT ![r] = i]
        /\ pending' = [pending EXCEPT ![r] = Layout(i)]
  BY Zenon DEF PickBase
<1>2. /\ pc[r] = "pick" /\ pc' = [pc EXCEPT ![r] = "mk"]
      /\ UNCHANGED <<fs, made>>
  BY DEF PickBase
<1>3. made[r] = {} /\ Layout(i) \subseteq AllDirs
  BY <1>2 DEF TInv, AllDirs
<1>4. QED
  BY <1>1, <1>2, <1>3 DEF TInv, TypeOK

\* One makedirs of mk_dirs keeps the type.
LEMMA MkDirTInv ==
  ASSUME TInv, NEW r \in Runs, MkDir(r)
  PROVE  TInv'
<1>1. PICK d \in pending[r] :
        /\ pending' = [pending EXCEPT ![r] = @ \ {d}]
        /\ \/ /\ fs' = fs \cup Ancestry(d)
              /\ made' = [made EXCEPT ![r] = @ \cup (Ancestry(d) \ fs)]
              /\ UNCHANGED pc
           \/ /\ pc' = [pc EXCEPT ![r] = "fatal"]
              /\ UNCHANGED <<fs, made>>
  BY Zenon DEF MkDir
<1>2. pc[r] = "mk" /\ UNCHANGED base
  BY DEF MkDir
<1>3. base[r] \in Ids /\ d \in Layout(base[r])
  BY <1>2 DEF TInv, TypeOK
<1>4. Ancestry(d) \subseteq Layout(base[r])
  BY <1>3, LayoutFacts, Zenon
<1>6. Layout(base[r]) \subseteq AllDirs
  BY <1>3 DEF AllDirs
<1>5. QED
  BY <1>1, <1>2, <1>3, <1>4, <1>6 DEF TInv, TypeOK

\* mk_dirs returning keeps the type.
LEMMA MkDoneTInv ==
  ASSUME TInv, NEW r \in Runs, MkDone(r)
  PROVE  TInv'
BY DEF MkDone, TInv, TypeOK

LEMMA NextTInv == TInv /\ [Next]_vars => TInv'
<1> SUFFICES ASSUME TInv, [Next]_vars PROVE TInv'
  OBVIOUS
<1>1. CASE \E r \in Runs : PickBase(r)
  BY <1>1, PickTInv
<1>2. CASE \E r \in Runs : MkDir(r)
  BY <1>2, MkDirTInv
<1>3. CASE \E r \in Runs : MkDone(r)
  BY <1>3, MkDoneTInv
<1>4. CASE UNCHANGED vars
  BY <1>4 DEF vars, TInv, TypeOK
<1>5. QED
  BY <1>1, <1>2, <1>3, <1>4 DEF Next

\* TypeOK, for any number of runs sharing a rootdir: every directory under
\* it belongs to the layout of a drawn tsid, and what mk_dirs of a run has
\* pending or has made lies in the layout of the base build_base_dir
\* recorded for that run.
THEOREM LayoutTypeCorrect == Spec => []TypeOK
<1>1. Init => TInv
  BY InitTInv
<1>2. TInv /\ [Next]_vars => TInv'
  BY NextTInv
<1>3. TInv => TypeOK
  BY DEF TInv
<1>4. QED
  BY <1>1, <1>2, <1>3, PTL DEF Spec


-----------------------------------------------------------------------------
\* The leftover layouts are closed under taking the base.
LEMMA InitOInv == Init => OInv
<1> SUFFICES ASSUME Init PROVE OInv
  OBVIOUS
<1>1. TInv
  BY InitTInv
<1>2. Closed
  <2> SUFFICES ASSUME NEW i \in Leftover, NEW x \in Layout(i) PROVE <<x[1]>> \in fs
    BY DEF Init, Closed
  <2>1. <<x[1]>> \in Layout(i)
    BY LayoutFacts, Zenon
  <2>2. QED
    BY <2>1 DEF Init
<1>3. OwnSoFar
  BY DEF Init, OwnSoFar
<1>4. QED
  BY <1>1, <1>2, <1>3 DEF OInv

\* build_base_dir of the only run: a base path.exists finds free has no
\* directory of its layout under rootdir.
LEMMA PickOInv ==
  ASSUME NEW r0, Runs = {r0}, OInv, PickBase(r0)
  PROVE  OwnSoFar'
<1>1. PICK i \in Ids :
        /\ <<i>> \notin fs
        /\ base' = [base EXCEPT ![r0] = i]
        /\ pending' = [pending EXCEPT ![r0] = Layout(i)]
  BY Zenon DEF PickBase
<1>2. /\ pc[r0] = "pick" /\ pc' = [pc EXCEPT ![r0] = "mk"]
      /\ UNCHANGED <<fs, made>>
  BY DEF PickBase
<1>3. Layout(i) \cap fs = {}
  BY <1>1, LayoutFacts, Zenon DEF OInv, Closed
<1>4. QED
  BY <1>1, <1>2, <1>3 DEF OInv, TInv, TypeOK, OwnSoFar

\* One makedirs of the only run: what exists of its layout it made.
LEMMA MkDirOInv ==
  ASSUME NEW r0, Runs = {r0}, OInv, MkDir(r0)
  PROVE  Closed' /\ OwnSoFar'
<1>1. PICK d \in pending[r0] :
        /\ pending' = [pending EXCEPT ![r0] = @ \ {d}]
        /\ \/ /\ fs' = fs \cup Ancestry(d)
              /\ made' = [made EXCEPT ![r0] = @ \cup (Ancestry(d) \ fs)]
              /\ UNCHANGED pc
           \/ /\ pc' = [pc EXCEPT ![r0] = "fatal"]
              /\ UNCHANGED <<fs, made>>
  BY Zenon DEF MkDir
<1>2. pc[r0] = "mk" /\ UNCHANGED base
  BY DEF MkDir
<1>3. d \in Layout(base[r0])
  BY <1>2 DEF OInv, TInv, TypeOK
<1>4. <<d[1]>> \in Ancestry(d) /\ Ancestry(d) \subseteq Layout(base[r0])
  BY <1>3, LayoutFacts, Zenon DEF Ancestry
<1>5. CASE fs' = fs \cup Ancestry(d)
           /\ made' = [made EXCEPT ![r0] = @ \cup (Ancestry(d) \ fs)]
           /\ UNCHANGED pc
  <2>1. Closed'
    <3> SUFFICES ASSUME NEW x \in fs' PROVE <<x[1]>> \in fs'
      BY Zenon DEF Closed
    <3>1. CASE x \in fs
      BY <1>5, <3>1, Zenon DEF OInv, Closed
    <3>2. CASE x \in Ancestry(d)
      <4>1. x[1] = d[1]
        BY <3>2 DEF Ancestry
      <4>2. QED
        BY <1>4, <1>5, <4>1, Zenon
    <3>3. QED
      BY <1>5, <3>1, <3>2
  <2>2. OwnSoFar'
    <3> DEFINE L == Layout(base[r0])
    <3>1. pc'[r0] = "mk" /\ base'[r0] = base[r0]
      BY <1>2, <1>5
    <3>2. /\ made'[r0] = made[r0] \cup (Ancestry(d) \ fs)
          /\ pending'[r0] = pending[r0] \ {d}
      BY <1>1, <1>5 DEF OInv, TInv
    <3>3. L \cap fs \subseteq made[r0] /\ L \ pending[r0] \subseteq made[r0]
      BY <1>2 DEF OInv, OwnSoFar
    <3>4. L \cap fs' \subseteq made'[r0]
      BY <1>5, <3>2, <3>3
    <3>5. d \in Ancestry(d)
      BY DEF Ancestry
    <3>6. L \ pending'[r0] \subseteq made'[r0]
      BY <3>2, <3>3, <3>5
    <3>7. QED
      BY <3>1, <3>4, <3>6 DEF OwnSoFar
  <2>3. QED
    BY <2>1, <2>2
<1>6. CASE pc' = [pc EXCEPT ![r0] = "fatal"] /\ UNCHANGED <<fs, made>>
  BY <1>6 DEF OInv, TInv, TypeOK, OwnSoFar, Closed
<1>7. QED
  BY <1>1, <1>5, <1>6

\* Every step keeps OInv while the rootdir has one run.
LEMMA NextOInv ==
  ASSUME NEW r0, Runs = {r0}, OInv, [Next]_vars
  PROVE  OInv'
<1>1. TInv'
  BY NextTInv DEF OInv
<1>2. CASE PickBase(r0)
  <2>0. fs' = fs
    BY <1>2 DEF PickBase
  <2>1. Closed'
    BY <2>0, Zenon DEF OInv, Closed
  <2>2. QED
    BY <1>1, <1>2, <2>1, PickOInv DEF OInv
<1>3. CASE MkDir(r0)
  BY <1>1, <1>3, MkDirOInv DEF OInv
<1>4. CASE MkDone(r0)
  BY <1>1, <1>4 DEF MkDone, OInv, TInv, TypeOK, OwnSoFar, Closed
<1>5. CASE UNCHANGED vars
  BY <1>1, <1>5 DEF vars, OInv, OwnSoFar, Closed
<1>6. QED
  BY <1>2, <1>3, <1>4, <1>5 DEF Next

\* OwnLayout, for a rootdir that one run of run.py uses at a time: once
\* mk_dirs has returned, build_base_dir's path.exists test has ensured that
\* the run's makedirs calls created every directory of its layout, none
\* being left over from an earlier run.
THEOREM OwnLayoutSingleRun ==
  ASSUME NEW r0, Runs = {r0}
  PROVE  Spec => []OwnLayout
<1>1. Init => OInv
  BY InitOInv
<1>2. OInv /\ [Next]_vars => OInv'
  BY NextOInv
<1>3. OInv => OwnLayout
  BY DEF OInv, OwnSoFar, OwnLayout
<1>4. QED
  BY <1>1, <1>2, <1>3, PTL DEF Spec

=============================================================================
