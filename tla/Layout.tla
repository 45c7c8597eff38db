------------------------------- MODULE Layout ------------------------------
(***************************************************************************)
(* The build directories of TSuite.__init__ (tsuite.py): build_base_dir   *)
(* draws a random "sltest.<tsid>" under rootdir until path.exists says it  *)
(* is free, and, after the substitution, mk_dirs makes the base and its    *)
(* four subdirectories with os.makedirs, taking errno 17 (EEXIST) as       *)
(* success.  Several runs of run.py may share one rootdir; the file system *)
(* is the only thing they share.                                           *)
(***************************************************************************)
EXTENDS FiniteSets

CONSTANTS
  Runs,      \* processes running run.py with the same rootdir
  Ids,       \* the values randrange(1, 1 << 24) may return
  Subs,      \* the subdirectories of build_dirs: mp, data, ctl, fs
  Leftover,  \* tsids whose directories earlier runs left under rootdir
  NoId       \* base not chosen yet

\* The leftover directories were drawn by earlier runs from the same
\* randrange.
ASSUME LayoutAssumption == Leftover \subseteq Ids

\* The directories of a layout: the base <<i>> and <<i, s>> below it.
Layout(i) == {<<i>>} \cup {<<i, s>> : s \in Subs}

\* os.makedirs(d) makes d and every missing ancestor of it.
Ancestry(d) == {<<d[1]>>, d}

VARIABLES
  fs,      \* the directories under rootdir
  pc,      \* per run: "pick", "mk", "done" or "fatal"
  base,    \* per run: its tsid, once build_base_dir chose one
  pending, \* per run: the build_dirs values mk_dirs has not reached
  made     \* per run: the directories its makedirs calls created

vars == <<fs, pc, base, pending, made>>

Init ==
  /\ fs = UNION {Layout(i) : i \in Leftover}
  /\ pc = [r \in Runs |-> "pick"]
  /\ base = [r \in Runs |-> NoId]
  /\ pending = [r \in Runs |-> {}]
  /\ made = [r \in Runs |-> {}]

\* Mutant: the path.exists test left out.
PickBaseNoCheck(r) ==
  /\ pc[r] = "pick"
  /\ \E i \in Ids :
       /\ base' = [base EXCEPT ![r] = i]
       /\ pending' = [pending EXCEPT ![r] = Layout(i)]
  /\ pc' = [pc EXCEPT ![r] = "mk"]
  /\ UNCHANGED <<fs, made>>

\* Mutant: self.build_dirs["base"] = base left out.
PickBaseNoRecord(r) ==
  /\ pc[r] = "pick"
  /\ \E i \in Ids :
       /\ <<i>> \notin fs
       /\ pending' = [pending EXCEPT ![r] = Layout(i)]
  /\ pc' = [pc EXCEPT ![r] = "mk"]
  /\ UNCHANGED <<fs, made, base>>

\* build_base_dir: tsid = randrange(...); if path.exists(base) it calls
\* itself again, else self.build_dirs["base"] = base.  __init__ then goes
\* on to mk_dirs(build_dirs.values()).
PickBase(r) ==
  /\ pc[r] = "pick"
  /\ \E i \in Ids :
       /\ <<i>> \notin fs
       /\ base' = [base EXCEPT ![r] = i]
       /\ pending' = [pending EXCEPT ![r] = Layout(i)]
  /\ pc' = [pc EXCEPT ![r] = "mk"]
  /\ UNCHANGED <<fs, made>>

\* One iteration of mk_dirs' for loop over a dict's values, in no given
\* order: makedirs(d) creates what is missing, or raises.  EEXIST is
\* ignored; any other OSError (no permission, no space) returns False and
\* __init__ calls sys.exit(1).
MkDir(r) ==
  /\ pc[r] = "mk"
  /\ \E d \in pending[r] :
       /\ pending' = [pending EXCEPT ![r] = @ \ {d}]
       /\ \/ /\ fs' = fs \cup Ancestry(d)
             /\ made' = [made EXCEPT ![r] = @ \cup (Ancestry(d) \ fs)]
             /\ UNCHANGED pc
          \/ /\ pc' = [pc EXCEPT ![r] = "fatal"]
             /\ UNCHANGED <<fs, made>>
  /\ UNCHANGED base

\* mk_dirs returns True and __init__ goes on with the substitution.
MkDone(r) ==
  /\ pc[r] = "mk" /\ pending[r] = {}
  /\ pc' = [pc EXCEPT ![r] = "done"]
  /\ UNCHANGED <<fs, base, pending, made>>

Stopped == \A r \in Runs : pc[r] \in {"done", "fatal"}

Next ==
  \/ \E r \in Runs : PickBase(r) \/ MkDir(r) \/ MkDone(r)
  \/ Stopped /\ UNCHANGED vars

Spec == Init /\ [][Next]_vars

-----------------------------------------------------------------------------
\* Each run's pending and created directories lie in the layout of the
\* base it recorded.
TypeOK ==
  /\ fs \subseteq UNION {Layout(i) : i \in Ids}
  /\ pc \in [Runs -> {"pick", "mk", "done", "fatal"}]
  /\ base \in [Runs -> Ids \cup {NoId}]
  /\ \A r \in Runs : pending[r] \cup made[r] \subseteq Layout(base[r])

\* A run that got past mk_dirs has a layout of its own: it created every
\* one of its directories itself, none was there before or made by another
\* run (design 3: base "verified non-existing", directories "created, not
\* recreated").
OwnLayout ==
  \A r \in Runs : pc[r] = "done" => Layout(base[r]) \subseteq made[r]
=============================================================================
