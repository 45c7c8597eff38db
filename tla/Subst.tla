------------------------------- MODULE Subst -------------------------------
(***************************************************************************)
(* The %key% substitution of tsuite.py (repl, replace_rel_dirs) and the   *)
(* order in which TSuite.__init__ resolves its two path tables: build_dirs *)
(* against itself, then src_dirs against itself, then src_dirs against     *)
(* build_dirs.                                                             *)
(*                                                                         *)
(* A string is a sequence of atoms: a literal piece [lit |-> x], or a     *)
(* token %key% written [key |-> k].  repl's regex %([\w_]+)% matches      *)
(* exactly the tokens, and the text it puts in is not scanned again in    *)
(* the same call.                                                          *)
(***************************************************************************)
EXTENDS Naturals, Sequences, SequencesExt, FiniteSets

CONSTANTS
  BuildInit,  \* build_dirs as declared, "base" set by build_base_dir
  SrcInit,    \* src_dirs as declared, "src" set from [source] srcroot
  MaxPasses,  \* bound on the repl calls of one while loop
  MaxLen,     \* bound on the length of a value the loop goes on with
  NoKey       \* no key is being resolved

IsTok(a) == "key" \in DOMAIN a

\* Mutant: lookup.get(key, "") for the lambda, unknown tokens dropped.
ReplDropUnknown(lookup, s) ==
  FlattenSeq([i \in DOMAIN s |->
                IF ~IsTok(s[i]) THEN <<s[i]>>
                ELSE IF s[i].key \in DOMAIN lookup THEN lookup[s[i].key] ELSE <<>>])

\* repl(lookup, string): a token whose key is in lookup becomes lookup's
\* value, any other token is kept with its delimiters.
Repl(lookup, s) ==
  FlattenSeq([i \in DOMAIN s |->
                IF IsTok(s[i]) /\ s[i].key \in DOMAIN lookup
                  THEN lookup[s[i].key] ELSE <<s[i]>>])

\* The keys of lookup a string still refers to.
Refs(lookup, s) == {s[i].key : i \in {j \in DOMAIN s : IsTok(s[j])}} \cap DOMAIN lookup

VARIABLES
  build,   \* self.build_dirs
  src,     \* self.src_dirs
  phase,   \* the replace_rel_dirs call of __init__ that runs, or "done"
  todo,    \* the keys the call's for loop has not reached
  cur,     \* the key whose while loop runs, or NoKey
  passes   \* repl calls made by that while loop

vars == <<build, src, phase, todo, cur, passes>>

\* The dict a call rewrites and the dict it looks keys up in (lines 62,
\* 70, 73 of __init__; lookup is dirs itself when no lookup is given).
Dirs == IF phase = "build" THEN build ELSE src
Lookup == CASE phase = "build" -> build
            [] phase = "src" -> src
            [] OTHER -> build

Init ==
  /\ build = BuildInit
  /\ src = SrcInit
  /\ phase = "build"
  /\ todo = DOMAIN BuildInit
  /\ cur = NoKey
  /\ passes = 0

\* Mutant: the for loop hands out a key it already went through.
PickKeyAgain ==
  /\ phase # "done" /\ cur = NoKey /\ todo # {}
  /\ \E k \in todo : cur' = k /\ todo' = todo
  /\ passes' = 0
  /\ UNCHANGED <<build, src, phase>>

\* for k in dirs: a dict's keys come in no specified order.
PickKey ==
  /\ phase # "done" /\ cur = NoKey /\ todo # {}
  /\ \E k \in todo : cur' = k /\ todo' = todo \ {k}
  /\ passes' = 0
  /\ UNCHANGED <<build, src, phase>>

\* Mutant: the while loop's assignment dirs[k] = replaced left out.
ResolveNoWrite ==
  /\ phase # "done" /\ cur # NoKey /\ passes < MaxPasses
  /\ Len(Dirs[cur]) <= MaxLen
  /\ passes' = passes + 1
  /\ IF Repl(Lookup, Dirs[cur]) = Dirs[cur] THEN cur' = NoKey ELSE UNCHANGED cur
  /\ UNCHANGED <<build, src, phase, todo>>

\* One repl call of the loop: replaced = repl(lookup, dirs[k]); while it
\* differs from dirs[k], dirs[k] = replaced and repl is called again.  When
\* lookup is dirs itself, the next call already sees the new value.
Resolve ==
  /\ phase # "done" /\ cur # NoKey /\ passes < MaxPasses
  /\ Len(Dirs[cur]) <= MaxLen
  /\ passes' = passes + 1
  /\ LET r == Repl(Lookup, Dirs[cur])
     IN IF r = Dirs[cur]
          THEN cur' = NoKey /\ UNCHANGED <<build, src>>
          ELSE /\ IF phase = "build"
                    THEN build' = [build EXCEPT ![cur] = r] /\ UNCHANGED src
                    ELSE src' = [src EXCEPT ![cur] = r] /\ UNCHANGED build
               /\ UNCHANGED cur
  /\ UNCHANGED <<phase, todo>>

\* Mutant: the call against build_dirs (line 73) left out.
NextCallTwo ==
  /\ phase # "done" /\ cur = NoKey /\ todo = {}
  /\ phase' = IF phase = "build" THEN "src" ELSE "done"
  /\ todo' = IF phase' = "done" THEN {} ELSE DOMAIN src
  /\ UNCHANGED <<build, src, cur, passes>>

\* The for loop is over: __init__ makes its next call, or goes on to
\* parse the configuration after the third.
NextCall ==
  /\ phase # "done" /\ cur = NoKey /\ todo = {}
  /\ phase' = CASE phase = "build" -> "src"
                [] phase = "src" -> "srcb"
                [] OTHER -> "done"
  /\ todo' = IF phase' = "done" THEN {} ELSE DOMAIN src
  /\ UNCHANGED <<build, src, cur, passes>>

Finished == phase = "done" /\ UNCHANGED vars

Next == PickKey \/ Resolve \/ NextCall \/ Finished

\* __init__ runs in the one thread of run.py, which keeps taking steps.
Spec == Init /\ [][Next]_vars /\ WF_vars(PickKey \/ Resolve \/ NextCall)

-----------------------------------------------------------------------------
(***************************************************************************)
(* The design's resolution (section 2.4, SourceLayout): every token of a  *)
(* key of the table is expanded, multi-hop, to that key's resolved value; *)
(* src_dirs is resolved against itself and then against the resolved      *)
(* build_dirs.  It is meant for tables without cycles.                    *)
(***************************************************************************)
RECURSIVE ExpandN(_, _, _)
ExpandN(t, s, d) ==
  FlattenSeq([i \in DOMAIN s |->
                IF IsTok(s[i]) /\ s[i].key \in DOMAIN t /\ d > 0
                  THEN ExpandN(t, t[s[i].key], d - 1) ELSE <<s[i]>>])

\* A chain of references without a cycle visits each key at most once.
Expand(t, s) == ExpandN(t, s, Cardinality(DOMAIN t))

BuildDesigned == [k \in DOMAIN BuildInit |-> Expand(BuildInit, BuildInit[k])]
SrcDesigned == [k \in DOMAIN SrcInit |->
                  Expand(BuildDesigned, Expand(SrcInit, SrcInit[k]))]

\* Whatever order the dicts hand out their keys, the three calls of
\* __init__ leave build_dirs and src_dirs as the design resolves them.
ResolvedAsDesigned ==
  phase = "done" => build = BuildDesigned /\ src = SrcDesigned

\* When __init__ goes on to mk_dirs and the parse, no path still holds a
\* %key% of build_dirs or src_dirs: a cycle is reported, never left in a
\* path (design 4.1, TemplateCycleError).
PathsResolved ==
  phase = "done" =>
    \A k \in DOMAIN build \cup DOMAIN src :
      /\ k \in DOMAIN build => Refs(build, build[k]) \cup Refs(src, build[k]) = {}
      /\ k \in DOMAIN src => Refs(build, src[k]) \cup Refs(src, src[k]) = {}

\* A while loop of replace_rel_dirs reaches its fixed point within as many
\* repl calls as the lookup has keys, plus the call that sees no change
\* (design 4.1: a loop past that bound is a cycle and must fail).
CycleBound == passes <= Cardinality(DOMAIN Lookup) + 1

\* __init__ always gets past the substitution.
Terminates == <>(phase = "done")
=============================================================================
