------------------------------ MODULE RunConfig ----------------------------
(***************************************************************************)
(* run.py's configuration checks (main, lines 56-111) and the first reads *)
(* of the configuration in TSuite.__init__ (tsuite.py 55-56).  A          *)
(* configuration is abstracted to its sections and, per section, the      *)
(* options it sets.                                                        *)
(***************************************************************************)
EXTENDS FiniteSets

CONSTANTS
  Confs,   \* the configuration files that may be given: section -> options
  Builds   \* the values of --build

\* Mutant: any() for all() in the first test.
CheckSubsetAny(necessary, check) ==
  IF necessary \cap check # {} THEN {} ELSE necessary \ (check \cap necessary)

\* check_subset(necessary, check): the necessary items not in check (the
\* first test only spares the list operations when nothing is missing).
CheckSubset(necessary, check) ==
  IF necessary \subseteq check THEN {} ELSE necessary \ (check \cap necessary)

\* The sections dict of main, with the build-dependent section.
Required(b) ==
  LET common == [s \in {"tsuite", "slash2", "tests"} |->
                   CASE s = "tsuite" -> {"rootdir", "logbase"}
                     [] s = "slash2" -> {"conf", "mds_gdb", "ion_gdb", "mnt_gdb"}
                     [] s = "tests" -> {"testdir", "excluded"}]
      extra == IF b = "svn" THEN "svn" ELSE "source"
  IN [s \in DOMAIN common \cup {extra} |->
        IF s = extra THEN (IF b = "svn" THEN {"svnroot"} ELSE {"srcroot"})
        ELSE common[s]]

\* The options TSuite.__init__ reads before anything else can fail.
Reads == {<<"tsuite", "rootdir">>, <<"source", "srcroot">>}

VARIABLES
  conf,    \* conf._sections
  build,   \* args.build
  pc,      \* "read", "sections", "fields", "init", "started", "exit", "crash"
  todo     \* sections whose fields the for loop has not checked

vars == <<conf, build, pc, todo>>

Init ==
  /\ conf \in Confs
  /\ build \in Builds
  /\ pc = "read"
  /\ todo = {}

\* if len(conf.read(args.config_file)) == 0: sys.exit(1).
ReadConf ==
  /\ pc = "read"
  /\ \E readable \in BOOLEAN : pc' = IF readable THEN "sections" ELSE "exit"
  /\ UNCHANGED <<conf, build, todo>>

\* missing = check_subset(list(sections), list(conf._sections)).
CheckSections ==
  /\ pc = "sections"
  /\ IF CheckSubset(DOMAIN Required(build), DOMAIN conf) = {}
       THEN pc' = "fields" /\ todo' = DOMAIN Required(build)
       ELSE pc' = "exit" /\ UNCHANGED todo
  /\ UNCHANGED <<conf, build>>

\* Mutant: the loop passes a section without testing its options.
CheckFieldsNoOptions ==
  /\ pc = "fields"
  /\ \E s \in todo :
       CASE s \notin DOMAIN conf -> pc' = "crash" /\ UNCHANGED todo
         [] OTHER -> todo' = todo \ {s} /\ UNCHANGED pc
  /\ UNCHANGED <<conf, build>>

\* One round of for section in sections, in the dict's order;
\* conf._sections[section] raises KeyError for an absent section.
CheckFields ==
  /\ pc = "fields"
  /\ \E s \in todo :
       CASE s \notin DOMAIN conf -> pc' = "crash" /\ UNCHANGED todo
         [] CheckSubset(Required(build)[s], conf[s]) = {} ->
              todo' = todo \ {s} /\ UNCHANGED pc
         [] OTHER -> pc' = "exit" /\ UNCHANGED todo
  /\ UNCHANGED <<conf, build>>

\* The timeout default (lines 110-111), then TSuite(conf._sections):
\* conf["tsuite"]["rootdir"] and conf["source"]["srcroot"] raise KeyError
\* when the section or option is absent.
StartSuite ==
  /\ pc = "fields" /\ todo = {}
  /\ conf' = [conf EXCEPT !["slash2"] = @ \cup {"timeout"}]
  /\ pc' = IF \A r \in Reads : r[1] \in DOMAIN conf /\ r[2] \in conf[r[1]]
             THEN "started" ELSE "crash"
  /\ UNCHANGED <<build, todo>>

Stopped == pc \in {"started", "exit", "crash"} /\ UNCHANGED vars

Next == ReadConf \/ CheckSections \/ CheckFields \/ StartSuite \/ Stopped

Spec == Init /\ [][Next]_vars

-----------------------------------------------------------------------------
\* A configuration that passes run.py's checks has every option the test
\* suite reads at start-up: a missing one is reported by the checks with
\* "Missing: ...", never found as a KeyError traceback in TSuite.__init__.
ChecksSuffice == pc # "crash"

-----------------------------------------------------------------------------
\* The checks implement ConfigCheck with the sections and options main
\* requires: reading, the sections test and the for loop are the
\* "checking" phase; sys.exit(1) is Refuse; TSuite(conf._sections) after the
\* timeout default is Start.  A crash has no abstract counterpart.
cstatus == IF pc \in {"read", "sections", "fields"} THEN "checking" ELSE pc

C == INSTANCE ConfigCheck WITH status <- cstatus, Need <- Required

\* Main lets TSuite start only on a file that has every section and option
\* it requires, adding nothing but the timeout default, and the checks
\* never end in a KeyError traceback.
ChecksRefined == C!CSpec
=============================================================================
