# Formal models of the slash2 test-suite orchestrator (`src/utils/tsuite2`)

This directory holds TLA+ models of the slash2 integration test harness `tsuite2`:

- the modules;
- the TLC configurations that model-check them;
- the TLAPS proofs.

Each module is translated from the Python sources. PROJECT.json maps every definition to the lines it models.

## 1. The system

`run.py` reads the configuration. When `[slash2] timeout` is absent it is set to `None` (lines 110-111). It then builds a `TSuite` and calls four stages in order:

1. `build_mds`
2. `launch_mds`
3. `build_ion`
4. `launch_ion`

The `TSuite` constructor (`tsuite.py`) does the following:

- creates the build directories (`build_base_dir`, `mk_dirs`);
- resolves the path templates (`repl`, `replace_rel_dirs`);
- parses the slash2 topology file (`parse_slash2_conf`) into `sl2objects`, a role-to-resource-list registry.

The per-resource workflows are modelled from `managers/sl2gen.py`. `run.py` reaches `TSuite.launch_mds` and `launch_ion` (`tsuite.py` 167-177). Those call the class's own older `__launch_gdb_sl` (`tsuite.py` 179-246), not `sl2gen.launch_gdb_sl`. The older copy has no credential handling and waits for sockets with no bound. As committed it cannot run: it fails at line 192 on the undefined `socks`, and `launch_ion` names `s2objects`. The model follows `sl2gen.py`, the refactored version that carries the design's credential and readiness contracts (design sections 4.4, 4.5 and 9). `__launch_gdb_sl` is not modelled.

- **Build.** `sl_screen_and_wait` runs a shell script in a screen session `ts.<role>.<id>` and gives it the configured timeout. A name that already exists in any form is fatal. It then blocks in `wait_for_screen` until the session is gone. A leftover `-timed` or `-error` session is fatal.
- **Launch.** `launch_gdb_sl` handles each resource in list order:
  1. Credential handling (`handle_authbuf`).
  2. `ls` of the control directory.
  3. Write the `gdbcmd` file from its template (`repl_file`) and copy it to the host.
  4. Start `gdb` in a session `sl.<bin>.<id>`.
  5. Sleep 2 s, then check the session list.
  6. Poll the control directory once per second until a socket name contains the binary name. Stop with a fatal error when `count == int(timeout)`.
  7. For the first MDS only, pull the authbuf key back (`pull_authbuf`).
- **Credentials.**
  - The key comes into existence when the first MDS daemon starts. It is then pulled to the local datadir.
  - Before each later launch, the local key is copied to the host.
  - Both transfers are bracketed by `chmod 0666 ... chmod 0400`.
  - `tsuite.authbuf_obtained` records the pull. Assertions at `sl2gen.py:159` and `:181` guard it.

The remote side is not in the repository. It consists of the `utils.ssh.SSH` transport, the screen wrapper that renames a session to `<name>-timed` or `<name>-error`, and the slash2 daemons. It is modelled from the contract in the design (section 6).

Every step of the orchestrator is one blocking remote call. There is one control thread. The concurrency comes from the remote world, which changes between those calls:

- sessions end;
- daemons come up, create or read the key, and create sockets;
- a transfer fails.

### Python-level defects outside the model

The sources as committed do not run, and several of their defects are not state-machine questions. The model follows the intended control flow and keeps every guard and early exit of the code. These defects are recorded here:

- `tsuite.py` does not parse. It uses Python 2 `except SSHException, e`, and `build_mds` sits at column 0, outside the class.
- `build_ion` has no `self`, and it uses `screen_name` where it defines `sock_name` (line 153-155).
- `launch_ion` (line 171):
  - uses `self.s2objects` instead of `sl2objects`;
  - passes the MDS list;
  - passes `sliod`, which is not a key of `src_dirs`, so the assertion at line 189 (or `sl2gen.py:43`) fails.
- `__launch_gdb_sl` reads `socks` before assigning it (line 192).
- In `sl2gen.py`:
  - `log`, `sys` and `path` are not imported.
  - `handle_authbuf` and `pull_authbuf` are nested and mis-indented.
  - The code catches `IOException`, which does not exist, and calls a `chmod` that is not defined.

The model's stage 4 launches the ION list with `sliod`. That is what `launch_gdb_sl` with the intended arguments does.

## 2. Modules

| module | models | kind |
|---|---|---|
| `TSuiteRun.tla` | run.py's stage sequence; `sl_screen_and_wait`, `launch_gdb_sl`, `handle_authbuf`, `pull_authbuf`; the remote environment | component spec |
| `Pipeline.tla` | what the orchestrator promises: plan steps in order, no partial success | abstract spec, refined by `TSuiteRun` |
| `ConfParser.tla` | `parse_slash2_conf`, with a reference parser of the design's grammar | component spec |
| `Subst.tla` | `repl`, `replace_rel_dirs` and the three substitution calls of `TSuite.__init__` | component spec (TLC only, recursive reference) |
| `Layout.tla` | `build_base_dir` and `mk_dirs`, for runs sharing a rootdir | component spec |
| `RunConfig.tla` | run.py's configuration checks, `check_subset`, the first reads of `TSuite.__init__` | component spec |
| `ConfigCheck.tla` | what the configuration checking promises: refuse, or start on a file with every required option | abstract spec, refined by `RunConfig` |
| `MC_*.tla` | the model values and small instances for TLC | MC modules |
| `TSuiteRun_proofs.tla` | TLAPS proofs of the type invariant, the authbuf assertions, the refinement of `Pipeline` and `ReadyIsOwn` | proofs |
| `TSuiteKeys_proofs.tla` | TLAPS proof of `KeyAgreement` | proofs |
| `TSuiteSessions_proofs.tla` | TLAPS proofs of `NoSilentAttach` (no leftover launch session) and `KeysClosedOnDone` | proofs |
| `ConfParser_proofs.tla` | TLAPS proof of `ConfParser`'s `TypeOK` | proofs |
| `Layout_proofs.tla` | TLAPS proofs of `Layout`'s `TypeOK` and `OwnLayout` | proofs |
| `RunConfig_proofs.tla` | TLAPS proofs of `ChecksSuffice` and of the refinement of `ConfigCheck` | proofs |

### TSuiteRun

**Constants**

- `Mds`, `Ion`: the registry lists, i.e. the parser's result.
- `HostOf`: each resource's `host`.
- `CtlDir`: the control directory each host sees.
- `Timeouts`: the configured timeout values, with `NoTimeout` for `None`.
- `Leftover`: the screen sessions present before the run.
- `PollCap`: the bound of the poll counter.
- `NoKey`: the "no key file" value.

`ConstantsAssumption` states what the parser guarantees (injective lists and disjoint roles) and the types of the constants.

**Orchestrator state**

- `pc`: the position in the current resource's workflow.
- `stage`, `idx`: the position in run.py and in the resource list.
- `tout`: the configured timeout.
- `count`: the poll counter.
- `need`: `need_authbuf`.
- `obtained`: `tsuite.authbuf_obtained`.
- `localKey`, `localMode`: the local key file and its mode.

**Remote state**

- `keyAt`: the key file in each host's datadir.
- `srcMode`: the mode of the pulled key.
- `scr`: the sessions per host, as name and suffix.
- `socks`: the sockets per control directory.
- `started`, `up`: history, i.e. the sessions this run created and the daemons that came up.
- `dkey`: the key each daemon uses.

**Actions**

Each action is one remote call or one local step of the code, with the code's guard and its fatal exits. `pc' = "fatal"` stands for `sys.exit(1)` and for an uncaught exception.

- `StartStage`: indexing `sl2objects[role]`. It raises `KeyError` when no resource of that role was parsed.
- `BuildScreen`, `BuildWait`: `run_screen` and `wait_for_screen`. `BuildWait` is enabled only once the session has ended.
- `LaunchAuth`: the `need_authbuf` test. It is followed by `KeyOpen`, `KeyCopy`, `KeyClose` (chmod 0666, copy, chmod 0400).
- `LaunchGdbcmd`: the template is readable or not.
- `LaunchScreen`: its collision result is ignored.
- `LaunchCheck`: the sleep and the session-list test. It also sets `count = 0`.
- `LaunchPoll`: one loop iteration. `SockFound` is the substring test of line 101, on the socket's binary name.
- `PullOpen`, `PullCopy`, `PullClose`: `pull_authbuf`. `PullClose` also advances to the next resource.
- `RemoteFailure`: an `SSHException` or `IOError` in any remote step.
- `Finished`: the process has exited.

The environment has two actions:

- `SessionEnds(h, n, sfx)`: a running session ends cleanly, with an error, or (build sessions only, the only ones given a timeout) timed out.
- `DaemonUp(r)`: the daemon of a launched session reads the key in its datadir, or creates one, and creates its control socket.

`Advance` is the `for` loop followed by the next call of run.py.

The poll counter saturates at `PollCap`. This is sound for the properties:

- `ConstantsAssumption` requires every positive timeout to be at most `PollCap`, so the exit test `count + 1 = tout` is evaluated exactly as in the code;
- beyond `PollCap` the code's loop never stops anyway.

### Pipeline and the refinement

`Pipeline` is the design's promise about a run (sections 2 and 7).

- `Plan` is the sequence of build and launch steps.
- The variables are `progress` (steps done), `status` (`running`, `done` or `fatal`) and `up` (daemons up).
- `Complete` carries out the next step. A launch step can complete only when its resource's daemon is up, and the last step ends the run with `done`.
- `Fail` stops a running run. `Up(r)` is a daemon coming up.

`TSuiteRun` instantiates it with `P == INSTANCE Pipeline WITH progress <- pProgress, status <- pStatus`.

- `Plan` is build MDS, launch MDS, build ION, launch ION, over the registry lists.
- `pProgress` is `Offset(stage) + idx - 1`: the steps of the earlier stages and the earlier resources of this one. It is `Len(Plan)` once `pc = "done"`.
- `pStatus` follows `pc`.

Under this mapping:

- every `Advance` is a `Complete`;
- every fatal exit is a `Fail`;
- `DaemonUp` is `Up`;
- every other step is a stutter.

`PipelineRefined` (`P!PSpec`) therefore says four things:

- the loops of run.py and `launch_gdb_sl` neither skip nor reorder a resource;
- a launch is finished only once its own daemon is up;
- `done` comes only after the whole plan;
- nothing runs after a fatal error.

### ConfParser

**Abstraction.** A topology file is a sequence of line records. Each record carries:

- `k`: which regex of the `reg` table the line matches, or `cont`/`other`;
- `v`: the captured value;
- `hex`: the id is written `0x...`;
- `semi`, `comma`: the line contains `;`, or a comma after its first host.

`Match` is the dispatch of lines 332-342. A hexadecimal id matches no regex.

**State.** The variables are those of `parse_slash2_conf`:

- `pos`: the `readline` position;
- `in_site`, `site_name`, `site_id`, `fsuuid`, `res`;
- `ifsLine`: the ifs line being continued;
- `reg`: `sl2objects`;
- `newconf`: the indices of the lines copied to slash.conf.

**Actions.** There is one action per branch of the `if matches:` tree:

- `SiteIdLine`, `FieldLine`, `IfsLine` with `IfsMore` (the inner `while ";" not in line` loop);
- `FinResLine`, `NewResLine`, `SiteLine`, `FsuuidLine`;
- `OtherLine` for a line that changes nothing;
- `Open`, the `open()`/`IOError` path, and `WriteConf`, the write of slash.conf.

`IfsHost` is what `re.split` of lines 377-378 yields on the concatenated text. It is the captured first host when the ifs line has `;`, or a comma after that host. Otherwise the result is a mangled string (`Mangled`).

`SL2Res` and `finalize` are not in the repository. `NewResource` and `Finalizable` model them from the design: a type, an id and a host are required, plus the role's fields.

**Reference.** `RefRun(f)` is a reference parser of the design's grammar (sections 4.2 and 6), written as a recursive function over the lines:

- block nesting errors are fatal;
- each site sets the site context;
- the host is the first token of the whole ifs text;
- hexadecimal ids are accepted.

**Properties.**

- `ParseAgrees`: a successful parse yields the reference's registry, and a rejected file is one the reference rejects.
- `ConfCopied`: every line of the input reaches slash.conf.

### Subst

**Abstraction.** A string is a sequence of atoms, each a literal piece or a token `[key |-> k]`. `Repl` is one `re.sub` pass: a token of a key in the lookup becomes its value (not rescanned), and other tokens are kept with their delimiters.

**State and actions.**

- `build` and `src` are the two class dicts.
- `phase` is the `replace_rel_dirs` call of `__init__` that is running: build against build, src against src, then src against build.
- `todo` and `cur` are the for loop and its key. The key order is free, because a dict's key order is unspecified.
- `passes` counts the repl calls of the while loop, which rewrites `dirs[k]` in place, so later repl calls already see the new value.

**Reference.** `Expand` is the design's multi-hop resolution (a recursive operator, for TLC only).

**Properties.**

- `ResolvedAsDesigned`: in every key order the result equals that resolution.
- `PathsResolved`: no path keeps a token of either table.
- `CycleBound`: each while loop ends within the number of keys plus one repl calls, the bound the design gives for a cycle check.
- `Terminates`: `__init__` gets past the substitution, under weak fairness of its own steps (it is the single thread of run.py).

**Bounds.** `MaxPasses` and `MaxLen` bound the loop. They never bind on the real tables, which resolve in at most three passes per key.

### Layout

- **State.** `fs` holds the directories under the shared rootdir, as `<<tsid>>` and `<<tsid, sub>>`. Each run has `pc`, `base`, `pending` (the values `mk_dirs` has not reached) and `made` (the directories its own `makedirs` calls created).
- **`PickBase`.** This is `build_base_dir`. A drawn tsid whose directory exists is drawn again; the recursion is modelled as the choice of a free one.
- **`MkDir`.** One `makedirs` of `mk_dirs`, in any order. It creates missing ancestors, or fails with an error other than EEXIST, which ends the run (`sys.exit(1)` in `__init__`).
- **`OwnLayout`.** A run past `mk_dirs` made every directory of its layout itself.

### RunConfig

A configuration is a function from its sections to their option sets.

- `ReadConf`, `CheckSections` and `CheckFields` are lines 56-108 of run.py. The section loop runs in the dict's order, and `conf._sections[section]` raises KeyError on a missing section.
- `CheckSubset` is `check_subset` on sets. The order of the lists only changes the message.
- `StartSuite` is the timeout default followed by `TSuite.__init__`'s reads of `[tsuite] rootdir` and `[source] srcroot`.
- `ChecksSuffice`: a configuration the checks accept never crashes those reads.
- `ChecksRefined`: `RunConfig` implements `ConfigCheck` under the mapping `cstatus`. Reading and the two checks map to "checking", `sys.exit(1)` to `Refuse`, and `StartSuite` to `Start`. `Start` requires every section and option of `Required(build)` and lets the defaults only add options. A crash has no abstract step, so the refinement also rules it out.

## 3. Runs

The `TSuiteRun` runs use 2 hosts, MDSes `m1@h1` and `m2@h2`, and ION `i1@h1`, with `PollCap = 2`. These bounds cover the cases the properties are about:

- two MDSes, so the key is pulled from one and copied to the other;
- an ION sharing a host with an MDS, so that two daemons share a control directory in the shared-directory instance;
- timeouts `None`, 1 and 2, so the loop can fail on its first or its second round, or never.

| run | cfg | expect | checks |
|---|---|---|---|
| `tsuite_run` | `TSuiteRun.cfg` | pass | `TypeOK`, `AssertionsHold`, `KeyAgreement`, `KeysClosedOnDone`, `ReadyIsOwn`, `PollingEnds`, `RunEnds`, `PipelineRefined` |
| `readiness_shared_ctl` | `ReadinessShared.cfg` | violation | `ReadyIsOwn` with one control directory for both hosts |
| `poll_timeout_zero` | `PollTimeoutZero.cfg` | violation | `PollingEnds` with `timeout = 0` |
| `leftover_session` | `LeftoverSession.cfg` | violation | `NoSilentAttach` with `sl` session of `m1` left over on `h1` |
| `key_left_open` | `KeyLeftOpen.cfg` | violation | `KeyNotLeftOpen` |
| `conf_parser` | `ConfParser.cfg` | pass | `TypeOK`, `ParseAgrees` on 18 well-formed files |
| `parser_unterminated` | `ParserUnterminated.cfg` | violation | `ParseAgrees`, an ifs list without `;` |
| `parser_two_sites` | `ParserTwoSites.cfg` | violation | `ParseAgrees`, two site blocks |
| `subst` | `Subst.cfg` | pass | `PathsResolved`, `ResolvedAsDesigned`, `CycleBound`, `Terminates` on the real tables |
| `layout` | `Layout.cfg` | pass | `TypeOK`, `OwnLayout`: one run, tsids 1-3, tsid 1 left over |
| `run_config` | `RunConfig.cfg` | pass | `ChecksSuffice`, `ChecksRefined` with `--build src` |
| `run_config_svn` | `RunConfigSvn.cfg` | violation | `ChecksSuffice` with `--build svn` too |

Seven more configurations are not among the runs. Each shows one more divergence with TLC, and each is named by a hazard in PROJECT.json:

| cfg | property violated | input |
|---|---|---|
| `ParserIfsNextLine.cfg` | `ParseAgrees` | first host of an ifs on a continuation line |
| `ParserHexId.cfg` | `ParseAgrees` | `id = 0x1;` |
| `ParserConfCopy.cfg` | `ConfCopied` | the well-formed files |
| `SubstSelfRef.cfg` | `PathsResolved` | srcroot `%src%` |
| `SubstRunaway.cfg` | `CycleBound` | srcroot `%tsbase%` |
| `LayoutSharedRoot.cfg` | `OwnLayout` | two runs, tsids 1-2 |
| `TSuiteRunNoIon.cfg` | `PipelineRefined` | two MDSes, no ION: every step done, then KeyError in `build_ion` |

**The properties of the pass run**

- `AssertionsHold`: the two authbuf assertions never fail.
- `KeyAgreement`: every daemon that came up uses the same key. This depends on:
  - the stage order;
  - the pull happening after the first MDS's daemon created the key;
  - every later copy happening before the daemon starts.
- `KeysClosedOnDone`: a run that reaches the end of run.py has closed both chmod 0666 / 0400 brackets of the key transfers. Its mutant `KeyCloseNoChmod` drops the chmod 0400.
- `ReadyIsOwn` (action property): the readiness loop lets a resource through only once that resource's own daemon is up.
- `PollingEnds` and `RunEnds`: the readiness loop always ends, and with a positive timeout the run always ends.
- `PipelineRefined`: the run implements `Pipeline` (section 2).

**What the violation runs show** (the findings in PROJECT.json)

- A shared control directory makes readiness pass on another daemon's socket. `present_socks` (line 59) is computed and never used.
- A timeout of 0 makes the loop endless.
- A leftover launch session is silently accepted.
- A failed transfer leaves a key at mode 0666.

- With the `svn` build mode, the checks accept a file without `[source]`, and `TSuite.__init__` then dies with KeyError on `conf["source"]["srcroot"]`.
- The parser, against the design's grammar:
  - an ifs list without `;` swallows the rest of the file, and the parse still succeeds with the resource lost;
  - `in_site` is never reset, so a second site is ignored and its resources get the first site's name;
  - the host of a multi-line ifs is mangled unless the first host sits on the ifs line before a comma or `;`;
  - a hexadecimal id is rejected;
  - the ifs continuation and terminator lines never reach slash.conf.
- Substitution:
  - a cycle through srcroot is either left silently unresolved (`%src%`) or makes the while loop run forever with a value that doubles on each pass (`%tsbase%`);
  - the design asks for a TemplateCycleError.
- Two runs sharing a rootdir can draw the same tsid and share one base. `path.exists` and `makedirs` are separate steps, and EEXIST is ignored. With 2^24 tsids this is rare, so the instance uses two tsids to reach it.

**Bounds of the other modules**

- **Parser.** The files combine every directive kind the parser distinguishes: both roles, one- and three-line ifs, a missing required field, a file-scope fsuuid and comment lines. The violation files are the smallest that show each divergence.
- **Substitution.** It runs on the real `build_dirs` and `src_dirs` (5 and 12 keys), in every order of the keys.
- **Layout.** One leftover layout and two free tsids exercise the retry of `build_base_dir` and every order of `makedirs`, including a subdirectory made before its base.
- **Configuration.** It uses the complete file and every file with one section or one option left out.

**Mutants.** Every property of the pass run has a mutant of the code that TLC catches:

- the stage bound tested with `<=`;
- every MDS pulling the key;
- the copy left out;
- any socket ending the loop;
- the counter starting at 1;
- the index never advancing.

The refinement is broken by an off-by-one in `Advance` that skips the last resource of each list. The other modules' mutants are:

- `Copy` appending the next line instead of the current one;
- `res` not reset after finalize;
- the third `replace_rel_dirs` call left out;
- `repl` dropping unknown tokens;
- the while loop's assignment left out;
- the for loop handing out a key twice;
- the `path.exists` test left out;
- `build_dirs["base"]` not recorded;
- `any()` for `all()` in `check_subset`.

**Fairness**

- `WF_vars(Step)`: the orchestrator is a running process and keeps taking its own steps. Remote failures are allowed but never forced.
- Weak fairness of each build session ending when the timeout is positive: `run_screen` hands that timeout to the session wrapper, which ends the session.
- Launch sessions and daemons get no fairness. Nothing in the code makes a daemon come up, which is why the readiness loop needs its bound.
- `Subst` assumes weak fairness of `__init__`'s own steps, for the same reason. `ConfParser`, `Layout` and `RunConfig` check only safety, and assume no fairness.

## 4. Proofs

`TSuiteRun_proofs.tla` proves four theorems with TLAPS (the fourth, `ReadyIsOwnCorrect`, is described after the refinement):

- `TypeCorrect`: `Spec => []TypeOK`, for every value of the constants.
- `AssertionsCorrect`: `Spec => []AssertionsHold`, for every value of the constants. That is, `need_authbuf` is true for exactly the first MDS and for no ION, and `pull_authbuf` is never entered twice.
- `Refinement`: `Spec => PipelineRefined` (the refinement of `Pipeline` that the `tsuite_run` run checks). It holds under two hypotheses on the constants, and each is needed:
  - `Ion # << >>`. With no ION, run.py carries out the whole plan and then dies on `self.sl2objects["ion"]`; `TSuiteRunNoIon.cfg` shows the violation.
  - `PrivateCtl`: no two resources of one role share a control directory. Otherwise another daemon's socket ends the readiness loop, which the `readiness_shared_ctl` run shows.

`TypeOK` is not inductive on its own. The inductive invariant adds `IdxOK`:

- at a stage start, `idx = 1`;
- inside a workflow, `idx` points into the current list;
- the workflow is the one the stage calls for.

`AssertionsHold` needs `AuthInv` on top of that:

- stages 3 and 4 run with the key obtained;
- after `handle_authbuf`, `need = ~obtained`;
- the pull runs only when `need` holds.

The proof of `IInv /\ [Next]_vars => IInv'` has one step per action. It rests on these lemmas:

- `LaunchStage`: a launch runs in stage 2 with role `mds`, or in stage 4 with role `ion`.
- `AdvanceStage`: `Advance` moves at most one stage on, and only into a stage's start.
- `AuthSame`: steps that touch no flag keep `AuthInv`.

TLC checks `IInv` on the instances above.

The refinement proof strengthens `IInv` to `RInv`:

- `SockInv`: every socket in a control directory was made by a daemon that is up, on a host using that directory, and is named after that daemon's binary.
- `PullUp`: `pull_authbuf` runs only for a resource whose daemon is up.

From `SockInv` and `PrivateCtl`, the lemma `SockOwn` shows that a socket found by the readiness loop belongs to the current resource. So a launch step completes only when its daemon is up.

`PlanFacts` computes the plan through its three concatenations (via `ConcatProperties` of SequenceTheorems): the `i`-th resource of stage `s` is step `Offset(s) + i`. The steps then map as follows:

- `AdvanceComplete`: every `Advance` is a `Complete`.
- `QuietStep`: a step inside a workflow is a stutter, and a fatal exit is a `Fail`.
- `UpStep`: `DaemonUp` is `Up`.
- `StutterStep`: the screen sessions' steps are stutters.

The theorem combines these with `PTL`, in the layout of the TLAPS two-phase example. `RInv` was model-checked as an invariant of the `tsuite_run` instance before it was proved.

`ReadyIsOwnCorrect` in the same module proves the action property `ReadyIsOwn` under `PrivateCtl`. Its lemma `PollExit` shows that the only step out of `l_poll` other than a failure is `LaunchPoll` finding a socket. `SockOwn` then says the socket is the current resource's.

### KeyAgreement (`TSuiteKeys_proofs.tla`)

`KeyAgreementCorrect` proves `Spec => []KeyAgreement` for every value of the constants. There is no hypothesis: shared control directories, resources sharing a host and leftover sessions are all covered. The inductive invariant `KInv` is conjoined with `IInv`:

- `UpStarted`: a daemon is up only if this run started its launch session.
- `KeysBefore`, while the key is not obtained:
  - only the first MDS (`Mds[1]`) has a launch session;
  - any key on a host is on that MDS's host and is its daemon's key.
- `KeysAfter`, once it is obtained:
  - every key on a host is `localKey`;
  - every daemon up uses it;
  - every host with a launch session holds it.
- `KeyInFlight`, the key in transit:
  - the launch before the pull is at index 1, which is the first MDS by `FirstCur`;
  - at `p_close`, `localKey` is the key read from the host;
  - after `handle_authbuf` the copy is on the current host before `run_screen`.

The step proof has one lemma per action that touches keys or sessions:

- `BuildScreenKeys`
- `LaunchScreenKeys`
- `KeyCopyKeys`
- `PullCopyKeys`
- `PullCloseKeys`: `pull_authbuf` setting the flag turns `KeysBefore` into `KeysAfter`.
- `DaemonUpKeys`: a daemon keeps the key on its host, or makes one there.

`QuietKeys` covers the other orchestrator steps. TLC checked `KInv` as an invariant on four instances before the proof: private and shared control directories, each with and without a leftover session, and with two MDSs on one host.

### RunConfig (`RunConfig_proofs.tla`)

`ChecksSufficeCorrect` proves `Spec => [](build # "svn" => ChecksSuffice)` for every set of configuration files. The svn build is excluded because the property is false there: `run_config_svn` shows it.

The inductive invariant `CInv` adds `FieldsChecked`: while the section loop runs, every required section is present, and every section already passed has its required options. `CheckSubsetEmpty` shows that `check_subset` reports nothing exactly when the necessary list is a subset. `RequiredReads` shows that a non-svn build requires both options `TSuite.__init__` reads.

The refinement `ChecksRefinedCorrect` proves `Spec => ChecksRefined` under the hypothesis `"svn" \notin Builds`. `run_config_svn` shows the hypothesis is needed: with svn, `StartSuite` crashes. The step lemma `StepRefined` uses `CInv` in both states:

- `LoopComplete`: when the loop is done, `FieldsChecked` with `todo = {}` is the abstract `Complete`.
- `DefaultOnlyAdds`: the timeout default keeps the sections and only adds an option.
- Every other step either stutters in "checking" or is `Refuse`.
- A step to "crash" contradicts `CInv'`.

### Launch sessions and key modes (`TSuiteSessions_proofs.tla`)

`NoSilentAttachCorrect` proves `Spec => NoSilentAttach` under the hypothesis `NoSlLeftover`: no `sl` session of the run's resources is on a host before the run. `leftover_session` shows that without it the launch check attaches to the old session. The inductive invariant `SlStarted` says every `sl` session on a host, running or renamed, is one this run created. It holds for three reasons:

- `run_screen` adds a session and records it in `started` (`AddSession`);
- the wrapper renames or removes a session but keeps its name (`EndSession`);
- nothing else touches the sessions.

`CheckStarted` then shows that the only step from `l_check` to `l_poll` is `LaunchCheck` finding `<<SlName(cur), "">>` on the current host.

`KeysClosedCorrect` proves `Spec => []KeysClosedOnDone`: a run that reaches `done` has both key files back at 0400. The invariant `ModesClosed` locates the brackets: the local key is 0666 only at `l_copy`, `l_close` or `fatal`, and the source key only at `p_pull`, `p_close` or `fatal`. `NextModes` has one case per chmod. Every other step either leaves the modes alone and stays in a bracket, or starts outside both brackets (`AdvanceOutside`, `ModesSame`). The `fatal` exits are where `KeyNotLeftOpen` fails, and `key_left_open` shows it.

### Layout (`Layout_proofs.tla`)

`LayoutTypeCorrect` proves `Spec => []TypeOK` for any set of runs sharing a rootdir. It uses the assumption `LayoutAssumption` (`Leftover \subseteq Ids`): leftover tsids come from the same `randrange`. The inductive invariant `TInv` adds three facts:

- the per-run records are functions;
- a run still picking has nothing pending or made;
- a run past `build_base_dir` has a tsid.

`OwnLayoutSingleRun` proves `Spec => []OwnLayout` when `Runs = {r0}`. With two runs it is false, which `LayoutSharedRoot` shows. The strengthening `OInv` adds two facts:

- `Closed`: every directory has its base present, because `makedirs` makes ancestors and leftover layouts are whole. So a free base means a free layout.
- `OwnSoFar`: what exists of a run's layout, and what `mk_dirs` has passed, the run made itself.

### ConfParser (`ConfParser_proofs.tla`)

`ParserTypeCorrect` proves `Spec => []TypeOK` for every set of files. It uses the assumption `ConfParserAssumption`: a file is a sequence of line records. The invariant `PInv` types the rest of the scanner:

- `site_name`, `site_id` and `fsuuid`;
- `res`, which is `NoVal` or a resource;
- the inner ifs loop, which runs only with a resource open and a saved ifs line.

The lemmas `SetField`, `NewResourceType`, `IfsHostType` and `Finalize` type the resource operations.

TLC checked each strengthening (`KInv`, `CInv`, `TInv`, `OInv`, `PInv`, `SlStarted`, `ModesClosed`) as an invariant of its runs' instances before it was proved.

**Only model-checked**

- `PollingEnds` and `RunEnds`. These are liveness properties under fairness, which is out of the prover's reach, as is `ENABLED`.
- `ConfParser`'s `ParseAgrees`. It compares the parser with `RefRun`, a fold over the whole file, so a proof is an induction over the file. The installed provers cannot instantiate the library's induction theorems. The property also holds only for well-formed files, and four runs show the files where it fails.
- `Subst`'s four properties. `Subst.tla` declares RECURSIVE operators, which remove the SMT backend from any module that reaches them.
- `KeyNotLeftOpen`. It is stated only to be violated. What holds instead, `KeysClosedOnDone`, is proved. `NoSilentAttach` is proved only under `NoSlLeftover`; without that hypothesis it is false.

## 5. Not modelled

- **The stop workflow** (`stop_slash2_socks`). `run.py` never calls it.
- **`repl_file`.** It is a pure read-and-substitute, seen in `TSuiteRun` only through its result, readable or not.
  - An empty template makes `repl_file` return `""`. The caller's `if new_gdbcmd:` (`sl2gen.py:71`) then takes it for the unreadable case. The design says the two must never be mixed.
  - Nothing in the model tells an empty template from a full one, so this is only noted here.
- **The `zpool_cache` path.** The parser records it as `path.join(base, ...)`. It is data the model abstracts away.
- **Outside this code:**
  - the SSH transport and screen wrapper, which are not in the repository and form the environment of `TSuiteRun`;
  - argument parsing and logging set-up;
  - the Flask result browser, a read-only view.
- **Parser assertion.** The assertion that at most one regex matches a line (`tsuite.py:338`) is not modelled as a state. `Match` assigns each line record a single kind.

See PROJECT.json for every component's status.
