# NetworkManager-ci in TLA+

NetworkManager-ci runs several thousand integration tests of NetworkManager on
real hosts. A test may do anything to its host: stop the service, replace its
configuration, crash it, hang. The harness promises that the next test finds
the host as this one did, that a test is reported as what it was, and that a
run ends, on one host and on the machines a merge request is tested on. The
modules in this directory model the parts of the harness that keep those
promises; TLC checks them on small instances, and the TLA+ proof system proves
the central ones for every value of the constants.

Paths below are relative to the repository root.

## 1. The system

### Components, their state and operations

| Component | Code | State | Operations | Correct if |
|---|---|---|---|---|
| Cleanup registry | `nmci/cleanup.py` | `_cleanup_lst`, ordered by priority | construct and register an action (with dependents), process the list | every registered restoration runs once, in rollback order, behind what needs it first, although others fail |
| Tag hooks, steps, preparation | `nmci/tags.py`, `features/steps/*.py`, `nmci/prepare.py`, `nmci/veth.py`, `prepare/*.sh` | the host: profiles, links, services, files, packages, processes, settings | change the host and register what undoes it, in some order; skip or fail in between | the next scenario finds the host this one found, whatever was skipped, failed or ran into its time limit |
| Service and configuration | `nmci/nmutil.py`, `features/steps/files.py`, `service.py` | config files on disk, what NetworkManager has loaded, whether it is up | create a file with restart, reload, reboot or nothing; restart, start, stop; their restorations | after the scenario NetworkManager is up and runs without the scenario's files |
| Crash detection | `nmci/crash.py`, `nmci/nmutil.py`, hooks | remembered process id, announced window, core dumps | compare the id, announce a restart, examine the dumps | planned restarts are not blamed, crashes are, and at the right step |
| Scenario hooks | `features/environment.py`, `nmci/pexpect.py`, `nmci/tags.py` | what failed or was skipped, registered processes, the flag for the shell | before/after hooks of behave, tags, reaping of processes, verdict | whatever goes wrong fails the scenario, and nothing else does; cleanup is reached |
| Test executor | `run/runtest.sh` | `rc`, `RESULT`, the watchdog, the file `/tmp/nmci_test_skipped` | gate, start behave in the background, wait, interpret, trap | reported result and exit status agree with what happened; no behave survives |
| Batch runner | `run/runtests.sh` | counters and lists of results | run each test under `timeout`, count, summarise | timeouts count as failures, an empty run does not pass |
| Version gate | `nmci/misc.py`, `nmci/helpers/version_control.py`, `environment.py` | cached version list of each process | select the one candidate scenario that fits, judge it again in behave | the right scenario runs, and exactly one |
| CentOS CI runner | `run/centos-ci/node_runner.py` | machines, one child process and pipe each, tests per machine, exit code, the pipeline at GitLab | reserve, build, install, prepare, run, poll, merge, give back | tests run only on prepared machines, reports are whole, no lost failure, nodes given back, the job ends |
| Mapper | `run/centos-ci/node_runner.py` | tables of tests and times per feature and machine | select tests, cover, distribute | every selected test on exactly one machine |
| GitLab trigger | `run/centos-ci/cico_gitlab_trigger.py`, `runner.groovy` | `/tmp/gl_commits`, the builds of Jenkins | read an event, decide, start a build; a build stops the older ones | what was asked is what runs, once, and one job of a name at a time |
| Timing data | `run/centos-ci/timing_data.py` | durations per test and feature | parse two logs, take means | every feature its mean |
| FAF reports | `nmci/crash.py:185-379` | abrt's directories, the file of reported crashes, a countdown shared by all | list, wait for a report to be complete, reset the host, embed | no dump or report is silent, none is embedded twice |
| Embed | `nmci/embed.py` | texts attached to the step | embed, combine, flush | nothing lost, in order |
| Process runner | `nmci/process.py` | collected output | run, popen, read and poll | output complete, time-outs kept |
| Timeouts, matching | `nmci/util.py` | deadline | `loop_sleep`, `wait_for`, `compare_strv_list` | condition tested after the last sleep; matching by its definition |
| GSM, network helpers | `nmci/gsm.py`, `ip.py`, `dbus.py` | none of their own | queries and commands to other programs | - |

`PROJECT.json` lists all of them, with what is and is not modelled.

### How they interact

```
event of a merge request                         (GitlabTrigger)
   |  one process per event, /tmp/gl_commits between them
   v
Jenkins job: runner.groovy --stops older builds of its name
   |                                             (MergeRequest)
   v
node_runner.py: Mapper distributes the tests     (Mapper, TimingData)
   |   Runner --pipe-- child of Machine 0: build, then prepare and run
   |          --pipe-- child of Machine 1: install, prepare and run
   v                                             (NodeRunner)
runtests.sh --timeout--> runtest.sh --asks--> version_control.py   (version gate)
                             |  \--starts in the background--> behave
                             |                                   |
                             |<-- /tmp/nmci_test_skipped --------|  hooks of environment.py
                             |<-- exit code ---------------------|     |-- version gate, once more
                             |--- SIGTERM / SIGKILL ------------>|     |-- tags, steps --> change the host,
                                                                 |     |                   register cleanup
                                                                 |     |                   and processes,
                                                                 |     |                   announce restarts
                                                                 |     |-- reap processes, compare the id
                                                                 |     `-- process_cleanup, dumps, verdict
```

- Calls: hooks call the registry, crash detection, embed and pexpect; steps
  and restorations call `nmutil`, which in turn registers restorations.
- Shared state: `context` and `nmci.cext` carry flags between hooks; the registry
  is a module-level list; two processes detect the version, each with a cache;
  hooks of two tags of a scenario meet in the files, services and profiles
  both change.
- Signals: `timeout` signals `runtest.sh`, whose trap signals behave, whose
  Python handler raises `AssertionError` wherever the interpreter is.
- Files: the skip flag, the flag that pauses FAF reports, core dumps, the list
  of commits the triggers have built.
- Messages: the children of `Machine` send one result through a pipe and are
  polled by the parent; GitLab keeps the state of the pipeline.
- NetworkManager and systemd act on their own: the service crashes and is
  started again between any two steps of the harness.

### What is hard

1. *Signals*: at any point of a cleanup, of a hook, or of the shell's own
   interpretation of the result.
2. *Partial failure*: tags, steps, processes, restorations and examinations
   fail in any combination, and each must neither stop nor hide the others. A
   command that runs into its time limit may have been carried out or not.
3. *Order*: restorations registered in the order of the changes must run in
   an order that makes sense together, while merged with earlier ones; a hook
   that changes first and registers then leaves a gap.
4. *Stale state*: flags in files and modules, cached lists, process ids,
   files NetworkManager has loaded and nobody has on disk any more.
5. *Races with the outside*: a service that crashes, is revived and writes its
   dump while the harness compares and stops it; two events of one commit.
6. *Many machines*: children that die, block or outlast the parent, results
   that arrive in any order, reservations that come late.
7. *Ending*: behave may hang where no Python handler runs; a child may be blocked.

`PROJECT.json` has these as hazards, each with its line, and names the
properties that cover it or says why none does yet.

## 2. The modules

| Module | Models | State ↔ code |
|---|---|---|
| `CleanupList` | `_Cleanup._cleanup_add`: insertion, merge, dependents | operators on a sequence of entries |
| `Cleanup` | the registry over the scenarios of one behave | `lst` is `_cleanup_lst`, `running` the entry `consume_list` handed out, `failed` the collected exceptions; `owed` and `lost` are history |
| `Registry` | what the registry promises its users, without list and order | `pending`, `hand`, `mode`: what is owed, being undone, and whether the registry is open; no variable of the code |
| `Host` | the machine under test and the operations hooks, steps and cleanups consist of | operators on a record: what differs from the machine the scenario found, what NetworkManager and udev have loaded, the attributes of `context`, the registered cleanups |
| `SetupScripts` | `nmci/prepare.py`, `nmci/veth.py` and the scripts of `prepare/` | sequences of operations |
| `TagsNetwork`, `TagsServices`, `TagsCleaning` | the before and after hooks of `nmci/tags.py`, one operator each, under its name | sequences of operations that depend on the machine |
| `TagRegistry` | `tag_registry`: which hooks belong to which tag | functions from the name of a tag |
| `StepsPrepare`, `StepsMachine` | the steps that change the machine | sequences of operations; a record from the name of a step |
| `ScenarioOnHost` | one scenario on one machine: hooks of its tags, its steps, the after hooks, the cleanups | `phase`, `todo` say where environment.py is, `h` is the machine, `failed`, `skipped` the flags of `context`; `broken` is history |
| `CrashDetect` | `check_crash`, `check_coredump` and everything that changes the process id | `known` is `context.nm_pid`, `window` is `nm_pid_refresh_count`; `crashes` is history |
| `FafReports` | `check_faf`, `wait_faf_complete`, and abrt beside them; extends `CrashDetect` | `at`, `todo`, `dir` are where `check_faf` is, `reported` the file `reported_crashes`, `spool` and `last` abrt's directories with their `last_occurrence` |
| `Scenario` | the hooks of `environment.py`, one action per stage with its exceptions | `skipped`, `count`, `spawned`, `failed`, `excepts`, `crashed` are the flags of `context`; `wrong` and `told` are history |
| `RunTest` | `runtest.sh` and the behave it starts | `sh` is the shell's program counter, `rc`, `result`, `tries` its variables, `bh` the behave process, `dirty` whether the host is unrestored; `truth` is history |
| `RunTests` | `runtests.sh` over a sequence of tests | `tally`, `summary`; extends `RunTest` and composes it with the loop and with `timeout` (`hit`) |
| `VersionGate` | `nm_version_parse`, the tag algebra, selection and the second judgement | `nm_version` is the cached list of the running process, changed in place as in the code |
| `NodeRunner` | `Runner`, `Machine` with its children and pipes, the stages of `runner.groovy` around them with `pipeline_cancel.py` and `return_nodes.py` | `phase`, `retry`, `left` (`running_machines`) and `exit` are the runner's; `mach` has each machine's child, pipe, `_last_cmd_ret` and reports; `sessions` is Duffy's side, `gl` GitLab's |
| `Mapper` | `Mapper`, loop by loop | `tests`, `times`, `total`, `cover`, `mTime`, `mTests` are its tables, `stage` and `pos` the loop and the turn |
| `GitlabTrigger` | `process_request`, `get_rebuild_detail`, `execute_build`, one process for each event | `proc` the processes, `exists` and `known` the file `/tmp/gl_commits`, `builds` what Jenkins was asked for, `head` the commit of main; `lost` is history |
| `TimingData` | the parsing of two logs and the means | operators on sequences of lines |
| `MergeRequest` | the trigger, the jobs of `runner.groovy` its builds become, and the Mapper of each job | `jobs`, and the variables of `GitlabTrigger` and `Mapper`; a job shows its name (`Shows`) once it has its node, and others find it by that |
| `MC_...` | instances for TLC | - |
| `CleanupProofs`, `CrashProofs`, `ScenarioProofs`, `RunTestsProofs`, `VersionGateProofs`, `NodeRunnerProofs`, `MapperProofs`, `MergeRequestProofs` | theorems | - |

Refinements:

- `Cleanup` implements `Registry` under the mapping `pending <- Listed(lst)`,
  `hand <- InHand`, `mode <- Mode` (its property `KeepsPromise`, and the theorem
  `PromiseKept`).
- `FafReports` implements `CrashDetect` (theorem `FafImplements`): what abrt and
  `check_faf` do is, for the state of `CrashDetect`, a reset, an embedded report, an
  exception, or nothing.
- `MergeRequest` implements `Mapper` under the mapping `MapperSpec` (theorem
  `JobsUseTheMapper`), so that the theorems about the Mapper hold of every job.

Compositions:

- `ScenarioOnHost` composes the hooks, the steps and the cleanups with the
  machine they change. The registered cleanups are kept by `CleanupList`, as in
  `Cleanup`, so that their order, their merging and their dependents are those of
  the code.
- `RunTests` is the composition of two shells, a watchdog and behave.
- `FafReports` composes crash detection with abrt, which writes, merges and deletes
  its directories while they are read.
- `MergeRequest` is the composition of the trigger's processes, Jenkins' jobs and
  the Mapper, with the times `TimingData` finds.
- `NodeRunner` composes the runner, its children, the reservation and GitLab.

`Scenario` abstracts the registry to the kinds of restorations whose effects
matter to a verdict (`own`: one that may fail or skip; `sysctl`: leaves a
process behind; `drain`: the tag `@cleanup`, which calls `process_cleanup` within
`process_cleanup`), the test executor abstracts the scenario to its outcome, and
`NodeRunner` abstracts the executor to reports and a summary.

Each action is one step of the code between two points where something else
may happen. A hook that runs without interference is split only where an
exception or a signal tells its halves apart: `Pop` and `Try` in `Cleanup`
are before and inside the `try` block, since a signal loses the entry in the
first case and is collected as its failure in the second. In `ScenarioOnHost` a
hook, a step or a cleanup is one action made of a sequence of operations, and
the time limit that may strike inside it is a choice of the operation.

Operators named after what they replace (`StopUnregistered`, `AuxTagsEverywhere`,
...) are mistaken variants of the definition that follows them, and are marked
so. They are not part of any specification: replacing the definition by its
variant breaks the property `PROJECT.json` pairs it with, which shows that the
property can be broken by a plausible mistake. (`CopyMissing` of `NodeRunner` is
one for `CopyTmtResults` and at the same time what `poll_tmt_results` does.)

### Inputs taken from the code

- `MC_Cleanup` instantiates the actions with those of `cleanup.py` that
  interact: a config file that needs a restart, a udev rule that needs an
  update, a reboot that registers the start of the service while it runs, an
  action of each priority class.
- `MC_Host` runs every tag of `tags.py` on its own, and the combinations of tags
  and of steps that stand together in `features/scenarios`, on machines that
  differ in what the hooks ask about: distribution, architecture, testbed,
  container, what is installed.
- `MC_VersionGate` uses the forms of tags in `features/scenarios`: since,
  until, ranges, holes, one tag per branch, streams, distributions, packages.
  The tag algebra (`Satisfied`) was compared with the Python function on 27,840
  combinations of tags and versions, with the same result for each.
- `MC_MergeRequest` uses the forms of directives of `README.md` and of requests
  to the Mapper: all, features, tests, `covering:`, the best of a change. Its events are
  an update and a comment of one commit, a comment of another commit, by another
  author, of the same merge request, and the opening of a second one. Its logs have
  runs that were cut off, repeated, lasted over midnight or are on both machines.

## 3. The runs

| Run | Instance | What it shows |
|---|---|---|
| `cleanup` | 7 actions, 4 registrations, 1 signal | nothing registered is forgotten, duplicated or run in the wrong order; without a signal the list is emptied; the list implements the abstract `Registry` |
| `host` | all tags, steps and their combinations on 5 kinds of machine; 1 time limit | the next scenario finds the machine this one found; a time limit costs no more than the hook, step or cleanup it strikes; NetworkManager runs with what is on disk; cleanups find it running; hooks have what they need |
| `crash_detect` | 2 steps, 2 crashes and a foreign one, 4 process ids | no false alarm, right step blamed, no crash missed in a scenario without announcement, no dump or report silent, none embedded twice |
| `scenario` | 2 scenarios of 2 steps, 3 kinds of restoration | what goes wrong fails the scenario it belongs to and only that, the skip flag is honest, the registry is emptied after the processes are reaped |
| `run_tests` | 3 tests, 2 turns of the trap | reports and status honest, no behave survives its test, a plain test that leaves its host unrestored fails, the run ends |
| `version_gate` | 41 builds, 3 distributions, 241 tests | tags mean what the notes say, packages get exactly their scenario, since-tags never lose a test |
| `node_runner` | 2 tests on 1 machine or 2, by hand or of a merge request | tests begin on prepared machines only, reports are whole when merged, no failed test passes, sessions are given back, the pipeline is settled but for two named gaps, a job that does not end waits for the outside or for a child |
| `merge_request` | 2 processes with any of 4 events, 2 releases, 2 machines, 6 tests | every test on one machine, what was asked is what runs, one job of a name gets through, no commit on record is built again, times are means |

Four runs show where the code departs from what the repository says
(section 5); each checks one property that TLC violates.

### Bounds

- `MaxAdds = 4`: a merge needs two registrations of one tag, an order three
  actions (one of them a dependent), a nested registration one more. The
  theorems do not depend on it.
- `MaxKills = 1`: `runtest.sh` sends one SIGTERM before it kills.
- `host`: `MaxBreaks = 1`: one command of a scenario runs into its time limit, at
  every place; what two of them cost is what each costs, as `FaultContained` says
  of any number. Sequences of up to three steps on configuration and service: two
  files with a restart or a stop between them, so that the restorations of one
  change meet those of another. Each file is created with an operation or without,
  two in a row without included (`files.py:39` in section 5), and the limits of MPTCP
  are set twice in a row (`cleanup.py:393`).
- `crash_detect`: two steps are one that is announced and the first that could be
  missed; two crashes allow one to hide, or to be merged with, the other. Four process
  ids are the first process and three started by steps, by systemd or by a restoration.
  `MaxFaf = 0`: abrt makes its directories only for crashes before the first step, and
  for one of another program (`Foreign`); which step a crash belongs to is not seen by
  `check_faf`. `crash_detect_every_step` has a third step behind the announced one. The
  theorems hold for every value of these.
- `Scenario`: what is left by one scenario is seen by a second; with two steps
  the skip marker and its neighbour exist.
- `RunTests`: a test that leaves a file behind, one that is misled, one after
  that. `Retries` is 2 in place of the script's 100 turns; `NoBehaveLeft` is
  proved for every number.
- `VersionGate`: three branches with micro versions on both sides of each
  tag; up to three tags of a sign, two candidates and three; build numbers on
  both sides of 1000, which tells upstream builds, and of 9999. The versions
  the upstream increment makes up (up to two more) lie within the range.
- `NodeRunner`: two machines are what `node_runner.py` ever asks for.
  `Retries = 1` in place of 3, so that a reservation is repeated and the limit is
  reached; `MaxTries = 2` in place of 180, so that an error is forgotten or is the
  last one. `Jobs` has the two kinds of jobs that differ: one of a merge request,
  which builds from source and reports to GitLab, and one by hand with the packages of
  a repository.
- `MergeRequest`: two processes are enough for one to read the list of commits
  before the other has written it, or to create the file over what the other has
  recorded; both may build for the same release, so that two jobs stop one another,
  or, with another author, do not. `Merges = {1}`: main may move to the commit of the
  first event, which two of the four events are about. Six tests of four features give every loop of
  the Mapper a feature to place, to skip and to leave for the last machine; the
  theorems hold for any `mapper.yaml`.

`CHECK_DEADLOCK FALSE` stands where a finished scenario, run, job or judgement
ends the behaviour; `Cleanup` runs with deadlock checked.

### Fairness

- `Cleanup!FairSpec`: weak fairness of `ProcessCleanup`, `BeforeScenario`, `Pop`,
  `Try`, `Done` and `Return`. behave calls one hook after the other and
  `process_cleanup` is a loop; that a restoration ends is assumed here (one that
  hangs is the business of the watchdog, in `RunTests`). Registrations and
  signals are not owed.
- `RunTests!Spec`: weak fairness of the shell's steps, of the loop and of the
  watchdog, the program `timeout` around `runtest.sh`, whose signal the shell's trap
  answers. None for behave: it may hang, and the trap's SIGKILL ends it then.
- `NodeRunner!Spec`: weak fairness of `OwnStep`, what the runner does by itself: its loop
  over the children and what comes between two commands. `run()` passes no time limit,
  the `ServerAlive` options of ssh only notice a dead peer, and `runner.groovy` has no
  limit either. So nothing is assumed of commands, of Duffy, GitLab and tmt, of the
  children or of a stop from outside. `JobEnds` says what is left: a job comes to its end
  unless one call to the outside is never answered or one child never ends. The child blocked in
  its pipe (`node_runner.py:132`) is such a child; that the code lets it block is known,
  not excluded.
- The other modules state safety only. A scenario, a judgement and the Mapper are
  loops over finite lists; that the list of cleanups, which may grow while it is
  processed, is emptied is `CleanupHappens`.

Assumptions: `RunTest` has `CENTOS_CI=1`, under which `runtest.sh` exits with 77 for
a skipped test, as `runtests.sh` needs it. In `NodeRunner` Duffy retires a session
it is asked to retire in `return_nodes.py` (which tries five times). In `Host`
NetworkManager's client refuses what is not there, and a command that is not
refused does what it says.

## 4. The proofs

All theorems are checked by tlapm 1.4.5 (Z3, Zenon, LS4). They hold for every
value of the constants and rest on named assumptions about these only:

| Assumption | What it says | Why the code justifies it |
|---|---|---|
| `CleanupAssumption` | what a constructor of `cleanup.py` fixes: tag, priority, need, nested actions | a needed action needs nothing itself, as the constructors have it |
| `CrashDetectAssumption`, `FafAssumption` | bounds are numbers, the directories of other programs are others | abrt names a directory after its crash |
| `ScenarioAssumption` | the kinds of restorations are those modelled | - |
| `RunTestAssumption`, `RunTestsAssumption` | numbers of turns and of tests, one test at least | no machine is started without tests |
| `TestsAssumption` | the tags of a candidate are finitely many, an operator and numbers each, and those for a distribution nothing else | the regular expression of the tags |
| `HostsAssumption` | a version consists of numbers; a suffix is not "upstream"; RHEL or Fedora | `nm_version_parse` and `distro_detect` return no other |
| `NodeRunnerAssumption` | a machine at least, numbers of retries | the Mapper gives one list for each machine |
| `MapperAssumption` | `mapper.yaml` names features and numbers; a test name belongs to one feature | `mapper.yaml` and its unit tests, `nmci/test_nmci.py:788` |
| `MergeRequestAssumption` | a commit is neither empty nor "None"; of a text only the lines that are directives matter, each with a value of its kind | GitLab's events; `get_rebuild_detail` |
| `LogsAssumption` | a log consists of lines START and END with a test and a time; no line is more than a day earlier than one before it | `_EXEC_LOG_RE` lets no others through; `runtest.sh` appends to the log as it goes |

**Cleanup** (`CleanupProofs`). The lemmas of its first part say what one
`_cleanup_add` does to a list in order: it stays in order, tags stay distinct, no
other tag leaves, and the action that needs
another ends up before it. Order must be strengthened with the stamps of the
entries (`WellFormed(lst, clock)`: no entry is newer than the clock), since
"later registrations first" is otherwise not preserved by an insertion.
The invariant is `TypeOK`, `WellFormed`, a genuine entry in hand and
`NothingForgotten`. From it: `TypeCorrect`, `TagsUnique`, `RollbackOrder`,
`NoneDropped`. `DependentsBehind` needs more: it holds if tags tell
needs apart and whatever has the tag of a needed action has a later priority
(`TagsTellNeeds`, `NeedsRunLater`). `NeedsListed` (a dependent is in the list as long
as the one that needs it) is inductive, and together with the order gives
`NeedsBehind`. `PromiseKept` is the refinement: each action maps to one of
`Registry` or to a stutter, where `Pop` needs distinct tags (else taking one entry
would leave its tag pending) and `BeforeScenario` that a list processed to its end
is still empty (`ReturnedEmpty`). `CleanupUdevRule` and the restart built by
default satisfy the two conditions; the restorations of `ScenarioOnHost` include
some that do not, with what that costs (`CoveredLate`).

**CrashDetect and FafReports** (`CrashProofs`). The invariant relates the remembered
process id to the history: an id that is not the remembered one means an unseen
crash or an operation that has announced it, and what is blamed is the step of such
a crash. `AlarmsRight`, `DumpsNeverSilent` and the action property `CrashesNoticed` follow.
`FafImplements` shows each step of `FafReports` to be one of `CrashDetect` or none, so the
three hold with abrt beside the harness (`AlarmsRightWithFaf`, `CrashesNoticedWithFaf`);
`DumpsAreToldOnce` needs besides that no reported line is newer than what its
directory says and that `check_faf` embeds only what `AlreadyTold` has not excluded.

**Scenario** (`ScenarioProofs`). `VerdictsRight`, `FlagsTellSkip`, `AlwaysEmptied`. The
invariant follows a fault from where it happens to the verdict: at each phase,
something went wrong iff it is still to be seen in a variable a later hook looks at
(`Begun`, `Ending`); the skip flag and behave's mark go together unless the scenario
has failed (`Skipping`); only a marker step is excused (`Excused`); and the registry
holds at each phase only what it may (`Held`).

**RunTests** (`RunTestsProofs`). `IInv` is the types, `BehaveWatched` (behave is
alive only while the shell waits for it or is in the trap of a signal) and
`ResultFromRc` (at each point of the script, what `RESULT`, `rc` and the exit
status may be together). `NoBehaveLeft` and `StatusAgrees` follow
for any number of tests and any number of turns of the trap. `ReportsAreRight` and
`LeftoversAlwaysFail` add `Honest`: at each point of the script, what `rc` may be after what
behave really did, the stale skip file being the one exception; that without a signal
a host is left unrestored only by a test that failed (`Outcome`); and what is left of the
report of a test that a signal struck (`Struck`).

**VersionGate** (`VersionGateProofs`). `PackagesAreExact`: for every set of hosts and
tests, a package build gets the one candidate that fits, none if none fits,
and behave agrees. The invariant says that for a package build the cached list
is the installed version at every judgement (`Package => nm_version =
Installed`), that every candidate judged so far was judged rightly (`Judged`) and
that what behave did fits (`Ran`). The first is what fails for upstream
builds. For these, `SinceIsNeverLost`: the invariant (`UInv`) says that the cached list is a
later micro release of the installed version, at least the next one while candidates
are selected (`Counted`), and that what must run has not been passed over (`Kept`). It rests
on the lemmas about the tag algebra: sorting lists every tag in order, and a set of
"+" tags with its borders that holds at a version holds at each later micro release of
it (`SinceStillHolds`), since a border is below the tag it was made for and none lies
between two micro releases. The theorem has one hypothesis, `NoTagNamesABuild`: no version tag has the
build number of an upstream build as its fourth number. With such a tag the statement
is false ("+=1.2.2.28009" holds at 1.2.2-28009 by its last number), and none is
ever written, as the number is a count of commits.
`TagsAreJudgedByMeaning`: every set of tags that is judged means what the notes of
`test_version_tag_eval` say, at every version it is judged at, for versions and tags of any
length. Its argument is about the algorithm alone. Tags of one sign and of two branches
that are next to one another have a border between them, and there are no other borders
(`BordersAre`), so a border is next to the version only between its neighbours among the
tags (`InsideOrOutside`). Hence the signs and branches of these two decide
(`NeighboursDecide`), or the tags at exactly the version do (`ExactTagsDecide`). The
notes say the same of tags of one sign, of ranges and of holes (`NeighboursMean`,
`ExactTagsMean`), and a tag says filled what it says as it is written (`SaysIsHolds`,
`BranchIsSame`). The numbers and tags of `Overrun` and `Misread` are excepted, since there
the statement is false. The invariant adds to the above that the cached version keeps its length
(`Sized`) and that behave judges no scenario twice (`Once`).

**NodeRunner** (`NodeRunnerProofs`). The six invariants of the run, for any number of
machines, tests and retries. The inductive invariant says that a child has one command,
which ends with something in its pipe, received once (`OneCommand`); that a good result
tells the truth (`Truthful`); where the runner is tells the phase (`InPhase`), what has been
heard of each child (`Heard`) and how many sessions are held (`Held`); and that nothing is
among the artifacts that tmt does not have (`Copies`). What is told is `Settled`: behind
the report and behind `config.log`, which keep `runner.groovy` from calling
`pipeline_cancel.py`, the pipeline is settled but for the two gaps of `PipelineSettled`.

**Mapper** (`MapperProofs`). `EveryTestOnce`: for every `mapper.yaml`, request,
measured times and number of machines each selected test is given to exactly
one machine. The invariant (`MapperInvariant`) says, beside types, that the tests
collected for a feature are tests of that feature (`Home`), that they are all of
those the request selects so far as the loop over the entries has come, but for features
`covering:` drops whole (`Whole`), that while the features are distributed each is still to be given or given whole, to one machine
(`Placed`), and that a feature of the last machine would have lifted every other one to
the average when it was placed, and would so now, as times only grow (`Heavy`). From
the last follows `LastOnlyNeeded`. `WhatIsGiven` says which tests these are (`WantedIsGiven`,
which no run checks by itself: it is what `RunsWhatIsAsked` needs of the Mapper): of a
request by `covering:` those of every feature that has one of its tests, and of no
other, although `_cover_tests` removes names from the list it runs over and so passes
over the next one. The invariant for it (`Covered`, with `Searching` for that loop) says
that the names of a feature that is not matched are all still in the list, and that as long as
the feature looked at is not matched, none of the names passed so far is one of its tests.

**MergeRequest** (`MergeRequestProofs`). `BuiltAgainOnlyBeside` for any number of events and
processes: of two processes about to build, the second to decide saw the first
(`Seen`), what a finished process has built is on record unless main has moved to it or
another process has emptied the file (`OnRecord`), and one that has looked since finds
nothing of its commit built before but beside it (`Fresh`). A process that creates the file
saw none, and what it empties it counts as `lost`. `OneJobAtATime` for any number of jobs: of two
jobs that show one name and are past the stopping of the others, one is to be stopped by
the other, although neither finds the other before that one has its node. `JobsUseTheMapper` is the refinement, and with it
the theorems about the Mapper become `JobsTestOnce`. `WhatIsAskedIsRun`: for every text and
comment, every order of events and jobs and every `mapper.yaml`, the machines of a job run the
tests that the last directive means. Its three parts: the fold over the directives of a text
keeps those of the last one about features or tests (`DetailSays`, then `ParamsSay` for
description, commit and comment after one another); a process does not forget what its event
asks for (`Understood`), the job that is with the Mapper is the only one and the Mapper works on
what that job asks for (`OneMaps`, `AskIs`), and a job that runs has the tests that are wanted
(`RunsRight`); and the Mapper gives what is wanted (`WhatIsGiven`). `AskInv` joins them.
`FeatureTimesAreMeans`: for any two logs and any table of features, one pass over the lines finds
the means over the tests of a feature of their last runs. After `k` lines the table of starts
has the STARTs that no line of the same test follows, and that of durations the last run of each
test that ended by then (`ReadSoFar`); and the mean cannot be of negative times, as a day is
added to a time that ran backwards. `TimesAreOfLastRuns` says so of the times the Mapper works with.

All inductive invariants were checked by TLC on the instances of the runs before they
were proved.

Checked by TLC only:

- liveness (`CleanupHappens`, `RunEnds`, `JobEnds`), which is beyond the prover, as
  `ENABLED` is;
- the invariants of `ScenarioOnHost`. They are statements about the hooks, steps and
  combinations that the code and its scenarios have (`Cases`), and are not true of every
  list of operations one could write down: `execute_command` may do anything, the priority of a
  cleanup is the caller's, and `CoveredLate`, `Scratch` and `Lasting` list what the existing code
  leaves behind. What is general about them is proved elsewhere: the list the cleanups are put into
  is that of `Cleanup`, by the operators of `CleanupList`, whose order and distinct tags
  `CleanupProofs` shows for all actions. `TypeOK` adds the types of what some 250 sequences of
  operations make of the machine, one by one; TLC evaluates each of them.

No recursive operator is used in a module with a theorem. Recursive functions and the folds
of the community modules are reasoned about without the library's induction theorems: that
the function exists is proved from the least number for which it would not (`LeastOf` and
`FoldIsDefined` of `MapperProofs`, `SumIsNat` of `MergeRequestProofs`), and so is what holds of
its values (`Upwards`).

## 5. Where the code departs from what it says

1. `crash_detect_every_step`: the documentation says that the process id is compared
   after every step. `check_crash` decrements `pid_refresh_count` but reads
   `nm_pid_refresh_count`, so after the first announcement the rest of the scenario
   is not compared.
2. `run_tests_stale`: the documentation gives the reasons for SKIP. A test ended by
   the watchdog between the creation and the removal of the skip file makes the
   next one that exits with 0 report SKIP, an unexpected pass of an xfail test
   included.
3. `version_gate_behave`: `environment.py` says that a skip of a selected scenario
   does not happen. An upstream build counts the cached version up once on
   entry to the selection and once per candidate, behave only once; a scenario
   whose tags begin at a version the selection reaches and behave does not is
   selected and then skipped.
4. `node_runner_verdict`: the comment on the summaries (`node_runner.py:1255`) says that
   reading them computes the exit status.
   `_generate_junit` computes it anew from the reports alone, so a machine without a
   summary makes the message UNSTABLE and the pipeline a success.

Noted while modelling, without a run of their own. The properties are stated
with these exceptions, by name:

- `environment.py:28`: the signal handler raises out of `process_cleanup` when it
  strikes between two actions; the rest of the list stays, and every later
  scenario of that behave fails on the assertion of an empty registry
  (`docs/test-framework.md:129`).
- `features/steps/files.py:39`: a config file created without an operation registers
  a restart at the file's own priority; the second such file moves that restart to
  the front of its priority, before the removal of the first file, which NetworkManager
  has still loaded afterwards (`Overtaken` of `ScenarioOnHost`).
- `cleanup.py:393`: the restoration of the limits of MPTCP holds those found when it was
  registered; a second registration in a scenario replaces the first, and restores what
  the first step had set (`Overwritten`).
- `runtest.sh:48`: nothing restores the host behind a behave that was killed in its cleanup.
  The test counts as failed and the next one starts on that host. Of an xfail or may_fail
  test a broken cleanup is a failure like any other, so it counts as passed
  (`LeftoversFail` speaks of the others).
- `crash.py:386`: `after_crash_reset`, called after the cleanup, stops the service
  and so registers a restoration: the next scenario is refused.
- `tags.py:2654`: the after hook of `@cleanup` runs the registry inside the registry
  and drops the exceptions it returns.
- `environment.py:170`: the wait for testeth0 before a scenario leaves the loop when
  the device is not connected and asks again while it is, the opposite of
  `docs/test-framework.md:599`.
- Restorations that come late: hooks and steps that change the machine and register
  the cleanup afterwards, or in their after hook only, leave the change behind if a command
  between the two runs into its time limit. `CoveredLate` of `ScenarioOnHost` lists the
  resources; `Daemons` is what stays when the body fails before the step that ends it.
  `Scratch` and, among what is set up to last, `Lasting` name what nothing puts back: the
  lines of `/etc/hosts` for simulated devices, the tuned profile of `@performance`.
- `node_runner.py:596`: a request with a test whose name contains "best"
  (`dns_best_after_reconnect`) is taken for a request of the best features
  (`README.md:356`).
- `node_runner.py:1146`: the message of the abort at the limit of `_get_nodes` formats
  `self.id`, which does not exist: the runner ends with an exception and says nothing
  to GitLab; the job's end cancels the pipeline. An answer that has neither "error" nor
  "session" (`:1136-1147`) is asked for again without being counted, and a session of fewer nodes
  than asked for (`:1149-1152`) raises after it was reserved and before it was noted.
- `node_runner.py:313-323`: `build()` copies `config.log` first, then looks for and copies
  the logs of the unit tests, and only then is the job aborted. When one of these raises, or the
  job is stopped there, `runner.groovy:65-67` finds `config.log` and leaves the
  pipeline as it is: it is shown as running for ever. The same gap is between the report
  and what GitLab is told of it (`PipelineSettled`).
- `cico_gitlab_trigger.py:528`: a process that finds no `/tmp/gl_commits` creates it by
  truncating it, after others may have created it and recorded their commits: these are
  built again by a later update (`lost`). A commit that main has moved to since the event was let
  through is "None" to the record, and never on it (both excepted by `AgainOnlyBeside`).
- `cico_gitlab_trigger.py:466`: the name a job shows has the author of the last commit in it,
  and `runner.groovy:34` stops the jobs of the same name, so that a push of
  a commit by another author leaves the older job of the merge request and release
  running, while `README.md:392` says that it is stopped. A queued build has no name before
  `runner.groovy:16`, so the newer job does not find it; it stops the newer one instead
  when it gets its node (`OneJobRuns` is stated of the names the jobs show).
- `README.md:375` and the trigger differ in the priority of directives, in the
  default release and in the case of its aliases; `GitlabTrigger` has the code's.
- `misc.py:837`: the 9999 that stands for every number is less than the build number
  of an upstream build, its count of commits, so that "+1.28.5" includes 1.28.5-28009
  and "-=1.28.5" does not: note 1 of the docstring, "exactly the same as +=1.28.6", holds
  of packages only (`Overrun` of `VersionGate`; the stable branches have such builds,
  `nmci/test_nmci.py:651`).
- `misc.py:844` and `:876`: of a version of two numbers (rhelver) the border between
  tags keeps one, and their comparison both, so that with two tags of one sign and
  major version (9.3 and 9.6) a version below them, 8.5, is accepted; and a "-" tag of
  the major version alone has its border behind the first branch (`Misread`). No
  scenario has such tags.
- The docstring of `test_version_tag_eval`, note 3, says that the first of two "+"
  tags "covers 1.26.4+ stable versions, nothing else"; note 4 and the code also
  accept the unstable branch behind it.

## 6. Not modelled, and why

- What a command does inside another program. Where the harness depends on it, the
  effect is a resource of `Host` (a profile is there, a service runs, a setting has
  changed); addresses, routes, certificates and the content of files are left out.
- Steps that only ask and compare: they are one action that may fail
  (`ExpectationFails`). Steps that work an editor, a terminal or nmtui are covered by
  the profile they leave.
- The countdown of `wait_faf_complete` is the choice between waiting and `TimedOut`, and
  the files and links that `after_crash_reset` removes are not state of `FafReports`.
- `embed.py`, `git.py`, `ip.py`, `dbus.py`, `sdresolved.py`: texts, and queries that are
  parsed into data. They keep no state other parts depend on.
- `process.py`, `pexpect.py`: a command is an operation that may raise before or after
  it was carried out (`Breaks` of `Host`); the reading of its pipes is not modelled.
- The waiting loops around `util.start_timeout`: what a loop ends with is a choice of
  the action that contains it. `compare_strv_list` is a pure function of texts.
- GSM modems, Jenkins, GitLab, Duffy, tmt, abrt and FAF are outside; the harness's side
  of what is said to GitLab and Duffy is in `NodeRunner` and `GitlabTrigger`. The
  discussions of a merge request are texts.
- `Cleanup.tla` takes the unique tag of an action as given, and one registration
  as one step; a signal inside `_cleanup_add` is left out.
- `envsetup.sh`, which installs a host once, and the tools of `contrib/`.
- Formatting, embedding of logs and reports.

## 7. Plan

Done: the registry and its abstract specification; the machine under test with
all hooks, and the steps that change it; crash detection with abrt's reports; verdicts;
the executor and its loop; the version gate; the job on the CI machines; from an event
of a merge request to the tests of each machine. Proved: all safety properties of the
runs but those section 4 leaves to TLC.

What is left, in the order of importance:

1. `Verdict`: an abstract specification (a scenario fails iff something of it went
   wrong) that `Scenario` and `RunTests` implement.
2. `PopenCollect`: `read_and_poll` against a child that closes one stream, writes and ends
   in any order, or leaves a pipe to a grandchild (`process.py:141`).
3. `WaitFor`: the loop over a deadline and the dozen helpers written around it
   (`util.py:133`); `StrvMatch`: `compare_strv_list` against its definition over all small
   inputs (`util.py:1229`).
