----------------------------- MODULE NodeRunner -----------------------------
(***************************************************************************)
(* src/run/centos-ci/node_runner.py within runner.groovy: a job reserves   *)
(* machines, sets them up, builds and installs NetworkManager, runs the    *)
(* tests through tmt and tells GitLab how it went.                         *)
(*                                                                         *)
(* The runner starts one child process per machine and command.  A child   *)
(* sends its result through a pipe and ends; the runner looks at the       *)
(* children in turns and reads a pipe only when its child has ended.  What *)
(* does not fit into the pipe blocks the child for good.                   *)
(*                                                                         *)
(* External: the nodes, Duffy (which answers with a session or an error),  *)
(* GitLab, tmt.  The job may be stopped from outside at any moment, once.  *)
(***************************************************************************)
EXTENDS Integers, Sequences, FiniteSets

CONSTANTS
  Suites,    \* the tests of the machines: sequences, the first is machine 1's
  Jobs,      \* [gitlab, copr]: is there a merge request, is there a repository
  Retries,   \* create_machines: retry (3)
  MaxTries   \* bound for the 180 errors _get_nodes accepts

Tests == UNION {UNION {{s[m][i] : i \in DOMAIN s[m]} : m \in DOMAIN s} : s \in Suites}

ASSUME NodeRunnerAssumption ==
  /\ Retries \in Nat /\ MaxTries \in Nat \ {0}
  /\ Jobs \subseteq [gitlab : BOOLEAN, copr : BOOLEAN]
  /\ \A s \in Suites : s \in Seq(Seq(Tests)) /\ Len(s) > 0

VARIABLES
  suite,     \* Runner.tests
  fails,     \* the tests that fail
  opts,      \* the job's member of Jobs
  pc,        \* what the runner does next
  phase,     \* Runner.phase
  retry, tries,
  mach,      \* the machines, see Fresh
  left, at,  \* wait_for_machines: running_machines and the loop's position
  sessions,  \* [asked, listed, retired]: asked is the number of the last one
  exit,      \* the exit status of the runner, -1 while it has none
  gl,        \* [pipeline, message]: what GitLab was told
  files,     \* files among "junit.xml", "config.log"
  died       \* where the job was stopped or the runner raised, "" if neither

work  == <<mach, left, at>>
setup == <<suite, fails, opts>>
vars  == <<setup, pc, phase, retry, tries, work, sessions, exit, gl, files, died>>

Machines == DOMAIN suite
TestsOf(m) == {suite[m][i] : i \in DOMAIN suite[m]}
All == UNION {TestsOf(m) : m \in Machines}

(* A machine: its child, what is in the pipe, _last_cmd_ret, the phases    *)
(* that succeeded on the node, and of the tests: how many tmt has          *)
(* finished, their reports in tmt's directory and among the artifacts,     *)
(* summary.txt.                                                            *)
Fresh(tests) ==
  [proc |-> "none", pipe |-> "", last |-> "none", ready |-> {}, ran |-> 0,
   tmt |-> [t \in tests |-> "none"], copied |-> [t \in tests |-> "none"],
   summary |-> "none"]

Async(m) == [m EXCEPT !.proc = "running", !.pipe = "", !.last = "none"]

Init ==
  /\ suite \in Suites
  /\ fails \in SUBSET All
  /\ opts \in Jobs
  /\ pc = "tmt" /\ phase = "" /\ retry = Retries /\ tries = 0
  /\ mach = [m \in Machines |-> Fresh(TestsOf(m))]
  /\ left = <<>> /\ at = 0
  /\ sessions = [asked |-> 0, listed |-> {}, retired |-> {}]
  /\ exit = -1 /\ gl = [pipeline |-> "pending", message |-> ""]
  /\ files = {} /\ died = ""

-----------------------------------------------------------------------------
(* The children *)

(* A result of a command that worked is small, but for the one of runtests *)
(* with the output of tmt; an exception carries the output of its command. *)
Returns(m, good, updated) ==
  \E blocks \in {FALSE} \cup {b \in BOOLEAN : ~good \/ phase = "runtests"} :
    mach' = [mach EXCEPT ![m] =
               [updated EXCEPT !.proc = IF blocks THEN "blocked" ELSE "ended",
                               !.pipe = IF blocks THEN "" ELSE IF good THEN "ok" ELSE "bad"]]

Child(m) == mach[m].proc = "running"
Elsewhere == UNCHANGED <<setup, pc, phase, retry, tries, left, at, sessions, exit, gl, files, died>>

(* _setup, install_NM and prepare end, with or without an exception.       *)
CommandEnds(m) ==
  /\ Child(m) /\ phase # "runtests"
  /\ \E good \in BOOLEAN :
       Returns(m, good, IF good THEN [mach[m] EXCEPT !.ready = @ \cup {phase}] ELSE mach[m])
  /\ Elsewhere

(* The child is killed: its end of the pipe closes.                        *)
ChildDies(m) ==
  /\ Child(m)
  /\ mach' = [mach EXCEPT ![m].proc = "ended", ![m].pipe = "eof"]
  /\ Elsewhere

Current(m) == suite[m][mach[m].ran + 1]
InTmt(m) == Child(m) /\ phase = "runtests" /\ mach[m].summary = "none"
Running(m) == InTmt(m) /\ mach[m].ran < Len(suite[m])

(* runtest.sh begins to copy its report, if it has one, ...                *)
ReportBegins(m) ==
  /\ Running(m) /\ mach[m].tmt[Current(m)] = "none"
  /\ mach' = [mach EXCEPT ![m].tmt[Current(m)] = "partial"]
  /\ Elsewhere

(* ... and tmt goes on to the next test.                                   *)
TestEnds(m) ==
  /\ Running(m)
  /\ mach' = [mach EXCEPT ![m].ran = @ + 1,
                          ![m].tmt[Current(m)] = IF @ = "partial" THEN "whole" ELSE @]
  /\ Elsewhere

(* Mistaken variant: what is among the artifacts is not copied again.      *)
CopyMissing(r) ==
  [t \in DOMAIN r.tmt |-> IF r.copied[t] # "none" THEN r.copied[t] ELSE r.tmt[t]]

CopyTmtResults(r) == [t \in DOMAIN r.tmt |-> IF r.tmt[t] = "none" THEN r.copied[t] ELSE r.tmt[t]]

(* _generate_summary_from_tmt_results: the counts cover all tests, unless  *)
(* tmt's results cannot be read (all are 0 then) or miss some.             *)
Summary(m, results) ==
  IF results /\ mach[m].ran > 0 /\ mach[m].ran = Len(suite[m]) THEN "full" ELSE "short"

(* tmt ends, whether all its tests have run or not.  The log is fetched,   *)
(* which may raise; then the summary is written ...                        *)
TmtEnds(m) ==
  /\ InTmt(m)
  /\ \/ Returns(m, FALSE, mach[m])
     \/ \E results \in BOOLEAN : mach' = [mach EXCEPT ![m].summary = Summary(m, results)]
  /\ Elsewhere

(* ... and the reports are copied, which may raise after some of them.     *)
CopyEnds(m) ==
  /\ Child(m) /\ phase = "runtests" /\ mach[m].summary # "none"
  /\ LET all == CopyTmtResults(mach[m])
     IN  \/ Returns(m, TRUE, [mach[m] EXCEPT !.copied = all])
        \/ \E some \in SUBSET TestsOf(m) :
             Returns(m, FALSE, [mach[m] EXCEPT !.copied =
                                  [t \in TestsOf(m) |-> IF t \in some THEN all[t] ELSE @[t]]])
  /\ Elsewhere

ChildStep(m) ==
  \/ CommandEnds(m) \/ ChildDies(m) \/ ReportBegins(m) \/ TestEnds(m) \/ TmtEnds(m)
  \/ CopyEnds(m)

-----------------------------------------------------------------------------
(* The ways out of the runner *)

Told(what) == [gl EXCEPT !.pipeline = IF opts.gitlab THEN what ELSE @]

GoOn(next) == pc' = next /\ UNCHANGED <<exit, gl, died>>

(* An exception nobody catches.                                            *)
Crash == pc' = "exiting" /\ exit' = 1 /\ died' = pc /\ UNCHANGED gl

(* Mistaken variant: GitLab is not told.                                   *)
QuietAbort ==
  /\ pc = "abort"
  /\ pc' = "exiting" /\ exit' = 2
  /\ UNCHANGED <<setup, phase, retry, tries, work, sessions, gl, files, died>>

(* _abort; the message may fail to be posted, which is another exception.  *)
Abort ==
  /\ pc = "abort"
  /\ pc' = "exiting"
  /\ gl' = [Told("canceled") EXCEPT !.message = "ABORTED"]
  /\ exit' \in {2} \cup (IF opts.gitlab THEN {1} ELSE {})
  /\ UNCHANGED <<setup, phase, retry, tries, work, sessions, files, died>>

-----------------------------------------------------------------------------
(* main *)

InstallTmt ==
  /\ pc = "tmt"
  /\ GoOn("create") \/ GoOn("abort")
  /\ UNCHANGED <<setup, phase, retry, tries, work, sessions, files>>

(* create_machines *)
Create ==
  /\ pc = "create"
  /\ pc' = "reserve" /\ phase' = "create" /\ tries' = 0
  /\ gl' = Told("running")
  /\ UNCHANGED <<setup, retry, work, sessions, exit, files, died>>

(* _get_nodes: errors are counted, an answer that is neither a session nor *)
(* an error is asked again without.  The message of the abort formats an   *)
(* attribute the runner does not have, which raises instead.               *)
GetNodes ==
  /\ pc = "reserve"
  /\ \/ GoOn("start") /\ sessions' = [sessions EXCEPT !.asked = @ + 1] /\ tries' = 0
     \/ GoOn("reserve") /\ UNCHANGED <<sessions, tries>>
     \/ /\ tries' = tries + 1 /\ UNCHANGED sessions
        /\ IF tries' >= MaxTries THEN Crash ELSE GoOn("reserve")
  /\ UNCHANGED <<setup, phase, retry, work, files>>

(* The session has fewer nodes than were asked for.                        *)
TooFewNodes ==
  /\ pc = "start"
  /\ Crash
  /\ UNCHANGED <<setup, phase, retry, tries, work, sessions, files>>

StartAll(next) ==
  /\ mach' = [m \in Machines |-> Async(mach[m])]
  /\ left' = [i \in 1 .. Len(suite) |-> i] /\ at' = 1
  /\ GoOn(next)

StartMachines ==
  /\ pc = "start"
  /\ mach' = [m \in Machines |-> Async(Fresh(TestsOf(m)))]
  /\ left' = [i \in 1 .. Len(suite) |-> i] /\ at' = 1
  /\ GoOn("list")
  /\ UNCHANGED <<setup, phase, retry, tries, sessions, files>>

ListSession ==
  /\ pc = "list"
  /\ sessions' = [sessions EXCEPT !.listed = @ \cup {sessions.asked}]
  /\ GoOn("wait")
  /\ UNCHANGED <<setup, phase, retry, tries, work, files>>

(* Mistaken variant: the pipe of the old command stays. *)
ReceivedTwice(r) ==
  [r EXCEPT !.proc = "none", !.last = IF r.pipe = "" THEN @ ELSE IF r.pipe = "ok" THEN "ok" ELSE "bad"]

(* cmd_is_active on a child that has ended. *)
Received(r) ==
  [r EXCEPT !.proc = "none", !.pipe = "",
            !.last = IF r.pipe = "" THEN @ ELSE IF r.pipe = "ok" THEN "ok" ELSE "bad"]

(* poll_tmt_results: what is among the artifacts is not copied again.      *)
Polled(r) == [r EXCEPT !.copied = CopyMissing(r)]

Active(m) == mach[m].proc \in {"running", "blocked"}
Polls == phase = "runtests"
Aborts == phase \notin {"create", "runtests"}

(* running_machines.remove *)
Without(s, i) == [k \in 1 .. Len(s) - 1 |-> IF k < i THEN s[k] ELSE s[k + 1]]

(* Mistaken variant: one failed machine does not matter to the others.     *)
LookAtWithoutAbort ==
  /\ pc = "wait" /\ at \in DOMAIN left
  /\ LET m == left[at]
     IN  IF Active(m)
         THEN /\ mach' = [mach EXCEPT ![m] = IF Polls THEN Polled(@) ELSE @]
              /\ left' = left /\ at' = at + 1 /\ GoOn("wait")
         ELSE /\ mach' = [mach EXCEPT ![m] = Received(@)]
              /\ left' = Without(left, at) /\ at' = at + 1 /\ GoOn("wait")
  /\ UNCHANGED <<setup, phase, retry, tries, sessions, files>>

(* Mistaken variant: a machine that is done with stays in the list.        *)
LookAtForever ==
  /\ pc = "wait" /\ at \in DOMAIN left
  /\ mach' = [mach EXCEPT ![left[at]] =
               IF ~Active(left[at]) THEN Received(@) ELSE IF Polls THEN Polled(@) ELSE @]
  /\ at' = at + 1
  /\ UNCHANGED <<setup, pc, phase, retry, tries, left, sessions, exit, gl, files, died>>

(* wait_for_machines, one machine: a finished one is removed from the list *)
(* the loop runs over, so that the loop passes over the next one.          *)
LookAt ==
  /\ pc = "wait" /\ at \in DOMAIN left
  /\ LET m == left[at]
     IN  IF Active(m)
         THEN /\ mach' = [mach EXCEPT ![m] = IF Polls THEN Polled(@) ELSE @]
              /\ left' = left /\ at' = at + 1 /\ GoOn("wait")
         ELSE /\ mach' = [mach EXCEPT ![m] = Received(@)]
              /\ left' = Without(left, at) /\ at' = at + 1
              /\ GoOn(IF mach'[m].last # "ok" /\ Aborts THEN "abort" ELSE "wait")
  /\ UNCHANGED <<setup, phase, retry, tries, sessions, files>>

WaitAgain ==
  /\ pc = "wait" /\ at \notin DOMAIN left /\ left # <<>>
  /\ at' = 1
  /\ UNCHANGED <<setup, pc, phase, retry, tries, mach, left, sessions, exit, gl, files, died>>

AllFine == \A m \in Machines : mach[m].last = "ok"

After ==
  [create |-> "build", install |-> "prepare", prepare |-> "runtests", runtests |-> "merge"]

Waited ==
  /\ pc = "wait" /\ left = <<>>
  /\ GoOn(IF phase = "create" /\ ~AllFine THEN "again" ELSE After[phase])
  /\ UNCHANGED <<setup, phase, retry, tries, work, sessions, files>>

(* Mistaken variant: the machines are kept.                                *)
CreateAgainUnreturned ==
  /\ pc = "again"
  /\ GoOn(IF retry = 0 THEN "abort" ELSE "create")
  /\ retry' = IF retry = 0 THEN 0 ELSE retry - 1
  /\ UNCHANGED <<setup, phase, tries, work, sessions, files>>

(* The session is given back, which may raise, before new machines are     *)
(* asked for.                                                              *)
CreateAgain ==
  /\ pc = "again"
  /\ \/ Crash /\ UNCHANGED <<retry, sessions>>
     \/ /\ sessions' = [sessions EXCEPT !.retired = @ \cup {sessions.asked}]
        /\ GoOn(IF retry = 0 THEN "abort" ELSE "create")
        /\ retry' = IF retry = 0 THEN 0 ELSE retry - 1
  /\ UNCHANGED <<setup, phase, tries, work, files>>

(* From source NetworkManager is built on the first machine; ssh may raise *)
(* with or without a repository.  Of a build that failed config.log is     *)
(* copied, if there is one, ...                                            *)
Build ==
  /\ pc = "build"
  /\ \/ GoOn("install") /\ files' = files
     \/ Crash /\ files' = files
     \/ ~opts.copr /\ GoOn("logs") /\ files' \in {files, files \cup {"config.log"}}
  /\ UNCHANGED <<setup, phase, retry, tries, work, sessions>>

(* ... then the logs of the unit tests, which may raise.                   *)
CopyLogs ==
  /\ pc = "logs"
  /\ GoOn("abort") \/ Crash
  /\ UNCHANGED <<setup, phase, retry, tries, work, sessions, files>>

(* install_NM_on_machines, prepare_machines, run_tests_on_machines *)
StartPhase ==
  /\ pc \in {"install", "prepare", "runtests"}
  /\ phase' = pc
  /\ StartAll("wait")
  /\ UNCHANGED <<setup, retry, tries, sessions, files>>

-----------------------------------------------------------------------------
(* merge_machines_results *)

FailedTests == {t \in fails : \E m \in Machines : t \in TestsOf(m) /\ mach[m].summary = "full"}
FailReports == {t \in fails : \E m \in Machines : t \in TestsOf(m) /\ mach[m].copied[t] # "none"}

(* _get_machine_summaries *)
SummaryExit ==
  IF (\A m \in Machines : mach[m].summary = "full") /\ FailedTests = {} THEN 0 ELSE 1

(* Mistaken variant: only the reports of tests the summaries know count.   *)
KnownFailExit == IF FailReports \cap FailedTests = {} THEN 0 ELSE 1

(* _generate_junit *)
JunitExit == IF FailReports = {} THEN 0 ELSE 1

(* The state of the main branch is fetched for the message, which may      *)
(* raise; the report is written, and with it the exit status is anew.      *)
Merge ==
  /\ pc = "merge"
  /\ \/ Crash /\ UNCHANGED files
     \/ /\ gl' = [gl EXCEPT !.message = IF SummaryExit = 0 THEN "STABLE" ELSE "UNSTABLE"]
        /\ files' = files \cup {"junit.xml"}
        /\ exit' = JunitExit
        /\ pc' = "tell" /\ UNCHANGED died
  /\ UNCHANGED <<setup, phase, retry, tries, work, sessions>>

(* The pipeline is set; posting the message may raise.                     *)
Tell ==
  /\ pc = "tell"
  /\ gl' = Told(IF exit = 0 THEN "success" ELSE "failed")
  /\ exit' \in {exit} \cup (IF opts.gitlab THEN {1} ELSE {})
  /\ pc' = "exiting"
  /\ UNCHANGED <<setup, phase, retry, tries, work, sessions, files, died>>

-----------------------------------------------------------------------------
(* The end of the process and of the job *)

(* The interpreter waits for the children before it ends.                  *)
Exit ==
  /\ pc = "exiting" /\ \A m \in Machines : ~Active(m)
  /\ pc' = "exited"
  /\ UNCHANGED <<setup, phase, retry, tries, work, sessions, exit, gl, files, died>>

(* The job is stopped: the runner and its children are gone, and nobody    *)
(* looks at what they left.                                                *)
Stop ==
  /\ pc \notin {"exited", "over"}
  /\ died' = IF died = "" THEN pc ELSE died
  /\ pc' = "exited"
  /\ mach' = [m \in Machines |-> Fresh(TestsOf(m))] /\ left' = <<>> /\ at' = 0
  /\ UNCHANGED <<setup, phase, retry, tries, sessions, exit, gl, files>>

(* runner.groovy: a pipeline without a report is canceled, unless the      *)
(* build failed; return_nodes.py retires every session of the list.        *)
Finally ==
  /\ pc = "exited"
  /\ gl' = IF files = {} THEN Told("canceled") ELSE gl
  /\ sessions' = [sessions EXCEPT !.retired = @ \cup sessions.listed]
  /\ pc' = "over"
  /\ UNCHANGED <<setup, phase, retry, tries, work, exit, files, died>>

RunnerStep ==
  \/ InstallTmt \/ Create \/ GetNodes \/ TooFewNodes \/ StartMachines \/ ListSession
  \/ LookAt \/ WaitAgain \/ Waited \/ CreateAgain \/ Build \/ CopyLogs \/ StartPhase
  \/ Merge \/ Tell \/ Abort \/ Exit \/ Finally

Next == RunnerStep \/ Stop \/ \E m \in Machines : ChildStep(m)

(* The runner goes on by itself where it waits for nobody: between the     *)
(* commands and in its loop over the children.  Nothing limits the time a  *)
(* command of a child, Duffy, GitLab or ssh takes (run() has no timeout),  *)
(* and nothing makes a job be stopped.                                     *)
OwnStep ==
  \/ TooFewNodes \/ StartMachines \/ ListSession \/ LookAt \/ WaitAgain \/ Waited
  \/ StartPhase \/ Exit
Spec == Init /\ [][Next]_vars /\ WF_vars(OwnStep)

-----------------------------------------------------------------------------
(* Properties *)

Results == {"none", "partial", "whole"}

TypeOK ==
  /\ exit \in {-1, 0, 1, 2} /\ retry \in 0 .. Retries /\ tries \in 0 .. MaxTries
  /\ files \subseteq {"junit.xml", "config.log"}
  /\ sessions.listed \cup sessions.retired \subseteq 1 .. sessions.asked
  /\ sessions.asked <= Retries + 1
  /\ \A m \in Machines :
       /\ mach[m].proc \in {"none", "running", "blocked", "ended"}
       /\ mach[m].pipe \in {"", "ok", "bad", "eof"}
       /\ mach[m].pipe # "" => mach[m].proc = "ended"
       /\ mach[m].last \in {"none", "ok", "bad"}
       /\ \A t \in TestsOf(m) : mach[m].tmt[t] \in Results /\ mach[m].copied[t] \in Results
       /\ mach[m].ran \in 0 .. Len(suite[m])

(* However the children of the machines end, in whatever turn they are     *)
(* looked at and passed over: tests begin only when every machine of the   *)
(* session has been created, has NetworkManager installed and is prepared, *)
(* and no command begins before the one before has ended everywhere        *)
(* (wait_for_machines, node_runner.py:1092).                               *)
TestsOnPrepared ==
  died = "" =>
  /\ phase = "runtests" => \A m \in Machines : {"create", "install", "prepare"} \subseteq mach[m].ready
  /\ phase = "prepare" => \A m \in Machines : {"create", "install"} \subseteq mach[m].ready
  /\ phase = "install" => \A m \in Machines : "create" \in mach[m].ready

(* A report that was polled while it was written is replaced: when the     *)
(* results are merged, the artifacts of a machine whose child came to its  *)
(* end are the reports tmt has (poll_tmt_results, node_runner.py:551).     *)
ReportsWhole ==
  pc \in {"merge", "tell"} => \A m \in Machines : mach[m].last = "ok" => mach[m].copied = mach[m].tmt

(* A failed test whose report is among the artifacts fails the pipeline,   *)
(* be the report cut off, its machine lost or its summary missing; and     *)
(* what the message calls stable the pipeline calls a success.             *)
FailureTold ==
  exit # -1 /\ "junit.xml" \in files =>
    /\ FailReports # {} => exit = 1
    /\ gl.message = "STABLE" => FailReports = {}
    /\ pc = "exiting" /\ opts.gitlab /\ FailReports # {} => gl.pipeline = "failed"

(* Machines are given back: never are two sessions held, and when the job  *)
(* is over none is, unless it was stopped or raised between the            *)
(* reservation and the note of it (session_id, node_runner.py:1181).       *)
SessionsReturned ==
  /\ Cardinality((1 .. sessions.asked) \ sessions.retired) <= 1
  /\ pc = "over" /\ died \notin {"start", "list"} => 1 .. sessions.asked = sessions.retired

(* GitLab never shows a pipeline that runs on: aborted, crashed or stopped *)
(* it is settled by the end of the job, with two gaps: a stop between the  *)
(* report and the word to GitLab, and a stop or an exception between       *)
(* config.log and the abort (node_runner.py:313-323): runner.groovy:65-67  *)
(* leaves the pipeline to the runner where it finds one of the two files.  *)
PipelineSettled ==
  pc = "over" /\ opts.gitlab =>
    \/ gl.pipeline \in {"canceled", "success", "failed"}
    \/ "junit.xml" \in files /\ died = "tell"
    \/ "config.log" \in files /\ died \in {"logs", "abort"}

(* Where the runner waits for somebody else, and for a child.              *)
Calls ==
  {"tmt", "create", "reserve", "again", "build", "logs", "abort", "merge", "tell", "exited"}
Numbers == UNION {DOMAIN s : s \in Suites}
Waits(m) == m \in Machines /\ Active(m)

(* What a job waits for is never itself: it comes to its end, or one call  *)
(* to the outside is never answered, or a child never ends.  Passing over  *)
(* the next machine whenever one is removed, the loop still comes round to *)
(* every child that has ended (wait_for_machines, node_runner.py:1103).    *)
JobEnds ==
  \/ <>(pc = "over")
  \/ \E p \in Calls : <>[](pc = p)
  \/ \E m \in Numbers : <>[]Waits(m)

(* What the comment on the summaries, "this also computes exit_code"       *)
(* (node_runner.py:1255), says: a pipeline that succeeds has had complete  *)
(* summaries without a failure.                                            *)
SuccessIsStable == gl.pipeline = "success" => gl.message = "STABLE"
=============================================================================
