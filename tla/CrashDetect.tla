---------------------------- MODULE CrashDetect ----------------------------
(***************************************************************************)
(* How the harness tells a crash of NetworkManager from a restart that the *)
(* scenario asked for, over one scenario.                                  *)
(*                                                                         *)
(* The harness remembers a process id (context.nm_pid) and compares it     *)
(* after every step; steps that operate the service refresh it, and steps  *)
(* that cannot wait for the new process announce a number of checks that   *)
(* are to be skipped (context.nm_pid_refresh_count).  At the end the core  *)
(* dumps on disk are examined as well.  NetworkManager, systemd (which     *)
(* restarts it and writes the dumps) run in parallel to the harness.       *)
(***************************************************************************)
EXTENDS Naturals, Sequences, FiniteSets

CONSTANTS
  MaxSteps,    \* bound: steps of the scenario
  MaxPid,      \* bound: processes started
  MaxCrashes,  \* bound: crashes of NetworkManager
  Announced    \* the N of the steps 'NM is restarted within next "N" steps'

ASSUME CrashDetectAssumption ==
  /\ MaxSteps \in Nat
  /\ MaxPid \in Nat \ {0}
  /\ MaxCrashes \in Nat
  /\ Announced \subseteq Nat

VARIABLES
  pid,         \* MainPID of the service, 0 when none runs
  newest,      \* the last process id given out
  known,       \* context.nm_pid
  window,      \* context.nm_pid_refresh_count
  crashed,     \* context.crashed_step: where the change was first seen
  phase,       \* where the hooks of behave are
  step,        \* number of the current or last step
  restoring,   \* operations the cleanup of the scenario will run
  revive,      \* systemd will restart the process that went down
  crashes,     \* history: the crashes, each with its place and its dump
  covered      \* history: the last step an announcement was meant to cover, or 0

vars ==
  <<pid, newest, known, window, crashed, phase, step, restoring, revive, crashes, covered>>

(* "broken": after_scenario raised before its last check. *)
Phase == {"tags", "read", "idle", "step", "ran", "raised", "cleanup", "dumps", "last",
          "over", "broken"}
Ended == phase \in {"over", "broken"}
Dump == {"none", "coming", "disk", "reported", "late"}

(* A crash: the step it happened in (0 before the first one), where in the *)
(* hooks, whether a check followed, and what became of its dump.           *)
CrashType ==
  [step : 0 .. MaxSteps, during : Phase, seen : BOOLEAN, dump : Dump]

(* context.crashed_step: where the change was first seen. *)
Nowhere == [at |-> "none", step |-> 0]
Place(at) == [at |-> at, step |-> step]

(* Mistaken variant: a service that is down is left for a later check. *)
CheckRunning(at) ==
  /\ UNCHANGED window
  /\ known' = IF window > 0 THEN pid ELSE known
  /\ crashed' = IF window = 0 /\ crashed = Nowhere /\ pid \notin {0, known}
                THEN Place(at) ELSE crashed

(* check_crash.  The decrement is stored in another attribute of the       *)
(* context (pid_refresh_count), so the window never closes.                *)
Check(at) ==
  /\ UNCHANGED window
  /\ known' = IF window > 0 THEN pid ELSE known
  /\ crashed' = IF window = 0 /\ crashed = Nowhere /\ pid # known
                THEN Place(at) ELSE crashed

(* A check has had its chance to see every crash so far. *)
MarkSeen == [i \in DOMAIN crashes |-> [crashes[i] EXCEPT !.seen = TRUE]]

Fresh == newest + 1

Init ==
  /\ pid = 1
  /\ newest = 1
  /\ known = 1
  /\ window = 0
  /\ crashed = Nowhere
  /\ phase = "tags"
  /\ step = 0
  /\ restoring = {}
  /\ revive = FALSE
  /\ crashes = <<>>
  /\ covered = 0

-----------------------------------------------------------------------------
(* NetworkManager and systemd. *)

Crash(dump) ==
  /\ ~ Ended
  /\ pid # 0
  /\ Len(crashes) < MaxCrashes
  /\ pid' = 0
  /\ revive' = TRUE
  /\ crashes' = Append(crashes,
       [step |-> step, during |-> phase, seen |-> FALSE, dump |-> dump])
  /\ UNCHANGED <<newest, known, window, crashed, phase, step, restoring, covered>>

Revive ==
  /\ ~ Ended
  /\ revive
  /\ Fresh <= MaxPid
  /\ pid' = Fresh
  /\ newest' = Fresh
  /\ revive' = FALSE
  /\ UNCHANGED <<known, window, crashed, phase, step, restoring, crashes, covered>>

(* The handler that writes core dumps takes its time. *)
WriteDump(i) ==
  /\ ~ Ended
  /\ crashes[i].dump = "coming"
  /\ crashes' = [crashes EXCEPT ![i].dump = IF phase = "last" THEN "late" ELSE "disk"]
  /\ UNCHANGED <<pid, newest, known, window, crashed, phase, step, restoring, revive, covered>>

-----------------------------------------------------------------------------
(* The hooks and the steps. *)

(* End of _before_scenario: the id is read once more, after the tags ran. *)
ReadPid ==
  /\ phase = "tags"
  /\ phase' = "read"
  /\ known' = pid
  /\ UNCHANGED <<pid, newest, window, crashed, step, restoring, revive, crashes, covered>>

CheckBeforeScenario ==
  /\ phase = "read"
  /\ phase' = "idle"
  /\ Check("before")
  /\ crashes' = MarkSeen
  /\ UNCHANGED <<pid, newest, step, restoring, revive, covered>>

BeforeStep ==
  /\ phase = "idle"
  /\ step < MaxSteps
  /\ step' = step + 1
  /\ phase' = "step"
  /\ UNCHANGED <<pid, newest, known, window, crashed, restoring, revive, crashes, covered>>

(* What every step that operates the service has in common. *)
Ran ==
  /\ phase = "step"
  /\ phase' = "ran"
  /\ UNCHANGED <<crashed, step, crashes>>

PlainStep ==
  /\ Ran
  /\ UNCHANGED <<pid, newest, known, window, restoring, revive, covered>>

(* A process is started, and its id awaited and remembered. *)
StartAndWait(from) ==
  IF from = 0
  THEN Fresh <= MaxPid /\ pid' = Fresh /\ newest' = Fresh /\ known' = Fresh
  ELSE pid' = from /\ known' = from /\ UNCHANGED newest

(* 'Restart NM', also as the operation of 'Create NM config file ...'. *)
RestartNM(forCleanup) ==
  /\ Ran
  /\ StartAndWait(0)
  /\ revive' = FALSE
  /\ restoring' = IF forCleanup THEN restoring \cup {"restart"} ELSE restoring
  /\ UNCHANGED <<window, covered>>

StartNM ==
  /\ Ran
  /\ StartAndWait(pid)
  /\ revive' = FALSE
  /\ UNCHANGED <<window, restoring, covered>>

(* 'Start NM without PID wait', under the announcement of the tag runonce. *)
StartNoWait ==
  /\ Ran
  /\ window > 0
  /\ pid = 0
  /\ Fresh <= MaxPid
  /\ pid' = Fresh
  /\ newest' = Fresh
  /\ revive' = FALSE
  /\ UNCHANGED <<known, window, restoring, covered>>

(* Mistaken variant: stopping keeps the id of the process that is gone. *)
StopNMKeepsPid ==
  /\ Ran
  /\ pid' = 0
  /\ revive' = FALSE
  /\ restoring' = restoring \cup {"start"}
  /\ UNCHANGED <<newest, known, window, covered>>

StopNM ==
  /\ Ran
  /\ pid' = 0
  /\ known' = 0
  /\ revive' = FALSE
  /\ restoring' = restoring \cup {"start"}
  /\ UNCHANGED <<newest, window, covered>>

(* 'Kill NM': the id awaited is any other one, 0 included; whether systemd *)
(* starts the service again depends on the signal.                         *)
KillNM ==
  /\ Ran
  /\ pid' = 0
  /\ known' = IF pid = 0 THEN known ELSE 0
  /\ revive' \in IF pid = 0 THEN {revive} ELSE BOOLEAN
  /\ window' = 1
  /\ covered' = step
  /\ UNCHANGED <<newest, restoring>>

(* 'Restart NM in background': systemctl runs on beside the next steps. *)
RestartInBackground ==
  /\ Ran
  /\ pid' \in {pid, 0}
  /\ revive' = TRUE
  /\ window' = 2
  /\ covered' = step + 1
  /\ UNCHANGED <<newest, known, restoring>>

(* 'NM is restarted within next "N" steps'. *)
AnnounceRestart(n) ==
  /\ Ran
  /\ window' = n + 1
  /\ covered' = step + n
  /\ UNCHANGED <<pid, newest, known, restoring, revive>>

AfterStep ==
  /\ phase = "ran"
  /\ phase' = "idle"
  /\ Check("step")
  /\ crashes' = MarkSeen
  /\ UNCHANGED <<pid, newest, step, restoring, revive, covered>>

(* An unfinished pexpect process failed: after_step raises before its      *)
(* check, and behave goes to after_scenario.                               *)
AfterStepRaises ==
  /\ phase = "ran"
  /\ phase' = "raised"
  /\ UNCHANGED <<pid, newest, known, window, crashed, step, restoring, revive, crashes, covered>>

(* _after_scenario: a check where the service is down, then the cleanup. *)
AfterScenario ==
  /\ phase \in {"idle", "raised"}
  /\ phase' = "cleanup"
  /\ IF pid = 0
     THEN Check("last_step") /\ crashes' = MarkSeen
     ELSE UNCHANGED <<known, window, crashed, crashes>>
  /\ UNCHANGED <<pid, newest, step, restoring, revive, covered>>

(* The cleanup starts the service first and restarts it last. *)
RestoreStart ==
  /\ phase = "cleanup"
  /\ "start" \in restoring
  /\ StartAndWait(pid)
  /\ revive' = FALSE
  /\ restoring' = restoring \ {"start"}
  /\ UNCHANGED <<window, crashed, phase, step, crashes, covered>>

RestoreRestart ==
  /\ phase = "cleanup"
  /\ restoring = {"restart"}
  /\ StartAndWait(0)
  /\ revive' = FALSE
  /\ restoring' = {}
  /\ UNCHANGED <<window, crashed, phase, step, crashes, covered>>

CleanedUp ==
  /\ phase = "cleanup"
  /\ restoring = {}
  /\ phase' = "dumps"
  /\ UNCHANGED <<pid, newest, known, window, crashed, step, restoring, revive, crashes, covered>>

(* coredump_report: an embedded dump is a crash even where the process id  *)
(* did not tell.                                                           *)
CoredumpReport == crashed' = IF crashed = Nowhere THEN Place("dump") ELSE crashed

(* Each dump of `found` is embedded and remembered as reported. *)
EmbedDumps(found) ==
  /\ crashes' = [i \in DOMAIN crashes |->
       IF i \in found THEN [crashes[i] EXCEPT !.dump = "reported"] ELSE crashes[i]]
  /\ IF found = {} THEN UNCHANGED crashed ELSE CoredumpReport

OnDisk == {i \in DOMAIN crashes : crashes[i].dump = "disk"}

(* check_coredump embeds each dump on disk that was not reported before. *)
CheckCoredump ==
  /\ phase = "dumps"
  /\ phase' = "last"
  /\ EmbedDumps(OnDisk)
  /\ UNCHANGED <<pid, newest, known, window, step, restoring, revive, covered>>

(* coredumpctl fails for a minute: check_coredump raises at a dump. *)
CheckCoredumpRaises ==
  /\ phase = "dumps"
  /\ phase' = "broken"
  /\ \E found \in SUBSET OnDisk : found # OnDisk /\ EmbedDumps(found)
  /\ UNCHANGED <<pid, newest, known, window, step, restoring, revive, covered>>

(* What check_faf does to this state; module FafReports says when.         *)
(* after_crash_reset stops NetworkManager, removes what the scenario left  *)
(* behind and starts it again; what it raises is caught, and then the      *)
(* service may be left stopped.                                            *)
AfterCrashReset ==
  /\ phase = "last"
  /\ crashes # <<>>
  /\ \/ StartAndWait(0)
     \/ pid' = 0 /\ known' = 0 /\ UNCHANGED newest
  /\ revive' = FALSE
  /\ UNCHANGED <<window, crashed, phase, step, restoring, crashes, covered>>

EmbedFaf ==
  /\ phase = "last"
  /\ crashes # <<>>
  /\ CoredumpReport
  /\ UNCHANGED <<pid, newest, known, window, phase, step, restoring, revive, crashes, covered>>

CheckFafRaises ==
  /\ phase = "last"
  /\ phase' = "broken"
  /\ UNCHANGED <<pid, newest, known, window, crashed, step, restoring, revive, crashes, covered>>

CheckAfterScenario ==
  /\ phase = "last"
  /\ phase' = "over"
  /\ Check("after_scenario")
  /\ UNCHANGED <<pid, newest, step, restoring, revive, crashes, covered>>

Next ==
  \/ \E dump \in {"none", "coming"} : Crash(dump)
  \/ Revive
  \/ \E i \in DOMAIN crashes : WriteDump(i)
  \/ ReadPid
  \/ CheckBeforeScenario
  \/ BeforeStep
  \/ PlainStep
  \/ \E forCleanup \in BOOLEAN : RestartNM(forCleanup)
  \/ StartNM
  \/ StartNoWait
  \/ StopNM
  \/ KillNM
  \/ RestartInBackground
  \/ \E n \in Announced : AnnounceRestart(n)
  \/ AfterStep
  \/ AfterStepRaises
  \/ AfterScenario
  \/ RestoreStart
  \/ RestoreRestart
  \/ CleanedUp
  \/ CheckCoredump
  \/ CheckCoredumpRaises
  \/ AfterCrashReset
  \/ EmbedFaf
  \/ CheckFafRaises
  \/ CheckAfterScenario

Spec == Init /\ [][Next]_vars

-----------------------------------------------------------------------------

TypeOK ==
  /\ pid \in 0 .. MaxPid
  /\ newest \in 1 .. MaxPid
  /\ known \in 0 .. MaxPid
  /\ window \in Nat
  /\ crashed \in [at : {"none", "before", "step", "last_step", "dump", "after_scenario"},
                  step : 0 .. MaxSteps]
  /\ phase \in Phase
  /\ step \in 0 .. MaxSteps
  /\ restoring \subseteq {"start", "restart"}
  /\ revive \in BOOLEAN
  /\ crashes \in Seq(CrashType) /\ Len(crashes) <= MaxCrashes
  /\ covered \in Nat

(* check_crash blames a crash only where there was one: however a scenario *)
(* stops, starts, restarts and kills the service, and however late systemd *)
(* starts it again, the id the harness remembers keeps up.                 *)
NoFalseAlarm == crashed # Nowhere => crashes # <<>>

(* The step blamed is the one in which NetworkManager went down, or the    *)
(* next one when it went down between the two; only what happened while    *)
(* the tags prepared the scenario may surface at any later step.           *)
BlamedStep ==
  crashed.at = "step" =>
    \E i \in DOMAIN crashes :
      \/ crashes[i].step = crashed.step
      \/ crashes[i].step + 1 = crashed.step /\ crashes[i].during = "idle"
      \/ crashes[i].during = "tags"

(* An alarm is true, and names the step.                                   *)
AlarmRight == TypeOK /\ NoFalseAlarm /\ BlamedStep

(* The crashes after the last operation of a step that the check following *)
(* it is there to see.                                                     *)
Noticeable(i) ==
  crashes[i].during = "ran" /\ ~ crashes[i].seen /\ crashes'[i].seen

(* In a scenario that has announced no restart, check_crash sees each such *)
(* crash, whether or not systemd has started the service again by then.    *)
(* (Where the service was down when the scenario began, the id remembered  *)
(* is 0 and tells nothing; hence the last conjunct.)                       *)
CrashNoticed ==
  [][\A i \in DOMAIN crashes :
       /\ Noticeable(i)
       /\ window = 0
       /\ \A j \in DOMAIN crashes : crashes[j].during # "tags"
       => crashed' # Nowhere]_vars

(* docs/test-framework.md: the PID is "compared after every step": an      *)
(* announcement covers the steps it names, and later crashes are noticed.  *)
ComparedAfterEveryStep ==
  [][\A i \in DOMAIN crashes :
       Noticeable(i) /\ step > covered => crashed' # Nowhere]_vars

(* A crash whose dump was on disk when the dumps were examined has failed  *)
(* the scenario, even when a restart hid the change of the process id.     *)
DumpNeverSilent ==
  phase = "over" =>
    \A i \in DOMAIN crashes :
      /\ crashes[i].dump # "disk"
      /\ crashes[i].dump = "reported" => crashed # Nowhere
=============================================================================
