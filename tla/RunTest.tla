------------------------------ MODULE RunTest ------------------------------
(***************************************************************************)
(* One test: the shell of run/runtest.sh, the behave process it starts in  *)
(* the background, the file /tmp/nmci_test_skipped between the two, and    *)
(* the SIGTERM the watchdog sends to the process group of both.            *)
(*                                                                         *)
(* The signal reaches bash between two commands or in `wait`; the handler  *)
(* of behave (features/environment.py) raises between two bytecodes, so    *)
(* not while the interpreter is blocked.  A behave that has not come to    *)
(* before_all yet dies at once.  Module Scenario has the inside of behave. *)
(***************************************************************************)
EXTENDS Integers

CONSTANT
  Retries     \* how often the trap looks whether behave is gone (100, 0.1s apart)

ASSUME RunTestAssumption == Retries \in Nat

VARIABLES
  kind,       \* the tag of the test that runtest.sh looks for
  sh,         \* where runtest.sh is
  rc,         \* its variable rc
  result,     \* its variable RESULT
  status,     \* the status it exits with
  tries,      \* turns of the loop of wait_for_process_finish
  bh,         \* where behave is
  code,       \* the status behave exits with
  flag,       \* context.cext.scenario_skipped
  signalled,  \* SIGTERM is pending for behave
  skipFile,   \* /tmp/nmci_test_skipped exists
  dirty,      \* the test changed the host, and what restores it failed or never ran
  hit,        \* history: SIGTERM was sent to the group
  truth       \* history: what there is to be reported

shell == <<sh, rc, result, status, tries>>
behave == <<bh, code, flag, signalled>>
vars == <<kind, shell, behave, skipFile, dirty, hit, truth>>

Kind == {"plain", "xfail", "may_fail"}

Truth == {"unknown", "invalid", "unfit", "passed", "failed", "skipped"}

Alive == {"starting", "scenario", "cleaning", "finishing"}

(* rc before it is assigned; and the status of bash when it is used then.  *)
Unset == -1

Init ==
  /\ kind \in Kind
  /\ sh = "setup" /\ rc = Unset /\ result = "" /\ status = Unset /\ tries = 0
  /\ bh = "none" /\ code = 0 /\ flag = FALSE /\ signalled = FALSE
  /\ skipFile = FALSE /\ dirty = FALSE
  /\ hit = FALSE /\ truth = "unknown"

(* A new shell; the file of the test before is still there. *)
Restart ==
  /\ kind' \in Kind
  /\ sh' = "setup" /\ rc' = Unset /\ result' = "" /\ status' = Unset /\ tries' = 0
  /\ bh' = "none" /\ code' = 0 /\ flag' = FALSE /\ signalled' = FALSE
  /\ UNCHANGED skipFile /\ dirty' = FALSE
  /\ hit' = FALSE /\ truth' = "unknown"

-----------------------------------------------------------------------------
(* runtest.sh *)

(* The environment is configured; without success the shell exits. *)
Configure(ok) ==
  /\ sh = "setup"
  /\ sh' = IF ok THEN "gate" ELSE "trap"
  /\ truth' = IF ok THEN truth ELSE "invalid"
  /\ UNCHANGED <<kind, rc, result, status, tries, behave, skipFile, dirty, hit>>

(* version_control: the test fits, does not, or is unknown (die). *)
VersionControl(answer) ==
  /\ sh = "gate"
  /\ \/ answer = "fits"    /\ sh' = "call"   /\ rc' = 0  /\ UNCHANGED truth
     \/ answer = "unfit"   /\ sh' = "result" /\ rc' = 77 /\ truth' = "unfit"
     \/ answer = "invalid" /\ sh' = "trap"   /\ rc' = rc /\ truth' = "invalid"
  /\ UNCHANGED <<kind, result, status, tries, behave, skipFile, dirty, hit>>

CallBehave ==
  /\ sh = "call"
  /\ sh' = "wait"
  /\ rc' = 1
  /\ bh' = "starting"
  /\ UNCHANGED <<kind, result, status, tries, code, flag, signalled, skipFile, dirty,
                 hit, truth>>

Waited ==
  /\ sh = "wait"
  /\ bh = "exited"
  /\ sh' = "skip"
  /\ rc' = code
  /\ UNCHANGED <<kind, result, status, tries, behave, skipFile, dirty, hit, truth>>

ReadSkipFile ==
  /\ sh = "skip"
  /\ sh' = "rm"
  /\ rc' = IF rc = 0 /\ skipFile THEN 77 ELSE rc
  /\ UNCHANGED <<kind, result, status, tries, behave, skipFile, dirty, hit, truth>>

(* Mistaken variant: the file stays. *)
KeepSkipFile ==
  /\ sh = "rm"
  /\ sh' = "invert"
  /\ UNCHANGED <<kind, rc, result, status, tries, behave, skipFile, dirty, hit, truth>>

RemoveSkipFile ==
  /\ sh = "rm"
  /\ sh' = "invert"
  /\ skipFile' = FALSE
  /\ UNCHANGED <<kind, rc, result, status, tries, behave, dirty, hit, truth>>

(* xfail and may_fail. *)
Invert ==
  /\ sh = "invert"
  /\ sh' = "result"
  /\ rc' = IF kind = "plain" \/ rc = 77 THEN rc
           ELSE IF kind = "xfail" /\ rc = 0 THEN 1
           ELSE 0
  /\ UNCHANGED <<kind, result, status, tries, behave, skipFile, dirty, hit, truth>>

(* RESULT; rc of a skipped test stays 77 as run/runtests.sh asks for it    *)
(* (CENTOS_CI).  At its end the script exits, which runs the trap.         *)
SetResult ==
  /\ sh = "result"
  /\ sh' = "trap"
  /\ result' = CASE rc = 0 -> "PASS" [] rc = 77 -> "SKIP" [] OTHER -> "FAIL"
  /\ UNCHANGED <<kind, rc, status, tries, behave, skipFile, dirty, hit, truth>>

-----------------------------------------------------------------------------
(* finish_runtest, the trap of EXIT, SIGINT and SIGTERM *)

(* Mistaken variant: the turns are not counted. *)
StillThereForever ==
  /\ sh = "trap"
  /\ bh \in Alive
  /\ tries' = 0
  /\ UNCHANGED <<kind, sh, rc, result, status, behave, skipFile, dirty, hit, truth>>

StillThere ==
  /\ sh = "trap"
  /\ bh \in Alive
  /\ tries < Retries
  /\ tries' = tries + 1
  /\ UNCHANGED <<kind, sh, rc, result, status, behave, skipFile, dirty, hit, truth>>

(* Mistaken variant: behave is left to itself. *)
GiveUp ==
  /\ sh = "trap"
  /\ bh \in Alive
  /\ tries = Retries
  /\ sh' = "report"
  /\ UNCHANGED <<kind, rc, result, status, tries, behave, skipFile, dirty, hit, truth>>

KillBehave ==
  /\ sh = "trap"
  /\ bh \in Alive
  /\ tries = Retries
  /\ sh' = "report"
  /\ bh' = "killed"
  /\ UNCHANGED <<kind, rc, result, status, tries, code, flag, signalled, skipFile, dirty,
                 hit, truth>>

Finished ==
  /\ sh = "trap"
  /\ bh \notin Alive
  /\ sh' = "report"
  /\ UNCHANGED <<kind, rc, result, status, tries, behave, skipFile, dirty, hit, truth>>

(* Mistaken variant: an rc that was not set counts as 0. *)
ReportAndExitZero(before) ==
  /\ sh = "report"
  /\ sh' = "exited"
  /\ result' = IF result = "" THEN "FAIL" ELSE result
  /\ status' = IF rc = Unset THEN 0 ELSE rc
  /\ UNCHANGED <<kind, rc, tries, behave, skipFile, dirty, hit, truth>>

(* report_result, and exit $rc.  Where rc was not set, the status is that  *)
(* of the command before the trap: not 0 when that command made the shell  *)
(* exit, anything when a signal did.                                       *)
ReportAndExit(before) ==
  /\ sh = "report"
  /\ before = 0 => hit
  /\ sh' = "exited"
  /\ result' = IF result = "" THEN "FAIL" ELSE result
  /\ status' = IF rc = Unset THEN before ELSE rc
  /\ UNCHANGED <<kind, rc, tries, behave, skipFile, dirty, hit, truth>>

-----------------------------------------------------------------------------
(* behave *)

InBehave == ~ signalled /\ UNCHANGED <<kind, shell, signalled, hit>>

(* before_all installs the signal handler; before_scenario resets the flag *)
(* and the steps change the host.                                          *)
StartScenario ==
  /\ InBehave
  /\ bh = "starting"
  /\ bh' = "scenario"
  /\ flag' = FALSE
  /\ dirty' = TRUE
  /\ UNCHANGED <<code, skipFile, truth>>

(* The scenario ends; the exit status is 0 unless something failed. *)
EndScenario(outcome) ==
  /\ InBehave
  /\ bh = "scenario"
  /\ bh' = "cleaning"
  /\ flag' = (outcome = "skipped")
  /\ code' = IF outcome = "failed" THEN 1 ELSE 0
  /\ truth' = outcome
  /\ UNCHANGED <<skipFile, dirty>>

(* Mistaken variant: the exceptions of the cleanup are not asserted on.    *)
CleanUpQuietly(broken) ==
  /\ InBehave
  /\ bh = "cleaning"
  /\ bh' = "finishing"
  /\ dirty' \in IF broken THEN BOOLEAN ELSE {FALSE}
  /\ UNCHANGED <<flag, code, skipFile, truth>>

(* after_scenario: what of it is broken may be a restoration, or what      *)
(* comes before them, and then the host is not restored; at its end it     *)
(* raises (but for a scenario tagged @crash: see Conclude in Scenario).    *)
CleanUp(broken) ==
  /\ InBehave
  /\ bh = "cleaning"
  /\ bh' = "finishing"
  /\ dirty' \in IF broken THEN BOOLEAN ELSE {FALSE}
  /\ flag' = (flag /\ ~ broken)
  /\ code' = IF broken THEN 1 ELSE code
  /\ truth' = IF broken THEN "failed" ELSE truth
  /\ UNCHANGED skipFile

AfterAll ==
  /\ InBehave
  /\ bh = "finishing"
  /\ bh' = "exited"
  /\ skipFile' = (skipFile \/ flag)
  /\ UNCHANGED <<code, flag, dirty, truth>>

(* The handler raises "killed externally (timeout)". *)
Raise ==
  /\ signalled
  /\ bh \in Alive
  /\ signalled' = FALSE
  /\ code' = 1
  /\ truth' = "failed"
  /\ UNCHANGED <<kind, shell, hit>>

RaiseInScenario ==
  /\ Raise
  /\ bh = "scenario"
  /\ bh' = "cleaning"
  /\ UNCHANGED <<flag, skipFile, dirty>>

(* In after_scenario: inside an action of the cleanup, which is not        *)
(* finished (the rest is done, the flag reset), or outside of them         *)
(* (neither is).                                                           *)
RaiseInCleanup ==
  /\ Raise
  /\ bh = "cleaning"
  /\ bh' = "finishing"
  /\ \/ dirty' \in BOOLEAN /\ flag' = FALSE
     \/ UNCHANGED <<dirty, flag>>
  /\ UNCHANGED skipFile

(* In after_all, before the file is written or behind it. *)
RaiseAtEnd ==
  /\ Raise
  /\ bh = "finishing"
  /\ bh' = "exited"
  /\ skipFile' \in {skipFile, skipFile \/ flag}
  /\ UNCHANGED <<flag, dirty>>

-----------------------------------------------------------------------------
(* SIGTERM to the process group.  The trap of the shell is reset once it   *)
(* has begun: a signal in it ends the shell, before or after the report.   *)
Terminate ==
  /\ sh # "exited"
  /\ ~ hit
  /\ hit' = TRUE
  /\ IF sh \in {"trap", "report"}
     THEN sh' = "exited" /\ status' = 143 /\ result' \in {"", result}
     ELSE sh' = "trap" /\ UNCHANGED <<status, result>>
  /\ bh' = IF bh = "starting" THEN "killed" ELSE bh
  /\ signalled' = (bh \in Alive \ {"starting"})
  /\ UNCHANGED <<kind, rc, tries, code, flag, skipFile, dirty, truth>>

RunShell ==
  \/ \E ok \in BOOLEAN : Configure(ok)
  \/ \E answer \in {"fits", "unfit", "invalid"} : VersionControl(answer)
  \/ CallBehave
  \/ Waited
  \/ ReadSkipFile
  \/ RemoveSkipFile
  \/ Invert
  \/ SetResult
  \/ StillThere
  \/ KillBehave
  \/ Finished
  \/ \E before \in {0, 1} : ReportAndExit(before)

RunBehave ==
  \/ StartScenario
  \/ \E outcome \in {"passed", "failed", "skipped"} : EndScenario(outcome)
  \/ \E broken \in BOOLEAN : CleanUp(broken)
  \/ AfterAll
  \/ RaiseInScenario
  \/ RaiseInCleanup
  \/ RaiseAtEnd
=============================================================================
