------------------------------ MODULE RunTests ------------------------------
(***************************************************************************)
(* run/runtests.sh: the tests of a run one after the other, each under a   *)
(* watchdog (`timeout`), and the summary.  The file of a skipped test is   *)
(* the only thing one test can leave to the next.                          *)
(***************************************************************************)
EXTENDS RunTest, Sequences

CONSTANT
  NTests      \* the tests on the command line

ASSUME RunTestsAssumption == NTests \in Nat \ {0}

VARIABLES
  tally,      \* "pass", "skip" or "fail" of each test that has ended
  summary,    \* what RESULT.txt says and the exit status, at the end
  everHit     \* history: a test before this one was signalled

allVars == <<vars, tally, summary, everHit>>

InitAll ==
  /\ Init
  /\ tally = <<>>
  /\ summary = [text |-> "", status |-> Unset]
  /\ everHit = FALSE

(* timeout exits with 124 when it sent the signal. *)
ExitStatus == IF hit THEN 124 ELSE status

Count ==
  tally' = Append(tally, CASE ExitStatus = 77 -> "skip"
                           [] ExitStatus = 0  -> "pass"
                           [] OTHER           -> "fail")

(* The next test starts: a new shell. *)
NextTest ==
  /\ sh = "exited"
  /\ Len(tally) + 1 < NTests
  /\ Count
  /\ everHit' = (everHit \/ hit)
  /\ Restart
  /\ UNCHANGED summary

(* RESULT.txt and the exit status; neither is good when every test was     *)
(* skipped.                                                                *)
Summarize ==
  /\ sh = "exited"
  /\ Len(tally) + 1 = NTests
  /\ Count
  /\ LET passed == \E t \in DOMAIN tally' : tally'[t] = "pass"
         failed == \E t \in DOMAIN tally' : tally'[t] = "fail"
     IN  summary' = [text   |-> IF failed THEN "FAIL" ELSE IF passed THEN "PASS" ELSE "",
                     status |-> IF passed /\ ~ failed THEN 0 ELSE 1]
  /\ UNCHANGED <<vars, everHit>>

Step ==
  /\ RunShell \/ RunBehave \/ Terminate
  /\ UNCHANGED <<tally, summary, everHit>>

Next == Step \/ NextTest \/ Summarize

(* The commands of the shells end, and the watchdog fires at last.  behave *)
(* owes nothing: it may hang anywhere.                                     *)
Spec ==
  /\ InitAll /\ [][Next]_allVars
  /\ WF_allVars(RunShell /\ UNCHANGED <<tally, summary, everHit>>)
  /\ WF_allVars(Terminate /\ UNCHANGED <<tally, summary, everHit>>)
  /\ WF_allVars(NextTest \/ Summarize)

-----------------------------------------------------------------------------

TypeOK ==
  /\ kind \in Kind
  /\ sh \in {"setup", "gate", "call", "wait", "skip", "rm", "invert", "result",
             "trap", "report", "exited"}
  /\ rc \in {Unset, 0, 1, 77}
  /\ result \in {"", "PASS", "SKIP", "FAIL"}
  /\ status \in {Unset, 0, 1, 77, 143}
  /\ tries \in 0 .. Retries
  /\ bh \in Alive \cup {"none", "exited", "killed"}
  /\ code \in {0, 1}
  /\ flag \in BOOLEAN /\ signalled \in BOOLEAN
  /\ skipFile \in BOOLEAN /\ dirty \in BOOLEAN
  /\ hit \in BOOLEAN /\ everHit \in BOOLEAN
  /\ truth \in Truth
  /\ tally \in Seq({"pass", "skip", "fail"}) /\ Len(tally) <= NTests
  /\ summary \in [text : {"", "PASS", "FAIL"}, status : {Unset, 0, 1}]

Ended == sh = "exited"

(* What a test is to be reported as. *)
Expected ==
  CASE truth \in {"unfit", "skipped"} -> "SKIP"
    [] truth = "passed" -> IF kind = "xfail" THEN "FAIL" ELSE "PASS"
    [] truth = "failed" -> IF kind = "plain" THEN "FAIL" ELSE "PASS"
    [] OTHER            -> "FAIL"

(* A test is reported as what it was, wherever in the script the watchdog  *)
(* struck: one it ended is a FAIL, or has no report, or has the report     *)
(* that it deserved before.  The one exception is a passing test behind    *)
(* one that was ended and has left its file of a skipped test.             *)
ReportHonest ==
  Ended => result \in {Expected} \cup (IF everHit /\ truth = "passed" THEN {"SKIP"} ELSE {})
                                \cup (IF hit THEN {"FAIL", ""} ELSE {})

(* The same of a SKIP, without the exception: a test that SKIPs is one that *)
(* the version gates or the test itself skipped                            *)
(* (docs/test-framework.md, "All tests SKIP").                             *)
SkipHonest == Ended /\ result = "SKIP" => truth \in {"unfit", "skipped"}

(* The status says what the report says, except where the watchdog struck. *)
StatusHonest ==
  Ended /\ ~ hit =>
    /\ result = "PASS" <=> status = 0
    /\ result = "SKIP" <=> status = 77

(* "we just have to wait for PID": no test starts, and the run does not    *)
(* end, while the behave of an earlier one is still at the host.           *)
OneBehave == Ended => bh \notin Alive

(* A test that leaves the host unrestored, because a restoration failed    *)
(* or its cleanup was cut by the watchdog or by the SIGKILL of the trap,   *)
(* never counts as passed or skipped.  An xfail or may_fail test does: its *)
(* broken cleanup is a failure like any other.  What no restoration tells  *)
(* ("dropped" and "late" in module Scenario) is not seen here either.      *)
LeftoversFail ==
  [][tally' # tally /\ dirty /\ kind = "plain" => tally'[Len(tally')] = "fail"]_allVars

(* A run passes only if some test passed and none failed.                  *)
RunPasses ==
  summary.status = 0 =>
    /\ \E t \in 1 .. NTests : tally[t] = "pass"
    /\ \A t \in 1 .. NTests : tally[t] # "fail"

(* What is reported of a test is what it was, and what is reported of the  *)
(* run what its tests were.                                                *)
ReportsRight == TypeOK /\ ReportHonest /\ RunPasses

(* The run ends, wherever behave hangs.                                    *)
RunEnds == <>(summary.status # Unset)
=============================================================================
