--------------------------- MODULE RunTestsProofs ---------------------------
(***************************************************************************)
(* What holds of run/runtests.sh and run/runtest.sh for every number of    *)
(* tests and every number of turns the trap waits.                         *)
(***************************************************************************)
EXTENDS RunTests, SequenceTheorems, TLAPS

(* The part of the type invariant that is needed. *)
Types ==
  /\ rc \in {Unset, 0, 1, 77}
  /\ result \in {"", "PASS", "SKIP", "FAIL"}
  /\ code \in {0, 1}

(* Where behave can be alive: while the shell waits for it, or in the trap *)
(* of a signal.  This is what lets no test leave its behave to the next.   *)
BehaveWatched ==
  bh \in Alive => sh = "wait" \/ (sh = "trap" /\ hit)

(* RESULT is what rc says, from the moment it is set. *)
ResultFromRc ==
  /\ sh \in {"setup", "gate"} => rc = Unset
  /\ sh \in {"call", "wait", "skip", "rm", "invert", "result"} => rc # Unset
  /\ result = "PASS" => rc = 0
  /\ result = "SKIP" => rc = 77
  /\ result = "FAIL" /\ sh # "exited" => rc = 1
  /\ result = "" /\ sh \in {"trap", "report"} /\ ~ hit => rc = Unset
  /\ sh \notin {"trap", "report", "exited"} => result = ""
  /\ sh = "exited" /\ ~ hit =>
       /\ result = "PASS" <=> status = 0
       /\ result = "SKIP" <=> status = 77

IInv == Types /\ BehaveWatched /\ ResultFromRc

LEMMA UnsetIsNoStatus == Unset \notin {0, 1, 77, 143}
BY DEF Unset

LEMMA InitInv == InitAll => IInv
BY UnsetIsNoStatus DEF InitAll, Init, IInv, Types, BehaveWatched, ResultFromRc, Alive

LEMMA ShellInv == ASSUME IInv, RunShell PROVE IInv'
<1>0. Types /\ BehaveWatched /\ ResultFromRc
  BY DEF IInv
<1>1. ASSUME NEW ok \in BOOLEAN, Configure(ok) PROVE IInv'
  <2>1. Types'
    BY <1>0, <1>1 DEF Configure, Types, behave
  <2>2. BehaveWatched'
    BY <1>0, <1>1 DEF Configure, BehaveWatched, behave
  <2>3. ResultFromRc'
    BY <1>0, <1>1, UnsetIsNoStatus DEF Configure, Types, ResultFromRc
  <2> QED
    BY <2>1, <2>2, <2>3 DEF IInv
<1>2. ASSUME NEW answer \in {"fits", "unfit", "invalid"}, VersionControl(answer) PROVE IInv'
  <2>0. rc' \in {0, 77, rc} /\ sh' \in {"call", "result", "trap"}
    BY <1>2 DEF VersionControl
  <2>1. Types'
    BY <1>0, <1>2, <2>0 DEF VersionControl, Types, behave
  <2>2. BehaveWatched'
    BY <1>0, <1>2 DEF VersionControl, BehaveWatched, behave
  <2>3. ResultFromRc'
    <3>1. result' = "" /\ rc = Unset
      BY <1>0, <1>2 DEF VersionControl, ResultFromRc
    <3>2. \/ sh' = "call" /\ rc' = 0
          \/ sh' = "result" /\ rc' = 77
          \/ sh' = "trap" /\ rc' = Unset
      BY <1>2, <3>1 DEF VersionControl
    <3> QED
      BY <3>1, <3>2, UnsetIsNoStatus DEF ResultFromRc
  <2> QED
    BY <2>1, <2>2, <2>3 DEF IInv
<1>3. CASE CallBehave
  <2>1. Types'
    BY <1>0, <1>3 DEF CallBehave, Types, behave, Alive
  <2>2. BehaveWatched'
    BY <1>0, <1>3 DEF CallBehave, BehaveWatched, behave, Alive
  <2>3. ResultFromRc'
    BY <1>0, <1>3, UnsetIsNoStatus DEF CallBehave, Types, ResultFromRc
  <2> QED
    BY <2>1, <2>2, <2>3 DEF IInv
<1>4. CASE Waited
  <2>1. Types'
    BY <1>0, <1>4 DEF Waited, Types, behave
  <2>2. BehaveWatched'
    BY <1>0, <1>4 DEF Waited, BehaveWatched, behave, Alive
  <2>3. ResultFromRc'
    BY <1>0, <1>4, UnsetIsNoStatus DEF Waited, Types, ResultFromRc
  <2> QED
    BY <2>1, <2>2, <2>3 DEF IInv
<1>5. CASE ReadSkipFile
  <2>1. Types'
    BY <1>0, <1>5 DEF ReadSkipFile, Types, behave
  <2>2. BehaveWatched'
    BY <1>0, <1>5 DEF ReadSkipFile, BehaveWatched, behave
  <2>3. ResultFromRc'
    BY <1>0, <1>5, UnsetIsNoStatus DEF ReadSkipFile, Types, ResultFromRc
  <2> QED
    BY <2>1, <2>2, <2>3 DEF IInv
<1>6. CASE RemoveSkipFile
  <2>1. Types'
    BY <1>0, <1>6 DEF RemoveSkipFile, Types, behave
  <2>2. BehaveWatched'
    BY <1>0, <1>6 DEF RemoveSkipFile, BehaveWatched, behave
  <2>3. ResultFromRc'
    BY <1>0, <1>6, UnsetIsNoStatus DEF RemoveSkipFile, Types, ResultFromRc
  <2> QED
    BY <2>1, <2>2, <2>3 DEF IInv
<1>7. CASE Invert
  <2>1. Types'
    BY <1>0, <1>7 DEF Invert, Types, behave
  <2>2. BehaveWatched'
    BY <1>0, <1>7 DEF Invert, BehaveWatched, behave
  <2>3. ResultFromRc'
    BY <1>0, <1>7, UnsetIsNoStatus DEF Invert, Types, ResultFromRc
  <2> QED
    BY <2>1, <2>2, <2>3 DEF IInv
<1>8. CASE SetResult
  <2>1. Types'
    BY <1>0, <1>8 DEF SetResult, Types, behave
  <2>2. BehaveWatched'
    BY <1>0, <1>8 DEF SetResult, BehaveWatched, behave
  <2>3. ResultFromRc'
    BY <1>0, <1>8, UnsetIsNoStatus DEF SetResult, Types, ResultFromRc
  <2> QED
    BY <2>1, <2>2, <2>3 DEF IInv
<1>9. CASE StillThere
  <2>1. Types'
    BY <1>0, <1>9 DEF StillThere, Types, behave
  <2>2. BehaveWatched'
    BY <1>0, <1>9 DEF StillThere, BehaveWatched, behave
  <2>3. ResultFromRc'
    BY <1>0, <1>9, UnsetIsNoStatus DEF StillThere, Types, ResultFromRc
  <2> QED
    BY <2>1, <2>2, <2>3 DEF IInv
<1>10. CASE KillBehave
  <2>1. Types'
    BY <1>0, <1>10 DEF KillBehave, Types, behave
  <2>2. BehaveWatched'
    BY <1>0, <1>10 DEF KillBehave, BehaveWatched, behave, Alive
  <2>3. ResultFromRc'
    BY <1>0, <1>10, UnsetIsNoStatus DEF KillBehave, Types, ResultFromRc
  <2> QED
    BY <2>1, <2>2, <2>3 DEF IInv
<1>11. CASE Finished
  <2>1. Types'
    BY <1>0, <1>11 DEF Finished, Types, behave
  <2>2. BehaveWatched'
    BY <1>0, <1>11 DEF Finished, BehaveWatched, behave
  <2>3. ResultFromRc'
    BY <1>0, <1>11, UnsetIsNoStatus DEF Finished, Types, ResultFromRc
  <2> QED
    BY <2>1, <2>2, <2>3 DEF IInv
<1>12. ASSUME NEW before \in {0, 1}, ReportAndExit(before) PROVE IInv'
  <2>1. Types'
    BY <1>0, <1>12 DEF ReportAndExit, Types, behave
  <2>2. BehaveWatched'
    BY <1>0, <1>12 DEF ReportAndExit, BehaveWatched, behave
  <2>3. ResultFromRc'
    <3>1. /\ sh = "report" /\ sh' = "exited" /\ rc' = rc /\ (hit' <=> hit)
          /\ result' = IF result = "" THEN "FAIL" ELSE result
          /\ status' = IF rc = Unset THEN before ELSE rc
          /\ before = 0 => hit
      BY <1>12 DEF ReportAndExit
    <3>2. result' = "PASS" => rc' = 0
      BY <1>0, <3>1 DEF ResultFromRc
    <3>3. result' = "SKIP" => rc' = 77
      BY <1>0, <3>1 DEF ResultFromRc
    <3>4. ASSUME ~ hit
          PROVE  /\ result' = "PASS" <=> status' = 0
                 /\ result' = "SKIP" <=> status' = 77
      <4>1. before = 1
        BY <1>12, <3>1, <3>4
      <4>2. CASE result = ""
        <5>1. rc = Unset /\ status' = 1 /\ result' = "FAIL"
          BY <1>0, <3>1, <3>4, <4>1, <4>2 DEF ResultFromRc
        <5> QED
          BY <5>1
      <4>3. CASE result # ""
        <5>1. /\ result' = result /\ rc # Unset /\ status' = rc
          BY <1>0, <3>1, <4>3, UnsetIsNoStatus DEF ResultFromRc, Types
        <5>2. \/ result = "PASS" /\ rc = 0
              \/ result = "SKIP" /\ rc = 77
              \/ result = "FAIL" /\ rc = 1
          BY <1>0, <3>1, <4>3 DEF ResultFromRc, Types
        <5> QED
          BY <5>1, <5>2
      <4> QED
        BY <4>2, <4>3
    <3>5. ~ hit' => ~ hit
      BY <3>1
    <3>6. sh' = "exited"
      BY <3>1
    <3> QED
      BY <3>2, <3>3, <3>4, <3>5, <3>6 DEF ResultFromRc
  <2> QED
    BY <2>1, <2>2, <2>3 DEF IInv
<1> QED
  BY <1>1, <1>2, <1>3, <1>4, <1>5, <1>6, <1>7, <1>8, <1>9, <1>10, <1>11, <1>12
     DEF RunShell

LEMMA FrameInv ==
  ASSUME ResultFromRc, UNCHANGED <<sh, rc, result, status, hit>>
  PROVE  ResultFromRc'
BY ZenonT(60) DEF ResultFromRc

(* behave changes nothing of the shell's, and does not come back to life. *)
LEMMA BehaveInv == ASSUME IInv, RunBehave PROVE IInv'
<1>1. /\ bh \in Alive
      /\ bh' \in Alive \cup {"exited"}
      /\ code' \in {0, 1}
      /\ UNCHANGED <<kind, sh, rc, result, status, hit>>
  BY DEF RunBehave, StartScenario, EndScenario, CleanUp, AfterAll, RaiseInScenario,
         RaiseInCleanup, RaiseAtEnd, InBehave, Raise, shell, Alive, IInv, Types
<1>2. Types'
  BY <1>1 DEF IInv, Types
<1>3. BehaveWatched'
  BY <1>1 DEF IInv, BehaveWatched
<1>4. ResultFromRc'
  BY <1>1, FrameInv DEF IInv
<1> QED
  BY <1>2, <1>3, <1>4 DEF IInv

(* The three facts an invariance theorem rests on: the step. *)
LEMMA NextInv == ASSUME IInv, [Next]_allVars PROVE IInv'
<1>0. Types /\ BehaveWatched /\ ResultFromRc
  BY DEF IInv
<1>1. CASE RunShell
  BY <1>1, ShellInv
<1>2. CASE RunBehave
  BY <1>2, BehaveInv
<1>3. CASE Terminate
  <2>1. /\ ~ hit /\ hit' = TRUE /\ UNCHANGED <<kind, rc, code>>
        /\ sh # "exited"
        /\ bh' = IF bh = "starting" THEN "killed" ELSE bh
        /\ \/ /\ sh \in {"trap", "report"}
              /\ sh' = "exited" /\ status' = 143 /\ result' \in {"", result}
           \/ /\ sh \notin {"trap", "report"}
              /\ sh' = "trap" /\ UNCHANGED <<status, result>>
    BY <1>3 DEF Terminate
  <2>2. Types'
    BY <1>0, <2>1 DEF Types
  <2>3. BehaveWatched'
    BY <1>0, <2>1 DEF BehaveWatched, Alive
  <2>4. ResultFromRc'
    BY <1>0, <2>1 DEF ResultFromRc, Types
  <2> QED
    BY <2>2, <2>3, <2>4 DEF IInv
<1>4. CASE NextTest
  BY <1>4, UnsetIsNoStatus
     DEF NextTest, Restart, IInv, Types, BehaveWatched, ResultFromRc, Alive
<1>5. CASE Summarize \/ UNCHANGED allVars
  <2>1. UNCHANGED <<kind, sh, rc, result, status, hit, bh, code>>
    BY <1>5 DEF Summarize, allVars, vars, shell, behave
  <2>2. Types'
    BY <1>0, <2>1 DEF Types
  <2>3. BehaveWatched'
    BY <1>0, <2>1, Zenon DEF BehaveWatched
  <2>4. ResultFromRc'
    BY <1>0, <2>1, FrameInv
  <2> QED
    BY <2>2, <2>3, <2>4 DEF IInv
<1> QED
  BY <1>1, <1>2, <1>3, <1>4, <1>5 DEF Next, Step

THEOREM Invariance == Spec => []IInv
<1>1. InitAll => IInv
  BY InitInv
<1>2. IInv /\ [Next]_allVars => IInv'
  BY NextInv
<1> QED
  BY <1>1, <1>2, PTL DEF Spec

(* "we just have to wait for PID" (run/runtest.sh): when a test has ended, *)
(* no behave is left, however long the trap waits.                         *)
THEOREM NoBehaveLeft == Spec => []OneBehave
<1>1. IInv => OneBehave
  BY DEF IInv, BehaveWatched, OneBehave, Ended
<1> QED
  BY <1>1, Invariance, PTL

(* The exit status of run/runtest.sh agrees with what it reported, unless  *)
(* the watchdog struck.                                                    *)
THEOREM StatusAgrees == Spec => []StatusHonest
<1>1. IInv => StatusHonest
  BY DEF IInv, ResultFromRc, StatusHonest, Ended
<1> QED
  BY <1>1, Invariance, PTL

-----------------------------------------------------------------------------
(* The counting of run/runtests.sh. *)

TallyInv == tally \in Seq({"pass", "skip", "fail"})

LEMMA CountTyped ==
  ASSUME TallyInv, Count
  PROVE  /\ TallyInv'
         /\ Len(tally') = Len(tally) + 1
         /\ hit \/ status \notin {0, 77} => tally'[Len(tally')] = "fail"
<1> DEFINE word == CASE ExitStatus = 77 -> "skip" [] ExitStatus = 0 -> "pass" [] OTHER -> "fail"
<1>1. tally' = Append(tally, word)
  BY DEF Count
<1>2. word \in {"pass", "skip", "fail"}
  OBVIOUS
<1>3. hit \/ status \notin {0, 77} => word = "fail"
  BY DEF ExitStatus
<1> HIDE DEF word
<1> QED
  BY <1>1, <1>2, <1>3, AppendProperties DEF TallyInv

-----------------------------------------------------------------------------
(* The types. *)

WordsTyped ==
  /\ kind \in Kind
  /\ sh \in {"setup", "gate", "call", "wait", "skip", "rm", "invert", "result",
             "trap", "report", "exited"}
  /\ bh \in Alive \cup {"none", "exited", "killed"}
  /\ truth \in Truth

NumbersTyped ==
  /\ status \in {Unset, 0, 1, 77, 143}
  /\ tries \in 0 .. Retries

FlagsTyped ==
  /\ flag \in BOOLEAN /\ signalled \in BOOLEAN
  /\ skipFile \in BOOLEAN /\ dirty \in BOOLEAN
  /\ hit \in BOOLEAN

LEMMA Bounds == Retries \in Nat /\ NTests \in Nat /\ 0 < NTests
BY RunTestAssumption, RunTestsAssumption DEF RunTestAssumption, RunTestsAssumption

LEMMA WordsTypedKept == ASSUME WordsTyped, [Next]_allVars PROVE WordsTyped'
<1>1. kind' \in Kind
  BY DEF WordsTyped, Next, Step, NextTest, Restart, Summarize, allVars, vars, RunShell, Configure,
     VersionControl, CallBehave, Waited, ReadSkipFile, RemoveSkipFile, Invert, SetResult, StillThere,
     KillBehave, Finished, ReportAndExit, RunBehave, StartScenario, EndScenario, CleanUp, AfterAll,
     RaiseInScenario, RaiseInCleanup, RaiseAtEnd, InBehave, Raise, Terminate
<1>2. sh' \in {"setup", "gate", "call", "wait", "skip", "rm", "invert", "result",
               "trap", "report", "exited"}
  BY DEF WordsTyped, Next, Step, NextTest, Restart, Summarize, allVars, vars, RunShell, Configure,
     VersionControl, CallBehave, Waited, ReadSkipFile, RemoveSkipFile, Invert, SetResult, StillThere,
     KillBehave, Finished, ReportAndExit, RunBehave, StartScenario, EndScenario, CleanUp, AfterAll,
     RaiseInScenario, RaiseInCleanup, RaiseAtEnd, InBehave, Raise, Terminate, shell
<1>3. bh' \in Alive \cup {"none", "exited", "killed"}
  BY DEF WordsTyped, Next, Step, NextTest, Restart, Summarize, allVars, vars, RunShell, Configure,
     VersionControl, CallBehave, Waited, ReadSkipFile, RemoveSkipFile, Invert, SetResult, StillThere,
     KillBehave, Finished, ReportAndExit, RunBehave, StartScenario, EndScenario, CleanUp, AfterAll,
     RaiseInScenario, RaiseInCleanup, RaiseAtEnd, InBehave, Raise, Terminate, behave, Alive
<1>4. truth' \in Truth
  BY DEF WordsTyped, Next, Step, NextTest, Restart, Summarize, allVars, vars, RunShell, Configure,
     VersionControl, CallBehave, Waited, ReadSkipFile, RemoveSkipFile, Invert, SetResult, StillThere,
     KillBehave, Finished, ReportAndExit, RunBehave, StartScenario, EndScenario, CleanUp, AfterAll,
     RaiseInScenario, RaiseInCleanup, RaiseAtEnd, InBehave, Raise, Terminate, Truth
<1>5. QED
  BY <1>1, <1>2, <1>3, <1>4 DEF WordsTyped

LEMMA NumbersTypedKept == ASSUME Types, NumbersTyped, [Next]_allVars PROVE NumbersTyped'
<1>1. status' \in {status, Unset, 143, 0, 1, rc}
  BY DEF Next, Step, NextTest, Restart, Summarize, allVars, vars, RunShell,
     Configure, VersionControl, CallBehave, Waited, ReadSkipFile, RemoveSkipFile, Invert, SetResult,
     StillThere, KillBehave, Finished, ReportAndExit, RunBehave, StartScenario, EndScenario, CleanUp,
     AfterAll, RaiseInScenario, RaiseInCleanup, RaiseAtEnd, InBehave, Raise, Terminate, shell
<1>2. \/ tries' = tries \/ tries' = 0
      \/ tries < Retries /\ tries' = tries + 1
  BY DEF Next, Step, NextTest, Restart, Summarize, allVars, vars, RunShell, Configure,
     VersionControl, CallBehave, Waited, ReadSkipFile, RemoveSkipFile, Invert, SetResult, StillThere,
     KillBehave, Finished, ReportAndExit, RunBehave, StartScenario, EndScenario, CleanUp, AfterAll,
     RaiseInScenario, RaiseInCleanup, RaiseAtEnd, InBehave, Raise, Terminate, shell
<1>3. tries' \in 0 .. Retries
  BY <1>2, Bounds DEF NumbersTyped
<1>4. status' \in {Unset, 0, 1, 77, 143}
  <2>1. status \in {Unset, 0, 1, 77, 143} /\ rc \in {Unset, 0, 1, 77}
    BY DEF Types, NumbersTyped
  <2>2. QED
    BY <1>1, <2>1
<1>5. QED
  BY <1>3, <1>4 DEF NumbersTyped

LEMMA FlagsTypedKept == ASSUME FlagsTyped, [Next]_allVars PROVE FlagsTyped'
<1>1. flag' \in BOOLEAN /\ signalled' \in BOOLEAN
  <2>1. flag' \in BOOLEAN
    BY DEF FlagsTyped, Next, Step, NextTest, Restart, Summarize, allVars, vars, RunShell,
       Configure, VersionControl, CallBehave, Waited, ReadSkipFile, RemoveSkipFile, Invert, SetResult,
       StillThere, KillBehave, Finished, ReportAndExit, RunBehave, StartScenario, EndScenario, CleanUp,
       AfterAll, RaiseInScenario, RaiseInCleanup, RaiseAtEnd, InBehave, Raise, Terminate, behave
  <2>2. signalled' \in BOOLEAN
    <3>1. \/ signalled' = signalled \/ signalled' = FALSE
          \/ Terminate
      BY DEF Next, Step, NextTest, Restart, Summarize, allVars, vars, RunShell,
         Configure, VersionControl, CallBehave, Waited, ReadSkipFile, RemoveSkipFile, Invert, SetResult,
         StillThere, KillBehave, Finished, ReportAndExit, RunBehave, StartScenario, EndScenario, CleanUp,
         AfterAll, RaiseInScenario, RaiseInCleanup, RaiseAtEnd, InBehave, Raise, behave
    <3>2. CASE Terminate
      <4>1. CASE bh \in Alive \ {"starting"}
        BY <3>2, <4>1 DEF Terminate
      <4>2. CASE bh \notin Alive \ {"starting"}
        <5>1. (bh \in Alive \ {"starting"}) = FALSE
          BY <4>2
        <5>2. signalled' = (bh \in Alive \ {"starting"})
          BY <3>2 DEF Terminate
        <5>3. signalled' = FALSE
          BY <5>1, <5>2, Zenon
        <5>4. QED
          BY <5>3
      <4>3. QED
        BY <4>1, <4>2
    <3>3. QED
      BY <3>1, <3>2 DEF FlagsTyped
  <2>3. QED
    BY <2>1, <2>2
<1>2. skipFile' \in BOOLEAN /\ dirty' \in BOOLEAN
  BY ZenonT(60) DEF FlagsTyped, Next, Step, NextTest, Restart, Summarize, allVars, vars, RunShell,
     Configure, VersionControl, CallBehave, Waited, ReadSkipFile, RemoveSkipFile, Invert, SetResult,
     StillThere, KillBehave, Finished, ReportAndExit, RunBehave, StartScenario, EndScenario, CleanUp,
     AfterAll, RaiseInScenario, RaiseInCleanup, RaiseAtEnd, InBehave, Raise, Terminate
<1>3. hit' \in BOOLEAN
  BY ZenonT(60) DEF FlagsTyped, Next, Step, NextTest, Restart, Summarize, allVars, vars, RunShell,
     Configure, VersionControl, CallBehave, Waited, ReadSkipFile, RemoveSkipFile, Invert, SetResult,
     StillThere, KillBehave, Finished, ReportAndExit, RunBehave, StartScenario, EndScenario, CleanUp,
     AfterAll, RaiseInScenario, RaiseInCleanup, RaiseAtEnd, InBehave, Raise, Terminate
<1>4. QED
  BY <1>1, <1>2, <1>3 DEF FlagsTyped

-----------------------------------------------------------------------------
(* The summary. *)

Words == {"pass", "skip", "fail"}

Summed ==
  /\ tally \in Seq({"pass", "skip", "fail"}) /\ Len(tally) <= NTests
  /\ summary \in [text : {"", "PASS", "FAIL"}, status : {Unset, 0, 1}]
  /\ summary.status = 0 => Len(tally) = NTests
  /\ RunPasses

LEMMA OneIsNotGood == ASSUME summary'.status = 1 PROVE summary'.status # 0
OBVIOUS

LEMMA SummedKept == ASSUME Summed, [Next]_allVars PROVE Summed'
<1>1. NTests \in Nat /\ Len(tally) \in Nat /\ TallyInv
  BY Bounds, LenProperties DEF Summed, TallyInv
<1>2. CASE UNCHANGED <<tally, summary>>
  BY <1>2 DEF Summed, RunPasses
<1>3. CASE NextTest
  <2>1. Len(tally) + 1 < NTests /\ summary' = summary
    BY <1>3 DEF NextTest
  <2>2. TallyInv' /\ Len(tally') = Len(tally) + 1
    BY <1>1, <1>3, CountTyped DEF NextTest
  <2>3. summary.status # 0
    <3>1. summary.status = 0 => Len(tally) = NTests
      BY DEF Summed
    <3>2. Len(tally) # NTests
      BY <1>1, <2>1
    <3>3. QED
      BY <3>1, <3>2
  <2>4. Len(tally') <= NTests
    BY <1>1, <2>1, <2>2
  <2>5. summary' \in [text : {"", "PASS", "FAIL"}, status : {Unset, 0, 1}]
    BY <2>1 DEF Summed
  <2>6. QED
    BY <2>1, <2>2, <2>3, <2>4, <2>5 DEF Summed, RunPasses, TallyInv
<1>4. CASE Summarize
  <2> DEFINE passed == \E t \in DOMAIN tally' : tally'[t] = "pass"
             failed == \E t \in DOMAIN tally' : tally'[t] = "fail"
  <2>1. /\ Len(tally) + 1 = NTests
        /\ summary' = [text   |-> IF failed THEN "FAIL" ELSE IF passed THEN "PASS" ELSE "",
                       status |-> IF passed /\ ~ failed THEN 0 ELSE 1]
    BY <1>4 DEF Summarize
  <2>2. TallyInv' /\ Len(tally') = NTests
    BY <1>1, <1>4, <2>1, CountTyped DEF Summarize
  <2>3. DOMAIN tally' = 1 .. NTests
    BY <2>2, LenProperties DEF TallyInv
  <2>4. /\ summary' \in [text : {"", "PASS", "FAIL"}, status : {Unset, 0, 1}]
        /\ summary'.status = 0 => (passed /\ ~ failed) = TRUE
    <3>1. CASE passed /\ ~ failed
      BY <2>1, <3>1
    <3>2. CASE ~ passed \/ failed
      <4>1. summary' = [text |-> summary'.text, status |-> 1] /\ summary'.text \in {"", "PASS", "FAIL"}
        BY <2>1, <3>2
      <4>2. PICK x \in {"", "PASS", "FAIL"} : summary' = [text |-> x, status |-> 1]
        BY <4>1
      <4>3. summary'.status = 1
        BY <4>2
      <4>4. summary'.status # 0
        BY ONLY <4>3, OneIsNotGood
      <4>5. summary' \in [text : {"", "PASS", "FAIL"}, status : {Unset, 0, 1}]
        BY <4>2
      <4>6. QED
        BY <4>4, <4>5, Zenon
    <3>3. QED
      BY <3>1, <3>2
  <2>5. RunPasses'
    BY <2>3, <2>4 DEF RunPasses, passed, failed
  <2>6. Len(tally') <= NTests /\ Len(tally') = NTests
    BY <1>1, <2>2
  <2>7. QED
    BY <2>2, <2>4, <2>5, <2>6 DEF Summed, TallyInv
<1>5. QED
  BY <1>2, <1>3, <1>4 DEF Next, Step, allVars

-----------------------------------------------------------------------------
(* What is reported of a test, and what it leaves. *)

Allowed == {Expected} \cup (IF everHit /\ truth = "passed" THEN {"SKIP"} ELSE {})

Word(c) == IF c = 0 THEN "PASS" ELSE IF c = 77 THEN "SKIP" ELSE "FAIL"

(* What behave that exits with c says of a test that ended in it; the file *)
(* is there for a skipped test, or left by an earlier one.                 *)
Said(c) ==
  /\ truth \in {"passed", "failed", "skipped"}
  /\ c = IF truth = "failed" THEN 1 ELSE 0
  /\ truth = "skipped" => skipFile
  /\ skipFile => everHit \/ truth = "skipped"

(* The same once the file was read. *)
Read(c) ==
  \/ truth = "failed" /\ c = 1
  \/ truth = "skipped" /\ c = 77
  \/ truth = "passed" /\ (c = 0 \/ (everHit /\ c = 77))

InBehaveOutcome ==
  \/ bh = "starting" /\ truth = "unknown" /\ (skipFile => everHit)
  \/ bh = "scenario" /\ truth = "unknown" /\ (skipFile => everHit)
  \/ /\ bh \in {"cleaning", "finishing"}
     /\ bh = "finishing" /\ dirty => truth = "failed"
     /\ truth \in {"passed", "failed", "skipped"}
     /\ flag <=> truth = "skipped"
     /\ code = IF truth = "failed" THEN 1 ELSE 0
     /\ skipFile => everHit
  \/ bh = "exited" /\ Said(code) /\ (dirty => truth = "failed")

(* Before a signal strikes: how far the outcome of the test has come.      *)
Outcome ==
  ~ hit =>
  /\ ~ signalled
  /\ sh \notin {"wait", "skip", "rm"} => (skipFile => everHit)
  /\ sh \in {"setup", "gate", "call"} => ~ dirty
  /\ sh # "wait" /\ dirty => truth = "failed"
  /\ sh \in {"setup", "gate", "call"} => truth = "unknown"
  /\ sh = "wait" => InBehaveOutcome
  /\ sh = "skip" => Said(rc)
  /\ sh \in {"rm", "invert"} => Read(rc)
  /\ sh = "result" => Word(rc) \in Allowed
  /\ sh \in {"trap", "report"} => IF result = "" THEN Expected = "FAIL" ELSE result \in Allowed
  /\ sh = "exited" => result \in Allowed

LEMMA WordOfSkip == Word(77) = "SKIP"
BY DEF Word

LEMMA AllowedStays ==
  ASSUME UNCHANGED <<kind, truth, everHit>>
  PROVE  Expected' = Expected /\ Allowed' = Allowed
<1>1. Expected' = Expected
  BY DEF Expected
<1>2. QED
  BY <1>1, Zenon DEF Allowed

LEMMA FileAsBefore ==
  ASSUME skipFile => everHit, UNCHANGED <<skipFile, everHit>>
  PROVE  skipFile' => everHit'
BY Zenon

LEMMA OutcomeOfShell ==
  ASSUME IInv, WordsTyped, Outcome, ~ hit, RunShell, UNCHANGED everHit
  PROVE  Outcome'
<1>1. /\ BehaveWatched /\ ResultFromRc /\ Types
      /\ sh # "wait" => bh \notin Alive
  BY DEF IInv, BehaveWatched
<1> USE DEF Outcome
<1>2. ASSUME NEW ok \in BOOLEAN, Configure(ok) PROVE Outcome'
  <2>1. result = "" /\ truth = "unknown"
    BY <1>1, <1>2 DEF Configure, ResultFromRc
  <2>2. QED
    BY <1>2, <2>1 DEF Configure, behave, Expected
<1>3. ASSUME NEW answer \in {"fits", "unfit", "invalid"}, VersionControl(answer) PROVE Outcome'
  <2>1. result = "" /\ truth = "unknown"
    BY <1>1, <1>3 DEF VersionControl, ResultFromRc
  <2>2. QED
    <3>1. CASE answer = "fits"
      BY <1>3, <2>1, <3>1 DEF VersionControl, behave
    <3>2. CASE answer = "unfit"
      <4>1. sh' = "result" /\ rc' = 77 /\ truth' = "unfit"
        BY <1>3, <3>2 DEF VersionControl
      <4>2. Expected' = "SKIP"
        BY <4>1 DEF Expected
      <4>3. Word(rc)' = "SKIP"
        BY <4>1, WordOfSkip
      <4>4. QED
        BY <1>3, <4>1, <4>2, <4>3 DEF VersionControl, behave, Allowed
    <3>3. CASE answer = "invalid"
      BY <1>3, <2>1, <3>3 DEF VersionControl, behave, Expected
    <3>4. QED
      BY <3>1, <3>2, <3>3
<1>4. CASE CallBehave
  BY <1>4 DEF CallBehave, InBehaveOutcome
<1>5. CASE Waited
  BY <1>5 DEF Waited, behave, InBehaveOutcome, Said
<1>6. CASE ReadSkipFile
  <2>1. sh = "skip" /\ sh' = "rm" /\ Said(rc)
    BY <1>6 DEF ReadSkipFile
  <2>2. Read(rc)'
    BY <1>6, <2>1 DEF ReadSkipFile, Said, Read
  <2>3. QED
    BY <1>6, <2>1, <2>2 DEF ReadSkipFile, behave
<1>7. CASE RemoveSkipFile
  BY <1>7 DEF RemoveSkipFile, behave, Read
<1>8. CASE Invert
  <2>1. sh = "invert" /\ sh' = "result" /\ Read(rc) /\ kind \in {"plain", "xfail", "may_fail"}
    BY <1>8 DEF Invert, WordsTyped, Kind
  <2>2. rc' = IF kind = "plain" \/ rc = 77 THEN rc ELSE IF kind = "xfail" /\ rc = 0 THEN 1 ELSE 0
    BY <1>8 DEF Invert
  <2>3. UNCHANGED <<kind, truth, everHit>>
    BY <1>8 DEF Invert
  <2>4. Word(rc') \in Allowed
    BY <2>1, <2>2 DEF Read, Word, Allowed, Expected
  <2>5. Allowed' = Allowed
    BY <2>3, AllowedStays
  <2>6. QED
    BY <1>8, <2>1, <2>4, <2>5 DEF Invert, behave, Word
<1>9. CASE SetResult
  <2>1. sh = "result" /\ sh' = "trap" /\ result' = Word(rc) /\ UNCHANGED <<kind, truth, everHit>>
    BY <1>9 DEF SetResult, Word
  <2>2. result' # ""
    BY <2>1 DEF Word
  <2>3. Allowed' = Allowed
    BY <2>1, AllowedStays
  <2>4. QED
    BY <1>9, <2>1, <2>2, <2>3 DEF SetResult, behave
<1>10. CASE StillThere \/ KillBehave
  BY <1>1, <1>10 DEF StillThere, KillBehave
<1>11. CASE Finished
  <2>1. UNCHANGED <<kind, truth, everHit, result>> /\ sh = "trap" /\ sh' = "report"
    BY <1>11 DEF Finished
  <2>2. Allowed' = Allowed /\ Expected' = Expected
    BY <2>1, AllowedStays
  <2>3. IF result' = "" THEN Expected' = "FAIL" ELSE result' \in Allowed'
    BY <2>1, <2>2
  <2>4. UNCHANGED <<signalled, skipFile, dirty, everHit, hit>>
    BY <1>11 DEF Finished, behave
  <2>5. ~ signalled'
    BY <2>4
  <2>6. skipFile' => everHit'
    <3>1. skipFile => everHit
      BY <2>1
    <3>2. QED
      BY ONLY <2>4, <3>1, FileAsBefore
  <2>7. dirty' => truth' = "failed"
    BY <2>1, <2>4
  <2>8. QED
    BY <2>1, <2>3, <2>5, <2>6, <2>7
<1>12. ASSUME NEW before \in {0, 1}, ReportAndExit(before) PROVE Outcome'
  <2>1. /\ UNCHANGED <<kind, truth, everHit>> /\ sh = "report" /\ sh' = "exited"
        /\ result' = IF result = "" THEN "FAIL" ELSE result
    BY <1>12 DEF ReportAndExit
  <2>2. Allowed' = Allowed
    BY <2>1, AllowedStays
  <2>3. result' \in Allowed
    BY <2>1 DEF Allowed
  <2>4. UNCHANGED <<signalled, skipFile, dirty, everHit, hit>>
    BY <1>12 DEF ReportAndExit, behave
  <2>5. result' \in Allowed'
    BY <2>2, <2>3
  <2>6. ~ signalled' /\ (dirty' => truth' = "failed")
    BY <2>1, <2>4
  <2>7. skipFile' => everHit'
    <3>1. skipFile => everHit
      BY <2>1
    <3>2. QED
      BY ONLY <2>4, <3>1, FileAsBefore
  <2>8. QED
    BY <2>1, <2>5, <2>6, <2>7
<1>13. QED
  BY <1>2, <1>3, <1>4, <1>5, <1>6, <1>7, <1>8, <1>9, <1>10, <1>11, <1>12 DEF RunShell

LEMMA OutcomeOfBehave ==
  ASSUME IInv, WordsTyped, Outcome, ~ hit, RunBehave, UNCHANGED everHit
  PROVE  Outcome'
<1>1. sh = "wait" /\ ~ signalled /\ InBehaveOutcome
  <2>1. bh \in Alive
    BY DEF RunBehave, StartScenario, EndScenario, CleanUp, AfterAll, RaiseInScenario,
           RaiseInCleanup, RaiseAtEnd, Alive
  <2>2. QED
    BY <2>1 DEF IInv, BehaveWatched, Outcome
<1>2. ASSUME InBehaveOutcome', UNCHANGED <<sh, signalled>>
      PROVE  Outcome'
  BY <1>1, <1>2 DEF Outcome
<1>3. CASE StartScenario
  BY <1>1, <1>2, <1>3 DEF StartScenario, InBehave, shell, InBehaveOutcome
<1>4. ASSUME NEW outcome \in {"passed", "failed", "skipped"}, EndScenario(outcome) PROVE Outcome'
  BY <1>1, <1>2, <1>4 DEF EndScenario, InBehave, shell, InBehaveOutcome
<1>5. ASSUME NEW broken \in BOOLEAN, CleanUp(broken) PROVE Outcome'
  BY <1>1, <1>2, <1>5 DEF CleanUp, InBehave, shell, InBehaveOutcome
<1>6. CASE AfterAll
  BY <1>1, <1>2, <1>6 DEF AfterAll, InBehave, shell, InBehaveOutcome, Said
<1>7. CASE Raise
  BY <1>1, <1>7 DEF Raise
<1>8. QED
  BY <1>3, <1>4, <1>5, <1>6, <1>7 DEF RunBehave, RaiseInScenario, RaiseInCleanup, RaiseAtEnd

LEMMA OutcomeKept ==
  ASSUME IInv, WordsTyped, Outcome, [Next]_allVars
  PROVE  Outcome'
<1>1. CASE NextTest
  BY <1>1 DEF NextTest, Restart, Outcome
<1>2. CASE UNCHANGED <<vars, everHit>>
  BY <1>2 DEF vars, shell, behave, Outcome, InBehaveOutcome, Said, Read, Word, Allowed, Expected
<1>3. CASE hit' = TRUE
  BY <1>3 DEF Outcome
<1>4. ASSUME hit, Step PROVE hit' = hit
  BY <1>4 DEF Step, Terminate, RunShell, Configure, VersionControl, CallBehave, Waited, ReadSkipFile,
     RemoveSkipFile, Invert, SetResult, StillThere, KillBehave, Finished, ReportAndExit, RunBehave,
     StartScenario, EndScenario, CleanUp, AfterAll, RaiseInScenario, RaiseInCleanup, RaiseAtEnd,
     InBehave, Raise
<1>5. CASE Step /\ ~ hit
  BY <1>3, <1>5, OutcomeOfShell, OutcomeOfBehave DEF Step, Terminate
<1>6. CASE Step /\ hit
  BY <1>4, <1>6 DEF Outcome
<1>7. QED
  BY <1>1, <1>2, <1>5, <1>6 DEF Next, Summarize, allVars

(* From then on: a report that was made before it stays or is lost, and    *)
(* none but FAIL is made behind it.                                        *)
Struck ==
  hit =>
  /\ sh \in {"trap", "report", "exited"}
  /\ IF sh = "exited" THEN result \in Allowed \cup {"FAIL", ""} ELSE result = ""

LEMMA StruckKept ==
  ASSUME IInv, Outcome, Struck, [Next]_allVars
  PROVE  Struck'
<1>0. BehaveWatched /\ ResultFromRc
  BY DEF IInv
<1>1. CASE NextTest
  BY <1>1 DEF NextTest, Restart, Struck
<1>2. CASE Summarize \/ UNCHANGED allVars
  <2>1. UNCHANGED <<kind, truth, everHit, hit, sh, result>>
    BY <1>2 DEF Summarize, allVars, vars, shell
  <2>2. Allowed' = Allowed
    BY <2>1, AllowedStays
  <2>3. QED
    BY <2>1, <2>2, Zenon DEF Struck
<1>3. CASE Terminate /\ UNCHANGED everHit
  <2>1. UNCHANGED <<kind, truth, everHit>> /\ ~ hit /\ sh # "exited"
    BY <1>3 DEF Terminate
  <2>2. Allowed' = Allowed
    BY <2>1, AllowedStays
  <2>3. CASE sh \in {"trap", "report"}
    <3>1. sh' = "exited" /\ result' \in {"", result}
      BY <1>3, <2>3 DEF Terminate
    <3>2. result = "" \/ result \in Allowed
      BY <2>1, <2>3 DEF Outcome
    <3>3. QED
      BY <2>2, <3>1, <3>2 DEF Struck
  <2>4. CASE sh \notin {"trap", "report"}
    <3>1. sh' = "trap" /\ result' = result
      BY <1>3, <2>4 DEF Terminate
    <3>2. result = ""
      BY <1>0, <2>1, <2>4 DEF ResultFromRc
    <3>3. QED
      BY <3>1, <3>2 DEF Struck
  <2>5. QED
    BY <2>3, <2>4
<1>4. CASE RunBehave
  <2>1. bh \in Alive /\ UNCHANGED <<sh, result, hit>>
    BY <1>4 DEF RunBehave, StartScenario, EndScenario, CleanUp, AfterAll, RaiseInScenario,
           RaiseInCleanup, RaiseAtEnd, InBehave, Raise, shell, Alive
  <2>2. sh # "exited"
    BY <1>0, <2>1 DEF BehaveWatched
  <2>3. QED
    BY <2>1, <2>2 DEF Struck
<1>5. CASE RunShell
  <2>1. SUFFICES ASSUME hit' PROVE Struck'
    BY DEF Struck
  <2>2. hit
    BY <1>5, <2>1 DEF RunShell, Configure, VersionControl, CallBehave, Waited, ReadSkipFile,
       RemoveSkipFile, Invert, SetResult, StillThere, KillBehave, Finished, ReportAndExit
  <2>3. sh \in {"trap", "report", "exited"}
    BY <2>2 DEF Struck
  <2>4. CASE StillThere \/ KillBehave \/ Finished
    <3>1. sh = "trap" /\ sh' \in {"trap", "report"} /\ result' = result
      BY <2>4 DEF StillThere, KillBehave, Finished
    <3>2. QED
      BY <2>2, <3>1 DEF Struck
  <2>5. ASSUME NEW before \in {0, 1}, ReportAndExit(before) PROVE Struck'
    <3>1. /\ sh = "report" /\ sh' = "exited"
          /\ result' = IF result = "" THEN "FAIL" ELSE result
      BY <2>5 DEF ReportAndExit
    <3>2. result = ""
      BY <2>2, <3>1 DEF Struck
    <3>3. QED
      BY <3>1, <3>2 DEF Struck
  <2>6. QED
    BY <1>5, <2>3, <2>4, <2>5 DEF RunShell, Configure, VersionControl, CallBehave, Waited,
       ReadSkipFile, RemoveSkipFile, Invert, SetResult
<1>6. QED
  BY <1>1, <1>2, <1>3, <1>4, <1>5 DEF Next, Step

-----------------------------------------------------------------------------
(* The inductive invariant of the theorems below: RESULT is wrong only if a *)
(* status before it was, and that only if behave or the file said so.      *)

Honest ==
  /\ IInv
  /\ WordsTyped
  /\ NumbersTyped
  /\ FlagsTyped /\ everHit \in BOOLEAN
  /\ Summed
  /\ Outcome
  /\ Struck

LEMMA InitHonest == InitAll => Honest
<1> SUFFICES ASSUME InitAll PROVE Honest
  OBVIOUS
<1>1. IInv
  BY InitInv
<1>2. WordsTyped
  BY DEF InitAll, Init, WordsTyped, Truth
<1>3. NumbersTyped
  <2>1. status = Unset /\ tries = 0
    BY DEF InitAll, Init
  <2>2. QED
    BY ONLY <2>1, Bounds DEF NumbersTyped
<1>4. FlagsTyped /\ everHit \in BOOLEAN
  BY ZenonT(60) DEF InitAll, Init, FlagsTyped
<1>5. Summed
  <2>1. tally \in Seq({"pass", "skip", "fail"}) /\ Len(tally) <= NTests
    <3>1. tally = <<>>
      BY DEF InitAll
    <3>2. QED
      BY ONLY <3>1, Bounds, EmptySeq
  <2>2. summary = [text |-> "", status |-> Unset]
    BY DEF InitAll
  <2>3. summary.status # 0
    BY <2>2, UnsetIsNoStatus
  <2>4. summary \in [text : {"", "PASS", "FAIL"}, status : {Unset, 0, 1}]
    BY <2>2
  <2>5. QED
    BY <2>1, <2>3, <2>4 DEF Summed, RunPasses
<1>6. Outcome
  BY DEF InitAll, Init, Outcome
<1>7. Struck
  BY DEF InitAll, Init, Struck
<1>8. QED
  BY <1>1, <1>2, <1>3, <1>4, <1>5, <1>6, <1>7 DEF Honest

LEMMA HonestKept == ASSUME Honest, [Next]_allVars PROVE Honest'
<1>1. /\ IInv /\ Types /\ WordsTyped /\ NumbersTyped /\ FlagsTyped
      /\ Summed /\ Outcome /\ Struck
  BY DEF Honest, IInv
<1>2. IInv'
  BY <1>1, NextInv
<1>3. WordsTyped' /\ NumbersTyped' /\ FlagsTyped'
  BY <1>1, WordsTypedKept, NumbersTypedKept, FlagsTypedKept
<1>4. Summed' /\ Outcome' /\ Struck'
  BY <1>1, SummedKept, OutcomeKept, StruckKept
<1>5. everHit' \in BOOLEAN
  <2>1. everHit \in BOOLEAN /\ hit \in BOOLEAN
    BY Zenon DEF Honest, FlagsTyped
  <2>2. CASE everHit' = everHit
    BY <2>1, <2>2
  <2>3. CASE NextTest
    BY <2>3, Zenon DEF NextTest
  <2>4. QED
    BY <2>2, <2>3 DEF Next, Step, Summarize, allVars
<1>6. QED
  BY <1>2, <1>3, <1>4, <1>5 DEF Honest

LEMMA HonestAlways == Spec => []Honest
<1>1. InitAll => Honest
  BY InitHonest
<1>2. Honest /\ [Next]_allVars => Honest'
  BY HonestKept
<1>3. QED
  BY <1>1, <1>2, PTL DEF Spec

(* A test is reported as what it was, for every kind of test, and one that *)
(* the watchdog struck, at whatever point, as that, as failed or not at    *)
(* all; a passing test behind one that left its file is the one exception. *)
(* And a run passes only if some test of it passed and none failed,        *)
(* however many there are.                                                 *)
THEOREM ReportsAreRight == Spec => []ReportsRight
<1>1. Honest => ReportsRight
  <2> SUFFICES ASSUME Honest PROVE ReportsRight
    OBVIOUS
  <2>1. /\ Types /\ WordsTyped /\ NumbersTyped /\ FlagsTyped
        /\ Summed /\ Outcome /\ Struck
    BY DEF Honest, IInv
  <2>2. everHit \in BOOLEAN
    BY Zenon DEF Honest
  <2>3. TypeOK
    BY <2>1, <2>2, Zenon DEF Types, WordsTyped, NumbersTyped, FlagsTyped, Summed, TypeOK
  <2>4. ReportHonest
    BY <2>1 DEF Outcome, Struck, Allowed, ReportHonest, Ended
  <2>5. RunPasses
    BY <2>1 DEF Summed
  <2>6. QED
    BY <2>3, <2>4, <2>5 DEF ReportsRight
<1>2. QED
  BY <1>1, HonestAlways, PTL

(* A test that leaves the host unrestored, whatever broke its cleanup and  *)
(* wherever it was cut, counts as failed, for every number of tests and of *)
(* turns the trap waits, unless it is tagged xfail or may_fail: neither    *)
(* the flag and the file of a skipped test nor the exit status of the      *)
(* shell covers it up.                                                     *)
THEOREM LeftoversAlwaysFail == Spec => LeftoversFail
<1>1. Honest /\ [Next]_allVars
        => [tally' # tally /\ dirty /\ kind = "plain" => tally'[Len(tally')] = "fail"]_allVars
  <2> SUFFICES ASSUME Honest, [Next]_allVars, tally' # tally, dirty, kind = "plain"
               PROVE  tally'[Len(tally')] = "fail"
    OBVIOUS
  <2>1. Count /\ sh = "exited"
    BY DEF Next, Step, NextTest, Summarize, allVars
  <2>2. TallyInv /\ ResultFromRc /\ Outcome
    BY DEF Honest, IInv, Summed, TallyInv
  <2>3. CASE hit
    BY <2>1, <2>2, <2>3, CountTyped
  <2>4. CASE ~ hit
    <3>1. truth = "failed" /\ result \in Allowed
      BY <2>1, <2>2, <2>4 DEF Outcome
    <3>2. result = "FAIL"
      BY <3>1 DEF Allowed, Expected
    <3>3. status \notin {0, 77}
      BY <2>1, <2>2, <2>4, <3>2 DEF ResultFromRc
    <3>4. QED
      BY <2>1, <2>2, <3>3, CountTyped
  <2>5. QED
    BY <2>3, <2>4
<1>2. QED
  BY <1>1, HonestAlways, PTL DEF Spec, LeftoversFail
=============================================================================
