------------------------------ MODULE Scenario ------------------------------
(***************************************************************************)
(* The life of the scenarios of one behave process: the hooks of           *)
(* src/features/environment.py, the skip flag of src/nmci/cext.py, the     *)
(* processes of src/nmci/pexpect.py, and the flags of src/nmci/embed.py    *)
(* that outlive a scenario.  The question is which verdict behave comes to *)
(* and whom it blames.                                                     *)
(*                                                                         *)
(* The cleanup registry is abstracted to the set of kinds of restorations  *)
(* it holds; module Cleanup has its details.                               *)
(***************************************************************************)
EXTENDS Integers, FiniteSets

CONSTANTS
  Kinds,          \* the restorations scenarios register, from AnyKind
  MaxScenarios,   \* bound: scenarios of the process
  MaxSteps        \* bound: steps of one scenario

(* "own": ends when its action returns; "sysctl": leaves a process behind  *)
(* that is still to be checked; "drain": the after hook of the tag         *)
(* @cleanup, which runs process_cleanup itself.                            *)
AnyKind == {"own", "sysctl", "drain"}

ASSUME ScenarioAssumption ==
  /\ Kinds \subseteq AnyKind
  /\ MaxScenarios \in Nat
  /\ MaxSteps \in Nat

VARIABLES
  n,          \* scenarios begun
  phase,      \* where behave is
  step,       \* steps begun in this scenario
  lst,        \* kinds of the restorations registered
  spawned,    \* results of the processes of pexpect_spawn not reaped yet
  skipped,    \* context.cext.scenario_skipped
  told,       \* scenario.skip() was called
  was,        \* the local `skipped` of _after_scenario
  count,      \* context.skip_check_count
  failed,     \* behave has a failed step or hook
  excepts,    \* the local `excepts` of the hook being run is not empty
  crashed,    \* context.crashed_step is set
  crashTag,   \* the scenario is tagged @crash
  dumpSeen,   \* nmci.embed.coredump_reported
  fafSeen,    \* nmci.embed._faf_embedded
  verdict,    \* status of the last scenario that ended
  wrong,      \* history: what went wrong in this scenario
  marked,     \* history: the last step was 'Skip if next step fails:'
  reset       \* history: scenarios in which after_crash_reset ran

now == <<step, count, marked>>
flags == <<dumpSeen, fafSeen>>
hist == <<verdict, reset>>
vars == <<n, phase, lst, spawned, skipped, told, was, failed, excepts, crashed,
          crashTag, wrong, now, flags, hist>>

Phase == {"between", "refused", "host", "tags", "idle", "step", "ended", "after",
          "checks", "conclude"}
Wrong == {"tag", "step", "process", "restore", "crash", "leftover", "host", "evidence",
          "dropped", "late", "inherited"}

Verdict(isFailed, isSkipped) ==
  IF isFailed THEN "failed" ELSE IF isSkipped THEN "skipped" ELSE "passed"

Init ==
  /\ n = 0
  /\ phase = "between"
  /\ lst = {} /\ spawned = {}
  /\ skipped = FALSE /\ told = FALSE /\ was = FALSE
  /\ step = 0 /\ count = 0 /\ marked = FALSE
  /\ failed = FALSE /\ excepts = FALSE
  /\ crashed = FALSE /\ crashTag = FALSE
  /\ dumpSeen = FALSE /\ fafSeen = FALSE
  /\ verdict = "none" /\ wrong = {} /\ reset = {}

-----------------------------------------------------------------------------
(* before_scenario *)

(* A restoration of the scenario before left a process that went wrong. *)
Inherited == IF "bad" \in spawned THEN {"inherited"} ELSE {}

Fresh(flag) ==
  /\ n < MaxScenarios
  /\ n' = n + 1
  /\ phase = "between"
  /\ skipped' = flag
  /\ told' = FALSE /\ was' = FALSE
  /\ step' = 0 /\ count' = 0 /\ marked' = FALSE
  /\ excepts' = FALSE /\ crashed' = FALSE
  /\ crashTag' \in BOOLEAN
  /\ UNCHANGED <<lst, spawned, flags, hist>>

(* Mistaken variant: the flag of the scenario before is kept. *)
BeginKeepsFlag ==
  /\ Fresh(skipped)
  /\ lst = {}
  /\ phase' = "host"
  /\ failed' = FALSE
  /\ wrong' = Inherited

Begin ==
  /\ Fresh(FALSE)
  /\ lst = {}
  /\ phase' = "host"
  /\ failed' = FALSE
  /\ wrong' = Inherited

(* The assertion that the registry is empty fails. *)
Refuse ==
  /\ Fresh(FALSE)
  /\ lst # {}
  /\ phase' = "refused"
  /\ failed' = TRUE
  /\ wrong' = Inherited \cup {"leftover"}

(* after_scenario of a refused scenario raises on the first attribute that *)
(* before_scenario would have set.                                         *)
AfterRefused ==
  /\ phase = "refused"
  /\ phase' = "between"
  /\ verdict' = Verdict(failed, told)
  /\ UNCHANGED <<n, lst, spawned, skipped, told, was, failed, excepts, crashed,
                 crashTag, wrong, now, flags, reset>>

(* The version is matched, the AVCs are collected, the host is prepared    *)
(* and the restarting tags are looked at.  The exceptions of the second    *)
(* and the last are kept, also where the first or the last skips.          *)
PrepareHost ==
  /\ phase = "host"
  /\ phase' = "tags"
  /\ \/ UNCHANGED <<skipped, told>>
     \/ skipped' = TRUE /\ told' = TRUE
  /\ \/ UNCHANGED <<excepts, wrong>>
     \/ excepts' = TRUE /\ wrong' = wrong \cup {"host"}
  /\ UNCHANGED <<n, lst, spawned, was, failed, crashed, crashTag, now, flags, hist>>

(* A command that prepares the host (testeth0) fails. *)
HostRaises ==
  /\ phase = "host"
  /\ phase' = "ended"
  /\ failed' = TRUE
  /\ told' \in BOOLEAN
  /\ wrong' = wrong \cup {"host"}
  /\ UNCHANGED <<n, lst, spawned, skipped, was, excepts, crashed, crashTag, now, flags, hist>>

(* A tag's before hook, or a step, registers a restoration. *)
Register(kind) ==
  /\ phase \in {"tags", "step"}
  /\ kind = "drain" => phase = "tags"
  /\ lst' = lst \cup {kind}
  /\ UNCHANGED <<n, phase, spawned, skipped, told, was, failed, excepts, crashed,
                 crashTag, wrong, now, flags, hist>>

(* pexpect_spawn; "bad" is a process whose status is checked and not 0. *)
Spawn(result) ==
  /\ phase \in {"tags", "step"}
  /\ spawned' = spawned \cup {result}
  /\ wrong' = IF result = "bad" THEN wrong \cup {"process"} ELSE wrong
  /\ UNCHANGED <<n, phase, lst, skipped, told, was, failed, excepts, crashed,
                 crashTag, now, flags, hist>>

(* A tag raises; no tag runs after one that skipped. *)
TagFails ==
  /\ phase = "tags"
  /\ ~ skipped
  /\ excepts' = TRUE
  /\ wrong' = wrong \cup {"tag"}
  /\ UNCHANGED <<n, phase, lst, spawned, skipped, told, was, failed, crashed,
                 crashTag, now, flags, hist>>

(* cext.skip() in a tag. *)
TagSkips ==
  /\ phase = "tags"
  /\ ~ skipped
  /\ skipped' = TRUE
  /\ told' = TRUE
  /\ UNCHANGED <<n, phase, lst, spawned, was, failed, excepts, crashed, crashTag,
                 wrong, now, flags, hist>>

(* check_crash may find that NetworkManager went down. *)
CheckCrash ==
  \/ UNCHANGED <<crashed, wrong>>
  \/ crashed' = TRUE /\ wrong' = wrong \cup {"crash"}

(* The end of before_scenario: processes are reaped, which may raise; the  *)
(* process id is compared; the exceptions of the tags are raised.          *)
TagsDone ==
  /\ phase = "tags"
  /\ spawned' = {}
  /\ IF "bad" \in spawned THEN UNCHANGED <<crashed, wrong>> ELSE CheckCrash
  /\ IF excepts \/ "bad" \in spawned
     THEN failed' = TRUE /\ skipped' = FALSE /\ phase' = "ended"
     ELSE /\ UNCHANGED <<failed, skipped>>
          /\ phase' = IF skipped THEN "ended" ELSE "idle"
  /\ excepts' = FALSE
  /\ UNCHANGED <<n, lst, told, was, crashTag, now, flags, hist>>

-----------------------------------------------------------------------------
(* The steps. *)

BeforeStep ==
  /\ phase = "idle"
  /\ step < MaxSteps
  /\ phase' = "step"
  /\ step' = step + 1
  /\ UNCHANGED <<n, lst, spawned, skipped, told, was, failed, excepts, crashed,
                 crashTag, wrong, count, marked, flags, hist>>

(* What after_step does first: reap what the step spawned. *)
Reaped ==
  /\ phase = "step"
  /\ "bad" \notin spawned
  /\ spawned' = {}
  /\ UNCHANGED <<n, step, lst, was, excepts, crashTag, flags, hist>>

(* 'Skip if next step fails:' sets the count to 2; its own after_step      *)
(* takes the first one.                                                    *)
MarkerStep ==
  /\ Reaped /\ CheckCrash
  /\ phase' = "idle"
  /\ count' = 2 - 1
  /\ marked' = TRUE
  /\ UNCHANGED <<skipped, told, failed>>

StepPasses ==
  /\ Reaped /\ CheckCrash
  /\ phase' = "idle"
  /\ count' = count - 1
  /\ marked' = FALSE
  /\ UNCHANGED <<skipped, told, failed>>

(* A failing step, excused when the marker was the step before it. *)
StepFails ==
  /\ Reaped
  /\ phase' = "ended"
  /\ IF count = 1
     THEN skipped' = TRUE /\ told' = TRUE /\ UNCHANGED failed
     ELSE failed' = TRUE /\ UNCHANGED <<skipped, told>>
  /\ \E crash \in BOOLEAN :
       /\ crashed' = (crashed \/ crash)
       /\ wrong' = wrong \cup (IF marked THEN {} ELSE {"step"})
                         \cup (IF crash THEN {"crash"} ELSE {})
  /\ count' = count - 1
  /\ marked' = FALSE

(* cext.skip() in a step. *)
StepSkips ==
  /\ Reaped /\ CheckCrash
  /\ phase' = "ended"
  /\ skipped' = TRUE
  /\ told' = TRUE
  /\ count' = count - 1
  /\ marked' = FALSE
  /\ UNCHANGED failed

(* A checked process went wrong: after_step raises, and neither the crash  *)
(* check nor the count is reached.                                         *)
StepRaises ==
  /\ phase = "step"
  /\ "bad" \in spawned
  /\ spawned' = {}
  /\ phase' = "ended"
  /\ failed' = TRUE
  /\ UNCHANGED <<n, lst, skipped, told, was, excepts, crashed, crashTag, wrong, now, flags, hist>>

StepsEnd ==
  /\ phase = "idle"
  /\ phase' = "ended"
  /\ UNCHANGED <<n, lst, spawned, skipped, told, was, failed, excepts, crashed,
                 crashTag, wrong, now, flags, hist>>

-----------------------------------------------------------------------------
(* after_scenario *)

(* A NetworkManager that is gone is noticed, and the spawned processes are *)
(* reaped, before the cleanup starts.                                      *)
AfterScenario ==
  /\ phase = "ended"
  /\ CheckCrash
  /\ "bad" \notin spawned
  /\ spawned' = {}
  /\ phase' = "after"
  /\ was' = skipped
  /\ UNCHANGED <<n, lst, skipped, told, failed, excepts, crashTag, now, flags, hist>>

(* A bad one raises, and process_cleanup is not reached. *)
AfterScenarioRaises ==
  /\ phase = "ended"
  /\ "bad" \in spawned
  /\ spawned' = {}
  /\ phase' = "between"
  /\ failed' = TRUE
  /\ verdict' = Verdict(TRUE, told)
  /\ UNCHANGED <<n, lst, skipped, told, was, excepts, crashed, crashTag, wrong,
                 now, flags, reset>>

(* A turn of process_cleanup.  The tag's hook comes before the sysctls. *)
Turn(kind) ==
  /\ phase = "after"
  /\ kind \in lst
  /\ kind = "sysctl" => "drain" \notin lst
  /\ UNCHANGED <<n, phase, was, failed, crashed, crashTag, now, flags, hist>>

RestoreOwn ==
  /\ Turn("own")
  /\ lst' = lst \ {"own"}
  /\ UNCHANGED <<spawned, skipped, told, excepts, wrong>>

(* Mistaken variant: the exceptions of process_cleanup are not collected. *)
RestoreOwnFailsQuietly ==
  /\ Turn("own")
  /\ lst' = lst \ {"own"}
  /\ wrong' = wrong \cup {"restore"}
  /\ UNCHANGED <<spawned, skipped, told, excepts>>

RestoreOwnFails ==
  /\ Turn("own")
  /\ lst' = lst \ {"own"}
  /\ excepts' = TRUE
  /\ wrong' = wrong \cup {"restore"}
  /\ UNCHANGED <<spawned, skipped, told>>

(* cext.skip() in the after hook of a tag; see Conclude. *)
RestoreOwnSkips ==
  /\ Turn("own")
  /\ lst' = lst \ {"own"}
  /\ skipped' = TRUE
  /\ told' = TRUE
  /\ wrong' = IF was THEN wrong ELSE wrong \cup {"tag"}
  /\ UNCHANGED <<spawned, excepts>>

(* CleanupSysctls only starts the process that writes the values. *)
RestoreSysctl(result) ==
  /\ Turn("sysctl")
  /\ lst' = lst \ {"sysctl"}
  /\ spawned' = spawned \cup {result}
  /\ wrong' = IF result = "bad" THEN wrong \cup {"late"} ELSE wrong
  /\ UNCHANGED <<skipped, told, excepts>>

(* cleanup_as consumes the rest of the list in a process_cleanup of its    *)
(* own, whose exceptions it drops.                                         *)
Drain ==
  /\ Turn("drain")
  /\ lst' = {}
  /\ \/ "own" \in lst /\ wrong' = wrong \cup {"dropped"} /\ UNCHANGED spawned
     \/ "sysctl" \in lst /\ spawned' = spawned \cup {"good"} /\ UNCHANGED wrong
     \/ "sysctl" \in lst /\ spawned' = spawned \cup {"bad"} /\ wrong' = wrong \cup {"late"}
     \/ UNCHANGED <<spawned, wrong>>
  /\ UNCHANGED <<skipped, told, excepts>>

(* Mistaken variant: the first failing restoration ends the processing. *)
CleanupDoneAtFirst ==
  /\ phase = "after"
  /\ excepts \/ lst = {}
  /\ phase' = "checks"
  /\ UNCHANGED <<n, lst, spawned, skipped, told, was, failed, excepts, crashed,
                 crashTag, wrong, now, flags, hist>>

CleanupDone ==
  /\ phase = "after"
  /\ lst = {}
  /\ phase' = "checks"
  /\ UNCHANGED <<n, lst, spawned, skipped, told, was, failed, excepts, crashed,
                 crashTag, wrong, now, flags, hist>>

(* check_coredump, check_faf, check_crash and after_crash_reset: `dump` is *)
(* embedded, as a report of FAF or not; the process id may have changed.   *)
(* The reset, run where no report of FAF has been embedded so far and by   *)
(* FAF itself when its upload was paused, stops NetworkManager, which      *)
(* registers a start.                                                      *)
Examine(dump, faf, pidChanged, fafReset) ==
  /\ phase = "checks"
  /\ faf => dump
  /\ phase' = "conclude"
  /\ crashed' = (crashed \/ dump \/ pidChanged)
  /\ wrong' = IF crashed' THEN wrong \cup {"crash"} ELSE wrong
  /\ dumpSeen' = (dumpSeen \/ dump)
  /\ fafSeen' = (fafSeen \/ faf)
  /\ LET resets == fafReset \/ (crashed' /\ ~ fafSeen')
     IN  /\ lst' = IF resets THEN {"own"} ELSE lst
         /\ reset' = IF resets THEN reset \cup {n} ELSE reset
  /\ UNCHANGED <<n, spawned, skipped, told, was, failed, excepts, crashTag, now, verdict>>

(* coredumpctl fails for a minute: check_coredump raises. *)
ExamineRaises ==
  /\ phase = "checks"
  /\ phase' = "between"
  /\ failed' = TRUE
  /\ wrong' = wrong \cup {"crash"}
  /\ verdict' = Verdict(TRUE, told)
  /\ UNCHANGED <<n, lst, spawned, skipped, told, was, excepts, crashed, crashTag,
                 now, flags, reset>>

(* A backoff message in the journal, a failing after_crash_reset, or AVCs  *)
(* or embeds that cannot be collected.                                     *)
EvidenceFails ==
  /\ phase = "conclude"
  /\ excepts' = TRUE
  /\ wrong' = wrong \cup {"evidence"}
  /\ UNCHANGED <<n, phase, lst, spawned, skipped, told, was, failed, crashed,
                 crashTag, now, flags, hist>>

(* The end: a skip in the cleanup counts as an exception, the skip flag is *)
(* reset where the scenario fails, and the assertions are made, unless a   *)
(* scenario tagged @crash has no dump.                                     *)
Conclude ==
  /\ phase = "conclude"
  /\ phase' = "between"
  /\ excepts' = (excepts \/ (skipped /\ ~ was))
  /\ skipped' = (skipped /\ ~ excepts' /\ ~ crashed)
  /\ failed' = (failed \/ ((~ crashTag \/ dumpSeen) /\ (crashed \/ excepts')))
  /\ verdict' = Verdict(failed', told)
  /\ UNCHANGED <<n, lst, spawned, told, was, crashed, crashTag, wrong, now, flags, reset>>

Next ==
  \/ Begin
  \/ Refuse
  \/ AfterRefused
  \/ PrepareHost
  \/ HostRaises
  \/ \E kind \in Kinds : Register(kind)
  \/ \E result \in {"good", "bad"} : Spawn(result)
  \/ TagFails
  \/ TagSkips
  \/ TagsDone
  \/ BeforeStep
  \/ MarkerStep
  \/ StepPasses
  \/ StepFails
  \/ StepSkips
  \/ StepRaises
  \/ StepsEnd
  \/ AfterScenario
  \/ AfterScenarioRaises
  \/ RestoreOwn
  \/ RestoreOwnFails
  \/ RestoreOwnSkips
  \/ \E result \in {"good", "bad"} : RestoreSysctl(result)
  \/ Drain
  \/ CleanupDone
  \/ \E dump, faf, pidChanged, fafReset \in BOOLEAN :
       Examine(dump, faf, pidChanged, fafReset)
  \/ ExamineRaises
  \/ EvidenceFails
  \/ Conclude

Spec == Init /\ [][Next]_vars

-----------------------------------------------------------------------------

TypeOK ==
  /\ n \in 0 .. MaxScenarios
  /\ phase \in Phase
  /\ lst \subseteq AnyKind
  /\ spawned \subseteq {"good", "bad"}
  /\ skipped \in BOOLEAN /\ told \in BOOLEAN /\ was \in BOOLEAN
  /\ step \in 0 .. MaxSteps /\ marked \in BOOLEAN
  /\ count \in - MaxSteps .. 1
  /\ failed \in BOOLEAN /\ excepts \in BOOLEAN
  /\ crashed \in BOOLEAN /\ crashTag \in BOOLEAN
  /\ dumpSeen \in BOOLEAN /\ fafSeen \in BOOLEAN
  /\ verdict \in {"none", "passed", "failed", "skipped"}
  /\ wrong \subseteq Wrong
  /\ reset \subseteq 1 .. MaxScenarios

Over == phase = "between" /\ n > 0

(* Whatever goes wrong in a scenario, in a tag, a step, a process, a       *)
(* restoration or NetworkManager, it fails, also when something skips it   *)
(* before or after, except for what the tag @cleanup drops and what a      *)
(* restoration leaves to be found later.  Scenarios tagged @crash are      *)
(* judged the other way round.                                             *)
FailureCounts ==
  Over /\ wrong \ {"dropped", "late"} # {} /\ ~ crashTag => verdict = "failed"

(* A scenario that failed has something of its own that went wrong, was    *)
(* refused, or reaped the process of a restoration of the scenario before: *)
(* a step that was excused is not held against it.                         *)
BlamesOwn == Over /\ verdict = "failed" => wrong \ {"dropped", "late"} # {}

(* A scenario fails exactly for what went wrong in it, whatever else       *)
(* happened to it and to the scenarios before.                             *)
VerdictRight == TypeOK /\ FailureCounts /\ BlamesOwn

(* The flag that makes runtest.sh report SKIP says what behave says.       *)
FlagTellsSkip ==
  Over /\ verdict # "failed" /\ ~ crashTag => (skipped <=> verdict = "skipped")

(* A scenario leaves something in the registry only by after_crash_reset:  *)
(* failing steps, tags and restorations do not keep it from being emptied. *)
LeftoverOnlyFromReset == Over /\ lst # {} => reset # {}

(* When there is something to clean up, no bad process is left for         *)
(* after_scenario to reap: it cannot raise before the cleanup.             *)
ReapedBeforeCleanup == phase = "ended" /\ lst # {} => "bad" \notin spawned

(* The cleanup is always reached, and empties the registry.                *)
Emptied == LeftoverOnlyFromReset /\ ReapedBeforeCleanup
=============================================================================
