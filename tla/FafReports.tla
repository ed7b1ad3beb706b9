----------------------------- MODULE FafReports -----------------------------
(***************************************************************************)
(* check_faf and wait_faf_complete of src/nmci/crash.py, which the hook    *)
(* after_scenario runs between the examination of the core dumps and the   *)
(* last comparison of process ids.                                         *)
(*                                                                         *)
(* abrt makes a directory of each crash, writes files into it one after    *)
(* the other, and deletes it again when it finds the crash to be another   *)
(* occurrence of an older one, all beside the harness, which lists the     *)
(* directories, waits for each to be complete, and starts anew when the    *)
(* one it waits for goes away.  Reports carry the directory and the        *)
(* occurrence, and are remembered so that none is embedded twice.          *)
(***************************************************************************)
EXTENDS CrashDetect

CONSTANTS
  Foreign,  \* directories of crashes of other programs
  MaxFaf    \* bound: steps of a scenario whose crashes abrt notices

Own == 1 .. MaxCrashes   \* a directory is named after the crash it was made for
Dir == Own \cup Foreign
None == 0

ASSUME FafAssumption == Foreign \subseteq Nat \ (0 .. MaxCrashes) /\ MaxFaf \in Nat

VARIABLES
  spool,     \* the state of each directory of /var/spool/abrt
  last,      \* the crash its file last_occurrence tells of, 0 without the file
  reported,  \* the lines FAF added to the file reported_crashes
  at,        \* where check_faf is
  todo,      \* directories of the listing not entered yet
  dir        \* dump_dir

abrt == <<spool, last>>
loop == <<at, todo, dir>>
fafVars == <<abrt, reported, loop>>
allVars == <<vars, fafVars>>

(* "wait" is the loop of wait_faf_complete before, and "ours" after the    *)
(* directory turned out to be about one of the packages of interest.       *)
At == {"list", "next", "wait", "ours", "embed", "done"}

FafInit ==
  /\ Init
  /\ spool = [d \in Dir |-> "none"]
  /\ last = [d \in Dir |-> 0]
  /\ reported = <<>>
  /\ at = "list" /\ todo = {} /\ dir = None

(* The line reported_crashes gets for a directory. *)
Occurrence(d) == <<d, last[d]>>

(* Mistaken variant: a line is read with its newline, and matches nothing. *)
IsReportedNever(id) == FALSE

IsReported(id) == \E k \in DOMAIN reported : reported[k] = id

-----------------------------------------------------------------------------
(* abrt.  What it does before check_faf begins, the listing cannot tell    *)
(* from what it does right then.                                           *)

Abrt ==
  /\ phase = "last"
  /\ at # "done"
  /\ UNCHANGED <<vars, reported, loop>>

AbrtOpens(d) ==
  /\ Abrt
  /\ step <= MaxFaf
  /\ d \in Own => d \in DOMAIN crashes /\ crashes[d].dump # "none"
  /\ spool[d] = "none"
  /\ spool' = [spool EXCEPT ![d] = "open"]
  /\ UNCHANGED last

AbrtStamps(i) ==
  /\ Abrt
  /\ spool[i] = "open"
  /\ last[i] = 0
  /\ last' = [last EXCEPT ![i] = i]
  /\ UNCHANGED spool

(* Crash i is a further occurrence of crash j. *)
AbrtMerges(i, j) ==
  /\ Abrt
  /\ spool[i] = "open" /\ spool[j] = "open"
  /\ last[j] \in 1 .. i - 1
  /\ spool' = [spool EXCEPT ![i] = "gone"]
  /\ last' = [last EXCEPT ![j] = i]

-----------------------------------------------------------------------------
(* check_faf *)

Faf ==
  /\ phase = "last"
  /\ UNCHANGED abrt

Silently == Faf /\ UNCHANGED <<vars, reported>>

(* The head of the outer loop. *)
ListDirs ==
  /\ Silently
  /\ at = "list"
  /\ at' = "next"
  /\ todo' = {d \in Dir : spool[d] = "open"}
  /\ dir' = None

EnterDir(d) ==
  /\ Silently
  /\ at = "next"
  /\ at' = "wait"
  /\ todo' = todo \ {d}
  /\ dir' = d

(* The listing is exhausted: reporting is paused again. *)
FafDone ==
  /\ Silently
  /\ at = "next"
  /\ todo = {}
  /\ at' = "done"
  /\ UNCHANGED <<todo, dir>>

-----------------------------------------------------------------------------
(* wait_faf_complete.  Its loop looks at the directory once a second; an   *)
(* iteration that comes to no conclusion is a stuttering step.             *)

Waits == at \in {"wait", "ours"} /\ UNCHANGED <<reported, todo, dir>>
StillThere == spool[dir] = "open"

WentAway ==
  /\ Faf /\ Waits
  /\ ~ StillThere
  /\ at' = "list"
  /\ UNCHANGED vars

(* It goes away inside an iteration, between a look and a read.            *)
FileVanishes ==
  /\ Faf /\ Waits
  /\ ~ StillThere
  /\ CheckFafRaises
  /\ at' = "done"

(* The file last_occurrence is there, and tells nothing new. *)
AlreadyTold == last[dir] # 0 /\ IsReported(Occurrence(dir))

AlreadyReported ==
  /\ Faf /\ Waits
  /\ StillThere
  /\ AlreadyTold
  /\ at' = "next"
  /\ UNCHANGED vars

(* The package is read, or guessed from the dumps check_coredump listed. *)
KnowsPackage ==
  /\ Faf /\ Waits
  /\ at = "wait"
  /\ StillThere
  /\ ~ AlreadyTold

OtherPackage ==
  /\ KnowsPackage
  /\ dir \in Foreign
  /\ at' = "next"
  /\ UNCHANGED vars

(* What the journal says within a minute: reporting is paused, has begun   *)
(* or is switched off, or nothing.  The first leads to the reset, for      *)
(* NetworkManager; the last ends the wait.                                 *)
JournalPaused ==
  /\ KnowsPackage
  /\ dir \in Own
  /\ at' = "ours"
  /\ AfterCrashReset

JournalBegun ==
  /\ KnowsPackage
  /\ dir \in Own
  /\ at' = "ours"
  /\ UNCHANGED vars

JournalSilent ==
  /\ KnowsPackage
  /\ dir \in Own
  /\ at' = "embed"
  /\ UNCHANGED vars

(* All files are there; without an upload, fewer are needed. *)
Complete ==
  /\ Faf /\ Waits
  /\ at = "ours"
  /\ StillThere
  /\ last[dir] # 0
  /\ ~ AlreadyTold
  /\ at' = "embed"
  /\ UNCHANGED vars

(* The countdown, which all directories share, is over: the report is made *)
(* all the same where there is a backtrace.                                *)
TimedOut ==
  /\ Faf /\ Waits
  /\ ~ AlreadyTold
  /\ at' \in {"embed", "next"}
  /\ at' = "embed" => dir \in Own
  /\ UNCHANGED vars

-----------------------------------------------------------------------------
(* The report is made of what is in the directory by then. *)

Embeds ==
  /\ Faf
  /\ at = "embed"
  /\ StillThere /\ last[dir] # 0
  /\ reported' = Append(reported, Occurrence(dir))
  /\ EmbedFaf
  /\ at' = "next"
  /\ UNCHANGED <<todo, dir>>

(* last_occurrence cannot be read: nothing catches that. *)
EmbedRaises ==
  /\ Faf
  /\ at = "embed"
  /\ ~ StillThere \/ last[dir] = 0
  /\ CheckFafRaises
  /\ at' = "done"
  /\ UNCHANGED <<reported, todo, dir>>

-----------------------------------------------------------------------------
(* Everything else, as in CrashDetect. *)

Around ==
  \/ \E dump \in {"none", "coming"} : Crash(dump)
  \/ Revive
  \/ \E i \in DOMAIN crashes : WriteDump(i)
  \/ ReadPid
  \/ CheckBeforeScenario
  \/ BeforeStep
  \/ PlainStep
  \/ \E forCleanup \in BOOLEAN : RestartNM(forCleanup)
  \/ StartNM
  \/ StartNoWait
  \/ StopNM
  \/ KillNM
  \/ RestartInBackground
  \/ \E n \in Announced : AnnounceRestart(n)
  \/ AfterStep
  \/ AfterStepRaises
  \/ AfterScenario
  \/ RestoreStart
  \/ RestoreRestart
  \/ CleanedUp
  \/ CheckCoredump
  \/ CheckCoredumpRaises
  \/ at = "done" /\ CheckAfterScenario

FafNext ==
  \/ Around /\ UNCHANGED fafVars
  \/ \E d \in Dir : AbrtOpens(d)
  \/ \E i \in Own : AbrtStamps(i)
  \/ \E i, j \in Own : AbrtMerges(i, j)
  \/ ListDirs
  \/ \E d \in todo : EnterDir(d)
  \/ FafDone
  \/ WentAway
  \/ FileVanishes
  \/ AlreadyReported
  \/ OtherPackage
  \/ JournalPaused
  \/ JournalBegun
  \/ JournalSilent
  \/ Complete
  \/ TimedOut
  \/ Embeds
  \/ EmbedRaises

FafSpec == FafInit /\ [][FafNext]_allVars

-----------------------------------------------------------------------------

FafTypeOK ==
  /\ spool \in [Dir -> {"none", "open", "gone"}]
  /\ last \in [Dir -> 0 .. MaxCrashes]
  /\ reported \in Seq(Own \X Own)
  /\ at \in At
  /\ todo \subseteq Dir
  /\ dir \in Dir \cup {None}

(* However often check_faf starts anew, and whatever abrt writes, merges   *)
(* and deletes meanwhile, no occurrence is embedded twice.                 *)
EmbeddedOnce ==
  \A k, l \in DOMAIN reported : reported[k] = reported[l] => k = l

(* Every embedded report has failed the scenario that came to its end.     *)
ReportFails == reported # <<>> => crashed # Nowhere

(* Dumps and reports of FAF are told, by the verdict, and once.            *)
DumpsToldOnce == FafTypeOK /\ DumpNeverSilent /\ EmbeddedOnce /\ ReportFails
=============================================================================
