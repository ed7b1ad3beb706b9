---------------------------- MODULE CrashProofs ----------------------------
(***************************************************************************)
(* Proofs about CrashDetect and FafReports, for every number of steps,     *)
(* process ids and crashes, whatever restarts are announced.               *)
(***************************************************************************)
EXTENDS FafReports, SequenceTheorems, TLAPS

-----------------------------------------------------------------------------
(* Operators on the history of crashes. *)

(* A sequence whose elements are changed in place stays one. *)
LEMMA InPlace ==
  ASSUME NEW S, NEW s \in Seq(S), NEW t,
         t = [i \in DOMAIN s |-> t[i]], \A i \in DOMAIN s : t[i] \in S
  PROVE  t \in Seq(S) /\ Len(t) = Len(s) /\ DOMAIN t = DOMAIN s
<1>1. Len(s) \in Nat /\ DOMAIN s = 1 .. Len(s)
  BY LenProperties
<1>2. t \in [1 .. Len(s) -> S]
  BY <1>1
<1>3. t \in Seq(S)
  BY <1>1, <1>2, SeqDef
<1>4. QED
  BY <1>1, <1>2, <1>3, LenProperties

LEMMA Grown ==
  ASSUME NEW S, NEW s \in Seq(S), NEW e \in S
  PROVE  /\ Append(s, e) \in Seq(S)
         /\ Len(Append(s, e)) = Len(s) + 1
         /\ DOMAIN Append(s, e) = DOMAIN s \cup {Len(s) + 1}
         /\ Len(s) + 1 \notin DOMAIN s
         /\ Append(s, e)[Len(s) + 1] = e
         /\ \A i \in DOMAIN s : Append(s, e)[i] = s[i]
<1>1. Len(s) \in Nat /\ DOMAIN s = 1 .. Len(s)
  BY LenProperties
<1>2. /\ Append(s, e) \in Seq(S)
      /\ Len(Append(s, e)) = Len(s) + 1
      /\ \A i \in 1 .. Len(s) : Append(s, e)[i] = s[i]
      /\ Append(s, e)[Len(s) + 1] = e
  BY AppendProperties
<1>3. DOMAIN Append(s, e) = 1 .. Len(s) + 1
  BY <1>2, LenProperties
<1>4. QED
  BY <1>1, <1>2, <1>3

(* What a step does to the crashes: the places where they happened stay. *)
Same(t) ==
  /\ t \in Seq(CrashType) /\ Len(t) = Len(crashes) /\ DOMAIN t = DOMAIN crashes
  /\ \A i \in DOMAIN crashes :
       t[i].step = crashes[i].step /\ t[i].during = crashes[i].during

LEMMA MarkSeenSame ==
  ASSUME TypeOK
  PROVE  /\ Same(MarkSeen)
         /\ \A i \in DOMAIN crashes : MarkSeen[i].seen /\ MarkSeen[i].dump = crashes[i].dump
<1> DEFINE t == MarkSeen
<1>1. \A i \in DOMAIN crashes : crashes[i] \in CrashType
  <2>1. crashes \in Seq(CrashType)
    BY DEF TypeOK
  <2>2. DOMAIN crashes = 1 .. Len(crashes)
    BY <2>1, LenProperties
  <2>3. QED
    BY <2>1, <2>2, ElementOfSeq
<1>2. \A i \in DOMAIN crashes : t[i] = [crashes[i] EXCEPT !.seen = TRUE]
  BY DEF MarkSeen
<1>3. \A i \in DOMAIN crashes :
        /\ t[i] \in CrashType
        /\ t[i].seen
        /\ t[i].step = crashes[i].step /\ t[i].during = crashes[i].during
        /\ t[i].dump = crashes[i].dump
  BY <1>1, <1>2 DEF CrashType
<1>4. t = [i \in DOMAIN crashes |-> t[i]]
  BY DEF MarkSeen
<1> HIDE DEF t
<1>5. t \in Seq(CrashType) /\ Len(t) = Len(crashes) /\ DOMAIN t = DOMAIN crashes
  BY <1>3, <1>4, InPlace DEF TypeOK
<1>6. QED
  BY <1>3, <1>5 DEF t, Same

LEMMA WriteDumpSame ==
  ASSUME TypeOK, NEW i \in DOMAIN crashes, WriteDump(i)
  PROVE  /\ Same(crashes')
         /\ \A k \in DOMAIN crashes : crashes'[k].seen = crashes[k].seen
         /\ \A k \in DOMAIN crashes :
              \/ crashes'[k].dump = crashes[k].dump
              \/ crashes'[k].dump = IF phase = "last" THEN "late" ELSE "disk"
<1> DEFINE new == IF phase = "last" THEN "late" ELSE "disk"
           t == [crashes EXCEPT ![i].dump = new]
<1>1. \A k \in DOMAIN crashes : crashes[k] \in CrashType
  <2>1. crashes \in Seq(CrashType)
    BY DEF TypeOK
  <2>2. DOMAIN crashes = 1 .. Len(crashes)
    BY <2>1, LenProperties
  <2>3. QED
    BY <2>1, <2>2, ElementOfSeq
<1>2. t = [k \in DOMAIN crashes |->
             IF k = i THEN [crashes[k] EXCEPT !.dump = new] ELSE crashes[k]]
  BY IsASeq, LenProperties DEF TypeOK
<1>3. \A k \in DOMAIN crashes :
        /\ t[k] \in CrashType
        /\ t[k].seen = crashes[k].seen
        /\ t[k].step = crashes[k].step /\ t[k].during = crashes[k].during
        /\ t[k].dump = crashes[k].dump \/ t[k].dump = new
  BY <1>1, <1>2 DEF CrashType, Dump
<1>4. t = [k \in DOMAIN crashes |-> t[k]]
  BY <1>2
<1>5. crashes' = t
  BY DEF WriteDump
<1> HIDE DEF t
<1>6. t \in Seq(CrashType) /\ Len(t) = Len(crashes) /\ DOMAIN t = DOMAIN crashes
  BY <1>3, <1>4, InPlace DEF TypeOK
<1>7. QED
  BY <1>3, <1>5, <1>6 DEF Same

LEMMA EmbedDumpsSame ==
  ASSUME TypeOK, NEW found, EmbedDumps(found)
  PROVE  /\ Same(crashes')
         /\ \A i \in DOMAIN crashes : crashes'[i].seen = crashes[i].seen
         /\ \A i \in DOMAIN crashes :
              crashes'[i].dump = IF i \in found THEN "reported" ELSE crashes[i].dump
<1>1. \A i \in DOMAIN crashes : crashes[i] \in CrashType
  <2>1. crashes \in Seq(CrashType)
    BY DEF TypeOK
  <2>2. DOMAIN crashes = 1 .. Len(crashes)
    BY <2>1, LenProperties
  <2>3. QED
    BY <2>1, <2>2, ElementOfSeq
<1>2. crashes' = [i \in DOMAIN crashes |->
        IF i \in found THEN [crashes[i] EXCEPT !.dump = "reported"] ELSE crashes[i]]
  BY DEF EmbedDumps
<1>3. \A i \in DOMAIN crashes :
        /\ crashes'[i] \in CrashType
        /\ crashes'[i].seen = crashes[i].seen
        /\ crashes'[i].step = crashes[i].step /\ crashes'[i].during = crashes[i].during
        /\ crashes'[i].dump = IF i \in found THEN "reported" ELSE crashes[i].dump
  BY <1>1, <1>2 DEF CrashType, Dump
<1>4. crashes' = [i \in DOMAIN crashes |-> crashes'[i]]
  BY <1>2
<1>5. crashes' \in Seq(CrashType) /\ Len(crashes') = Len(crashes) /\ DOMAIN crashes' = DOMAIN crashes
  BY <1>3, <1>4, InPlace DEF TypeOK
<1>6. QED
  BY <1>3, <1>5 DEF Same

LEMMA CrashAppends ==
  ASSUME TypeOK, NEW dump \in Dump, Crash(dump)
  PROVE  LET new == Len(crashes) + 1
         IN  /\ crashes' \in Seq(CrashType)
             /\ Len(crashes') = new
             /\ DOMAIN crashes' = DOMAIN crashes \cup {new}
             /\ new \notin DOMAIN crashes
             /\ crashes'[new] = [step |-> step, during |-> phase, seen |-> FALSE, dump |-> dump]
             /\ \A i \in DOMAIN crashes : crashes'[i] = crashes[i]
<1> DEFINE e == [step |-> step, during |-> phase, seen |-> FALSE, dump |-> dump]
<1>1. e \in CrashType
  BY DEF TypeOK, CrashType
<1>2. crashes' = Append(crashes, e)
  BY DEF Crash
<1>3. crashes \in Seq(CrashType)
  BY DEF TypeOK
<1> HIDE DEF e
<1>4. /\ crashes' \in Seq(CrashType)
      /\ Len(crashes') = Len(crashes) + 1
      /\ DOMAIN crashes' = DOMAIN crashes \cup {Len(crashes) + 1}
      /\ Len(crashes) + 1 \notin DOMAIN crashes
      /\ crashes'[Len(crashes) + 1] = e
      /\ \A i \in DOMAIN crashes : crashes'[i] = crashes[i]
  BY <1>1, <1>2, <1>3, Grown
<1>5. QED
  BY <1>4 DEF e

-----------------------------------------------------------------------------
(* Type correctness of CrashDetect. *)

LEMMA Bounds ==
  /\ MaxSteps \in Nat /\ MaxPid \in Nat /\ 1 <= MaxPid /\ MaxCrashes \in Nat
  /\ \A n \in Announced : n \in Nat
BY CrashDetectAssumption DEF CrashDetectAssumption

(* The history of crashes stays well formed. *)
LEMMA CrashesTyped ==
  ASSUME TypeOK, [Next]_vars
  PROVE  crashes' \in Seq(CrashType) /\ Len(crashes') <= MaxCrashes
<1>1. CASE \E dump \in {"none", "coming"} : Crash(dump)
  <2>1. PICK dump \in {"none", "coming"} : Crash(dump)
    BY <1>1
  <2>2. Len(crashes) < MaxCrashes /\ dump \in Dump /\ Len(crashes) \in Nat
    BY <2>1, LenProperties DEF Crash, Dump, TypeOK
  <2>3. crashes' \in Seq(CrashType) /\ Len(crashes') = Len(crashes) + 1
    BY <2>1, <2>2, CrashAppends
  <2>4. Len(crashes') <= MaxCrashes
    BY <2>2, <2>3, Bounds
  <2>5. QED
    BY <2>3, <2>4
<1>2. CASE \E i \in DOMAIN crashes : WriteDump(i)
  BY <1>2, WriteDumpSame DEF Same, TypeOK
<1>3. CASE CheckBeforeScenario \/ AfterStep
  BY <1>3, MarkSeenSame DEF CheckBeforeScenario, AfterStep, Same, TypeOK
<1>4. CASE AfterScenario
  BY <1>4, MarkSeenSame DEF AfterScenario, Same, TypeOK
<1>5. CASE CheckCoredump \/ CheckCoredumpRaises
  BY <1>5, EmbedDumpsSame DEF CheckCoredump, CheckCoredumpRaises, Same, TypeOK
<1>6. CASE crashes' = crashes
  BY <1>6 DEF TypeOK
<1>7. QED
  BY <1>1, <1>2, <1>3, <1>4, <1>5, <1>6
     DEF Next, vars, Revive, ReadPid, BeforeStep, Ran, PlainStep, RestartNM, StartNM, StartNoWait,
         StopNM, KillNM, RestartInBackground, AnnounceRestart, AfterStepRaises, RestoreStart,
         RestoreRestart, CleanedUp, AfterCrashReset, EmbedFaf, CheckFafRaises, CheckAfterScenario

(* The types of the other variables, in parts that the provers can handle. *)
Numbers ==
  /\ pid \in 0 .. MaxPid /\ newest \in 1 .. MaxPid /\ known \in 0 .. MaxPid
  /\ window \in Nat /\ covered \in Nat
  /\ step \in 0 .. MaxSteps

Marks ==
  phase \in Phase /\ restoring \subseteq {"start", "restart"} /\ revive \in BOOLEAN

PlaceType ==
  [at : {"none", "before", "step", "last_step", "dump", "after_scenario"}, step : 0 .. MaxSteps]

LEMMA TypeParts ==
  TypeOK <=> /\ Numbers /\ Marks
             /\ crashed \in PlaceType
             /\ crashes \in Seq(CrashType) /\ Len(crashes) <= MaxCrashes
BY DEF TypeOK, Numbers, Marks, PlaceType

(* The first place where the process id was found changed stays. *)
LEMMA CrashedSet ==
  ASSUME [Next]_vars
  PROVE  \/ crashed' = crashed
         \/ crashed = Nowhere /\ \E at0 \in {"before", "step", "last_step", "dump", "after_scenario"} :
              crashed' = Place(at0)
BY DEF Next, vars, Crash, Revive, WriteDump, ReadPid, CheckBeforeScenario, Check, BeforeStep, Ran,
       PlainStep, RestartNM, StartNM, StartNoWait, StopNM, KillNM, RestartInBackground,
       AnnounceRestart, AfterStep, AfterStepRaises, AfterScenario, RestoreStart, RestoreRestart,
       CleanedUp, CheckCoredump, EmbedDumps, CoredumpReport, CheckCoredumpRaises, AfterCrashReset,
       EmbedFaf, CheckFafRaises, CheckAfterScenario

LEMMA CrashedTyped ==
  ASSUME crashed \in PlaceType, Numbers, [Next]_vars
  PROVE  crashed' \in PlaceType
<1>1. step \in 0 .. MaxSteps
  BY DEF Numbers
<1>2. \A at0 \in {"before", "step", "last_step", "dump", "after_scenario"} :
        Place(at0) \in PlaceType
  BY <1>1 DEF PlaceType, Place
<1>3. QED
  BY <1>2, CrashedSet

LEMMA MarksKept == ASSUME Marks, [Next]_vars PROVE Marks'
BY DEF Marks, Phase, Next, vars, Crash, Revive, WriteDump, ReadPid, CheckBeforeScenario,
       BeforeStep, Ran, PlainStep, RestartNM, StartNM, StartNoWait, StopNM, KillNM,
       RestartInBackground, AnnounceRestart, AfterStep, AfterStepRaises, AfterScenario,
       RestoreStart, RestoreRestart, CleanedUp, CheckCoredump, CheckCoredumpRaises,
       AfterCrashReset, EmbedFaf, CheckFafRaises, CheckAfterScenario

LEMMA NumbersKept == ASSUME Numbers, [Next]_vars PROVE Numbers'
<1>1. CASE \E dump \in {"none", "coming"} : Crash(dump)
  BY <1>1, Bounds DEF Numbers, Crash
<1>2. CASE Revive
  BY <1>2, Bounds DEF Numbers, Revive, Fresh
<1>3. CASE \E i \in DOMAIN crashes : WriteDump(i)
  BY <1>3, Bounds DEF Numbers, WriteDump
<1>4. CASE ReadPid
  BY <1>4, Bounds DEF Numbers, ReadPid
<1>5. CASE CheckBeforeScenario
  BY <1>5, Bounds DEF Numbers, CheckBeforeScenario, Check
<1>6. CASE BeforeStep
  BY <1>6, Bounds DEF Numbers, BeforeStep
<1>7. CASE PlainStep
  BY <1>7, Bounds DEF Numbers, PlainStep, Ran
<1>8. CASE \E forCleanup \in BOOLEAN : RestartNM(forCleanup)
  BY <1>8, Bounds DEF Numbers, RestartNM, Ran, StartAndWait, Fresh
<1>9. CASE StartNM
  BY <1>9, Bounds DEF Numbers, StartNM, Ran, StartAndWait, Fresh
<1>10. CASE StartNoWait
  BY <1>10, Bounds DEF Numbers, StartNoWait, Ran, Fresh
<1>11. CASE StopNM
  BY <1>11, Bounds DEF Numbers, StopNM, Ran
<1>12. CASE KillNM
  BY <1>12, Bounds DEF Numbers, KillNM, Ran
<1>13. CASE RestartInBackground
  BY <1>13, Bounds DEF Numbers, RestartInBackground, Ran
<1>14. CASE \E n \in Announced : AnnounceRestart(n)
  BY <1>14, Bounds DEF Numbers, AnnounceRestart, Ran
<1>15. CASE AfterStep
  BY <1>15, Bounds DEF Numbers, AfterStep, Check
<1>16. CASE AfterStepRaises
  BY <1>16, Bounds DEF Numbers, AfterStepRaises
<1>17. CASE AfterScenario
  BY <1>17, Bounds DEF Numbers, AfterScenario, Check
<1>18. CASE RestoreStart
  BY <1>18, Bounds DEF Numbers, RestoreStart, StartAndWait, Fresh
<1>19. CASE RestoreRestart
  BY <1>19, Bounds DEF Numbers, RestoreRestart, StartAndWait, Fresh
<1>20. CASE CleanedUp
  BY <1>20, Bounds DEF Numbers, CleanedUp
<1>21. CASE CheckCoredump
  BY <1>21, Bounds DEF Numbers, CheckCoredump
<1>22. CASE CheckCoredumpRaises
  BY <1>22, Bounds DEF Numbers, CheckCoredumpRaises
<1>23. CASE AfterCrashReset
  BY <1>23, Bounds DEF Numbers, AfterCrashReset, StartAndWait, Fresh
<1>24. CASE EmbedFaf
  BY <1>24, Bounds DEF Numbers, EmbedFaf
<1>25. CASE CheckFafRaises
  BY <1>25, Bounds DEF Numbers, CheckFafRaises
<1>26. CASE CheckAfterScenario
  BY <1>26, Bounds DEF Numbers, CheckAfterScenario, Check
<1>27. CASE UNCHANGED vars
  BY <1>27, Bounds DEF Numbers, vars
<1>28. QED
  BY <1>1, <1>2, <1>3, <1>4, <1>5, <1>6, <1>7, <1>8, <1>9, <1>10, <1>11, <1>12, <1>13,
     <1>14, <1>15, <1>16, <1>17, <1>18, <1>19, <1>20, <1>21, <1>22, <1>23, <1>24, <1>25,
     <1>26, <1>27 DEF Next

(* CrashDetect keeps the types of its variables.                           *)
THEOREM CrashTypeCorrect == Spec => []TypeOK
<1>1. Init => TypeOK
  <2> SUFFICES ASSUME Init PROVE TypeOK
    OBVIOUS
  <2>1. crashes \in Seq(CrashType) /\ Len(crashes) <= MaxCrashes
    <3>1. crashes \in Seq(CrashType) /\ Len(crashes) = 0
      BY EmptySeq, LenProperties DEF Init
    <3>2. QED
      BY <3>1, Bounds
  <2>2. Numbers /\ Marks
    <3>1. Numbers
      BY Bounds DEF Init, Numbers
    <3>2. QED
      BY <3>1 DEF Init, Marks, Phase
  <2>3. crashed \in PlaceType
    BY Bounds DEF Init, PlaceType, Nowhere
  <2>4. QED
    BY <2>1, <2>2, <2>3, TypeParts
<1>2. TypeOK /\ [Next]_vars => TypeOK'
  <2> SUFFICES ASSUME TypeOK, [Next]_vars PROVE TypeOK'
    OBVIOUS
  <2>1. Numbers' /\ Marks' /\ crashed' \in PlaceType
    BY TypeParts, NumbersKept, MarksKept, CrashedTyped
  <2>2. crashes' \in Seq(CrashType) /\ Len(crashes') <= MaxCrashes
    BY CrashesTyped
  <2>3. QED
    BY <2>1, <2>2 DEF TypeOK, Numbers, Marks, PlaceType
<1>3. QED
  BY <1>1, <1>2, PTL DEF Spec

-----------------------------------------------------------------------------
(* What the history of crashes tells, as predicates of one state each: the *)
(* invariants below speak of the crashes through these only.               *)

Happened == DOMAIN crashes # {}
TagsCrash == \E i \in DOMAIN crashes : crashes[i].during = "tags"
IdleCrash == \E i \in DOMAIN crashes : crashes[i].step = step /\ crashes[i].during = "idle"

(* Crash i is a reason to blame step s. *)
Blames(i, s) ==
  \/ crashes[i].step = s
  \/ crashes[i].step + 1 = s /\ crashes[i].during = "idle"
  \/ crashes[i].during = "tags"

StepBlamed == \E i \in DOMAIN crashes : Blames(i, step)
Unseen == \E i \in DOMAIN crashes : crashes[i].during = "ran" /\ ~ crashes[i].seen
OnDiskNow == \E i \in DOMAIN crashes : crashes[i].dump = "disk"
Reported == \E i \in DOMAIN crashes : crashes[i].dump = "reported"

(* A step that is no crash keeps the places of the crashes. *)
LEMMA History ==
  ASSUME TypeOK, [Next]_vars
  PROVE  Same(crashes') \/ \E dump \in {"none", "coming"} : Crash(dump)
<1>1. CASE \E i \in DOMAIN crashes : WriteDump(i)
  BY <1>1, WriteDumpSame
<1>2. CASE CheckBeforeScenario \/ AfterStep
  BY <1>2, MarkSeenSame DEF CheckBeforeScenario, AfterStep
<1>3. CASE AfterScenario /\ crashes' # crashes
  BY <1>3, MarkSeenSame DEF AfterScenario
<1>4. CASE CheckCoredump \/ CheckCoredumpRaises
  BY <1>4, EmbedDumpsSame DEF CheckCoredump, CheckCoredumpRaises
<1>5. CASE crashes' = crashes
  BY <1>5 DEF TypeOK, Same
<1>6. QED
  BY <1>1, <1>2, <1>3, <1>4, <1>5
     DEF Next, vars, Revive, ReadPid, BeforeStep, Ran, PlainStep, RestartNM, StartNM, StartNoWait,
         StopNM, KillNM, RestartInBackground, AnnounceRestart, AfterStepRaises, RestoreStart,
         RestoreRestart, CleanedUp, AfterCrashReset, EmbedFaf, CheckFafRaises, CheckAfterScenario

(* No crash is forgotten. *)
LEMMA Remembered ==
  ASSUME TypeOK, [Next]_vars
  PROVE  /\ DOMAIN crashes \subseteq DOMAIN crashes'
         /\ \A i \in DOMAIN crashes : /\ crashes'[i].step = crashes[i].step
                                      /\ crashes'[i].during = crashes[i].during
<1>1. CASE Same(crashes')
  BY <1>1 DEF Same
<1>2. CASE \E dump \in {"none", "coming"} : Crash(dump)
  <2>1. PICK dump \in {"none", "coming"} : Crash(dump)
    BY <1>2
  <2>2. dump \in Dump
    BY DEF Dump
  <2>3. QED
    BY <2>1, <2>2, CrashAppends
<1>3. QED
  BY <1>1, <1>2, History

(* What a new crash is filed under. *)
LEMMA Filed ==
  ASSUME TypeOK, NEW dump \in {"none", "coming"}, Crash(dump)
  PROVE  /\ Happened'
         /\ phase = "tags" => TagsCrash'
         /\ phase = "idle" => IdleCrash'
         /\ StepBlamed'
         /\ Unseen' => Unseen \/ phase = "ran"
         /\ OnDiskNow' => OnDiskNow
         /\ Reported' => Reported
<1> DEFINE new == Len(crashes) + 1
<1>1. dump \in Dump
  BY DEF Dump
<1>2. /\ DOMAIN crashes' = DOMAIN crashes \cup {new}
      /\ crashes'[new] = [step |-> step, during |-> phase, seen |-> FALSE, dump |-> dump]
      /\ \A i \in DOMAIN crashes : crashes'[i] = crashes[i]
  BY <1>1, CrashAppends
<1>3. step' = step
  BY DEF Crash
<1> HIDE DEF new
<1>4. /\ crashes'[new].step = step /\ crashes'[new].during = phase
      /\ ~ crashes'[new].seen /\ crashes'[new].dump = dump
      /\ new \in DOMAIN crashes'
  BY <1>2
<1>5. Happened' /\ (phase = "tags" => TagsCrash') /\ (phase = "idle" => IdleCrash')
  BY <1>3, <1>4 DEF Happened, TagsCrash, IdleCrash
<1>6. StepBlamed'
  BY <1>3, <1>4 DEF StepBlamed, Blames
<1>7. Unseen' => Unseen \/ phase = "ran"
  BY <1>2, <1>4 DEF Unseen
<1>8. (OnDiskNow' => OnDiskNow) /\ (Reported' => Reported)
  BY <1>2, <1>4 DEF OnDiskNow, Reported
<1>9. QED
  BY <1>5, <1>6, <1>7, <1>8

(* What carries over from one state to the next. *)
LEMMA Carried ==
  ASSUME TypeOK, [Next]_vars
  PROVE  /\ Happened => Happened'
         /\ TagsCrash => TagsCrash' /\ StepBlamed
         /\ step' = step => (IdleCrash => IdleCrash') /\ (StepBlamed => StepBlamed')
         /\ step' = step + 1 /\ (IdleCrash \/ TagsCrash) => StepBlamed'
<1>1. /\ DOMAIN crashes \subseteq DOMAIN crashes'
      /\ \A i \in DOMAIN crashes : /\ crashes'[i].step = crashes[i].step
                                   /\ crashes'[i].during = crashes[i].during
  BY Remembered
<1>2. Happened => Happened'
  BY <1>1 DEF Happened
<1>3. TagsCrash => TagsCrash' /\ StepBlamed
  BY <1>1 DEF TagsCrash, StepBlamed, Blames
<1>4. step' = step => (IdleCrash => IdleCrash') /\ (StepBlamed => StepBlamed')
  BY <1>1 DEF IdleCrash, StepBlamed, Blames
<1>5. step' = step + 1 /\ (IdleCrash \/ TagsCrash) => StepBlamed'
  BY <1>1 DEF IdleCrash, TagsCrash, StepBlamed, Blames
<1>6. QED
  BY <1>2, <1>3, <1>4, <1>5

(* When a crash remains to be seen, and a dump to be examined. *)
LEMMA Sighted ==
  ASSUME TypeOK, [Next]_vars
  PROVE  /\ Unseen' => Unseen \/ (phase = "ran" /\ \E dump \in {"none", "coming"} : Crash(dump))
         /\ CheckBeforeScenario \/ AfterStep => ~ Unseen'
         /\ OnDiskNow' => OnDiskNow \/ phase \notin {"last", "over", "broken"}
         /\ CheckCoredump => ~ OnDiskNow'
         /\ Reported' => Reported \/ crashed' # Nowhere
<1>1. CASE \E dump \in {"none", "coming"} : Crash(dump)
  BY <1>1, Filed DEF Crash, CheckBeforeScenario, AfterStep, CheckCoredump
<1>2. CASE \E i \in DOMAIN crashes : WriteDump(i)
  <2>1. PICK i \in DOMAIN crashes : WriteDump(i)
    BY <1>2
  <2>2. /\ Same(crashes')
        /\ \A k \in DOMAIN crashes : crashes'[k].seen = crashes[k].seen
        /\ \A k \in DOMAIN crashes :
             \/ crashes'[k].dump = crashes[k].dump
             \/ crashes'[k].dump = IF phase = "last" THEN "late" ELSE "disk"
    BY <2>1, WriteDumpSame
  <2>3. phase \notin {"over", "broken"} /\ phase' = phase
    BY <2>1 DEF WriteDump, Ended
  <2>4. (Unseen' => Unseen) /\ (Reported' => Reported)
    BY <2>2 DEF Same, Unseen, Reported
  <2>5. OnDiskNow' => OnDiskNow \/ phase # "last"
    BY <2>2 DEF Same, OnDiskNow
  <2>6. ~ (CheckBeforeScenario \/ AfterStep) /\ ~ CheckCoredump
    BY <2>3 DEF CheckBeforeScenario, AfterStep, CheckCoredump
  <2>7. QED
    BY <2>3, <2>4, <2>5, <2>6
<1>3. CASE (CheckBeforeScenario \/ AfterStep \/ AfterScenario) /\ crashes' = MarkSeen
  <2>1. /\ Same(crashes')
        /\ \A i \in DOMAIN crashes : crashes'[i].seen /\ crashes'[i].dump = crashes[i].dump
    BY <1>3, MarkSeenSame
  <2>2. ~ Unseen' /\ (OnDiskNow' => OnDiskNow) /\ (Reported' => Reported)
    BY <2>1 DEF Same, Unseen, OnDiskNow, Reported
  <2>3. ~ CheckCoredump
    BY <1>3 DEF CheckBeforeScenario, AfterStep, AfterScenario, CheckCoredump
  <2>4. QED
    BY <2>2, <2>3
<1>4. CASE CheckCoredump \/ CheckCoredumpRaises
  <2>1. PICK found \in SUBSET OnDisk :
          EmbedDumps(found) /\ phase = "dumps" /\ (CheckCoredump => found = OnDisk)
    BY <1>4 DEF CheckCoredump, CheckCoredumpRaises
  <2>2. /\ Same(crashes')
        /\ \A i \in DOMAIN crashes : crashes'[i].seen = crashes[i].seen
        /\ \A i \in DOMAIN crashes :
             crashes'[i].dump = IF i \in found THEN "reported" ELSE crashes[i].dump
    BY <2>1, EmbedDumpsSame
  <2>3. Unseen' => Unseen
    BY <2>2 DEF Same, Unseen
  <2>4. CheckCoredump => ~ OnDiskNow'
    BY <2>1, <2>2 DEF Same, OnDiskNow, OnDisk
  <2>5. Reported' => Reported \/ found # {}
    BY <2>2 DEF Same, Reported
  <2>6. found # {} => crashed' # Nowhere
    BY <2>1 DEF EmbedDumps, CoredumpReport, Place, Nowhere
  <2>7. CheckBeforeScenario \/ AfterStep => FALSE
    BY <2>1 DEF CheckBeforeScenario, AfterStep
  <2>8. QED
    BY <2>1, <2>3, <2>4, <2>5, <2>6, <2>7
<1>5. CASE crashes' = crashes /\ ~ CheckCoredump /\ ~ CheckBeforeScenario /\ ~ AfterStep
  BY <1>5 DEF Unseen, OnDiskNow, Reported
<1>6. QED
  BY <1>1, <1>2, <1>3, <1>4, <1>5
     DEF Next, vars, CheckBeforeScenario, AfterStep, AfterScenario,
         Revive, ReadPid, BeforeStep, Ran, PlainStep, RestartNM, StartNM, StartNoWait,
         StopNM, KillNM, RestartInBackground, AnnounceRestart, AfterStepRaises, RestoreStart,
         RestoreRestart, CleanedUp, AfterCrashReset, EmbedFaf, CheckFafRaises, CheckAfterScenario

-----------------------------------------------------------------------------
(* The inductive invariant.                                                *)

(* Ids are given out in order. *)
Ordered == pid <= newest /\ known <= newest

(* As long as nothing crashed, the id remembered keeps up, or a restart    *)
(* was announced, for good.                                                *)
Quiet == Happened \/ (crashed = Nowhere /\ (window > 0 \/ (pid = known /\ ~ revive)))

(* While the tags run, only a crash changes the process. *)
Early == phase = "tags" => known = 1 /\ window = 0 /\ (pid # 1 => TagsCrash)

(* Without an announcement systemd has something to restart only where     *)
(* NetworkManager is down, and the id remembered is 0 beside a process, or *)
(* one to come, only after a crash under the tags.                         *)
Stale ==
  window = 0 =>
    /\ revive => pid = 0
    /\ known = 0 /\ (pid # 0 \/ revive) => TagsCrash

(* A change that the next check will find has a crash to blame. *)
Pending ==
  window = 0 /\ crashed = Nowhere /\ pid # known =>
    /\ phase = "idle" => IdleCrash \/ TagsCrash
    /\ phase \in {"step", "ran"} => StepBlamed

(* A crash behind the last operation of a step shows until the check. *)
Tells ==
  /\ phase \in {"tags", "read", "idle", "step"} => ~ Unseen
  /\ phase \in {"ran", "raised"} /\ window = 0 /\ Unseen /\ ~ TagsCrash => pid # known

(* Dumps are examined once, and are crashes. *)
Examined ==
  /\ phase \in {"last", "over"} => ~ OnDiskNow
  /\ Reported => crashed # Nowhere

IInv ==
  /\ TypeOK
  /\ Ordered /\ Quiet /\ Early /\ Stale /\ Pending /\ Tells /\ Examined
  /\ BlamedStep

LEMMA PlacesDiffer ==
  \A at0 \in {"before", "step", "last_step", "dump", "after_scenario"} :
    Place(at0) # Nowhere /\ Place(at0).at = at0 /\ Place(at0).step = step
BY DEF Place, Nowhere

LEMMA SomeCrash == ASSUME TypeOK, crashes # <<>> PROVE Happened
<1>1. crashes \in Seq(CrashType)
  BY DEF TypeOK
<1>2. Len(crashes) \in Nat /\ Len(crashes) # 0 /\ DOMAIN crashes = 1 .. Len(crashes)
  BY <1>1, EmptySeq, LenProperties
<1>3. QED
  BY <1>2 DEF Happened

LEMMA OrderedKept == ASSUME Numbers, Ordered, [Next]_vars PROVE Ordered'
<1>10. CASE \E dump \in {"none", "coming"} : Crash(dump)
  BY <1>10, Bounds DEF Numbers, Ordered, Crash
<1>11. CASE Revive
  BY <1>11, Bounds DEF Numbers, Ordered, Revive, Fresh
<1>12. CASE \E i \in DOMAIN crashes : WriteDump(i)
  BY <1>12, Bounds DEF Numbers, Ordered, WriteDump
<1>13. CASE ReadPid
  BY <1>13, Bounds DEF Numbers, Ordered, ReadPid
<1>14. CASE CheckBeforeScenario
  BY <1>14, Bounds DEF Numbers, Ordered, CheckBeforeScenario, Check
<1>15. CASE BeforeStep
  BY <1>15, Bounds DEF Numbers, Ordered, BeforeStep
<1>16. CASE PlainStep
  BY <1>16, Bounds DEF Numbers, Ordered, PlainStep, Ran
<1>17. CASE \E forCleanup \in BOOLEAN : RestartNM(forCleanup)
  BY <1>17, Bounds DEF Numbers, Ordered, RestartNM, Ran, StartAndWait, Fresh
<1>18. CASE StartNM
  BY <1>18, Bounds DEF Numbers, Ordered, StartNM, Ran, StartAndWait, Fresh
<1>19. CASE StartNoWait
  BY <1>19, Bounds DEF Numbers, Ordered, StartNoWait, Ran, Fresh
<1>20. CASE StopNM
  BY <1>20, Bounds DEF Numbers, Ordered, StopNM, Ran
<1>21. CASE KillNM
  BY <1>21, Bounds DEF Numbers, Ordered, KillNM, Ran
<1>22. CASE RestartInBackground
  BY <1>22, Bounds DEF Numbers, Ordered, RestartInBackground, Ran
<1>23. CASE \E n \in Announced : AnnounceRestart(n)
  BY <1>23, Bounds DEF Numbers, Ordered, AnnounceRestart, Ran
<1>24. CASE AfterStep
  BY <1>24, Bounds DEF Numbers, Ordered, AfterStep, Check
<1>25. CASE AfterStepRaises
  BY <1>25, Bounds DEF Numbers, Ordered, AfterStepRaises
<1>26. CASE AfterScenario
  BY <1>26, Bounds DEF Numbers, Ordered, AfterScenario, Check
<1>27. CASE RestoreStart
  BY <1>27, Bounds DEF Numbers, Ordered, RestoreStart, StartAndWait, Fresh
<1>28. CASE RestoreRestart
  BY <1>28, Bounds DEF Numbers, Ordered, RestoreRestart, StartAndWait, Fresh
<1>29. CASE CleanedUp
  BY <1>29, Bounds DEF Numbers, Ordered, CleanedUp
<1>30. CASE CheckCoredump
  BY <1>30, Bounds DEF Numbers, Ordered, CheckCoredump
<1>31. CASE CheckCoredumpRaises
  BY <1>31, Bounds DEF Numbers, Ordered, CheckCoredumpRaises
<1>32. CASE AfterCrashReset
  BY <1>32, Bounds DEF Numbers, Ordered, AfterCrashReset, StartAndWait, Fresh
<1>33. CASE EmbedFaf
  BY <1>33, Bounds DEF Numbers, Ordered, EmbedFaf
<1>34. CASE CheckFafRaises
  BY <1>34, Bounds DEF Numbers, Ordered, CheckFafRaises
<1>35. CASE CheckAfterScenario
  BY <1>35, Bounds DEF Numbers, Ordered, CheckAfterScenario, Check
<1>36. CASE UNCHANGED vars
  BY <1>36, Bounds DEF Numbers, Ordered, vars
<1>37. QED
  BY <1>10, <1>11, <1>12, <1>13, <1>14, <1>15, <1>16, <1>17, <1>18, <1>19, <1>20, <1>21,
     <1>22, <1>23, <1>24, <1>25, <1>26, <1>27, <1>28, <1>29, <1>30, <1>31, <1>32, <1>33,
     <1>34, <1>35, <1>36 DEF Next

LEMMA QuietKept ==
  ASSUME TypeOK, Numbers, Quiet, [Next]_vars
  PROVE  Quiet'
<1>1. Happened => Happened'
  BY Carried
<1>2. ASSUME NEW dump \in {"none", "coming"}, Crash(dump)
      PROVE  Happened'
  BY <1>2, Filed
<1>3. CheckCoredump \/ CheckCoredumpRaises => Happened \/ UNCHANGED crashed
  BY DEF CheckCoredump, CheckCoredumpRaises, EmbedDumps, OnDisk, Happened
<1>4. EmbedFaf => Happened
  BY SomeCrash DEF EmbedFaf
<1>10. CASE \E dump \in {"none", "coming"} : Crash(dump)
  BY <1>10, <1>1, <1>2, Bounds DEF Numbers, Quiet, Crash
<1>11. CASE Revive
  BY <1>11, <1>1, <1>2, Bounds DEF Numbers, Quiet, Revive, Fresh
<1>12. CASE \E i \in DOMAIN crashes : WriteDump(i)
  BY <1>12, <1>1, <1>2, Bounds DEF Numbers, Quiet, WriteDump
<1>13. CASE ReadPid
  BY <1>13, <1>1, <1>2, Bounds DEF Numbers, Quiet, ReadPid
<1>14. CASE CheckBeforeScenario
  BY <1>14, <1>1, <1>2, Bounds DEF Numbers, Quiet, CheckBeforeScenario, Check
<1>15. CASE BeforeStep
  BY <1>15, <1>1, <1>2, Bounds DEF Numbers, Quiet, BeforeStep
<1>16. CASE PlainStep
  BY <1>16, <1>1, <1>2, Bounds DEF Numbers, Quiet, PlainStep, Ran
<1>17. CASE \E forCleanup \in BOOLEAN : RestartNM(forCleanup)
  BY <1>17, <1>1, <1>2, Bounds DEF Numbers, Quiet, RestartNM, Ran, StartAndWait, Fresh
<1>18. CASE StartNM
  BY <1>18, <1>1, <1>2, Bounds DEF Numbers, Quiet, StartNM, Ran, StartAndWait, Fresh
<1>19. CASE StartNoWait
  BY <1>19, <1>1, <1>2, Bounds DEF Numbers, Quiet, StartNoWait, Ran, Fresh
<1>20. CASE StopNM
  BY <1>20, <1>1, <1>2, Bounds DEF Numbers, Quiet, StopNM, Ran
<1>21. CASE KillNM
  BY <1>21, <1>1, <1>2, Bounds DEF Numbers, Quiet, KillNM, Ran
<1>22. CASE RestartInBackground
  BY <1>22, <1>1, <1>2, Bounds DEF Numbers, Quiet, RestartInBackground, Ran
<1>23. CASE \E n \in Announced : AnnounceRestart(n)
  BY <1>23, <1>1, <1>2, Bounds DEF Numbers, Quiet, AnnounceRestart, Ran
<1>24. CASE AfterStep
  BY <1>24, <1>1, <1>2, Bounds DEF Numbers, Quiet, AfterStep, Check
<1>25. CASE AfterStepRaises
  BY <1>25, <1>1, <1>2, Bounds DEF Numbers, Quiet, AfterStepRaises
<1>26. CASE AfterScenario
  <2>1. CASE pid = 0
    <3>1. Check("last_step") /\ UNCHANGED <<pid, revive>>
      BY <1>26, <2>1 DEF AfterScenario
    <3>2. QED
      BY <3>1, <2>1, <1>1, Bounds DEF Numbers, Quiet, Check
  <2>2. CASE pid # 0
    BY <1>26, <2>2, <1>1 DEF Quiet, AfterScenario
  <2>3. QED
    BY <2>1, <2>2
<1>27. CASE RestoreStart
  BY <1>27, <1>1, <1>2, Bounds DEF Numbers, Quiet, RestoreStart, StartAndWait, Fresh
<1>28. CASE RestoreRestart
  BY <1>28, <1>1, <1>2, Bounds DEF Numbers, Quiet, RestoreRestart, StartAndWait, Fresh
<1>29. CASE CleanedUp
  BY <1>29, <1>1, <1>2, Bounds DEF Numbers, Quiet, CleanedUp
<1>30. CASE CheckCoredump
  BY <1>30, <1>1, <1>3 DEF Quiet, CheckCoredump
<1>31. CASE CheckCoredumpRaises
  BY <1>31, <1>1, <1>3 DEF Quiet, CheckCoredumpRaises
<1>32. CASE AfterCrashReset
  BY <1>32, <1>1, <1>2, Bounds DEF Numbers, Quiet, AfterCrashReset, StartAndWait, Fresh
<1>33. CASE EmbedFaf
  BY <1>33, <1>1, <1>4 DEF Quiet
<1>34. CASE CheckFafRaises
  BY <1>34, <1>1, <1>2, Bounds DEF Numbers, Quiet, CheckFafRaises
<1>35. CASE CheckAfterScenario
  BY <1>35, <1>1, <1>2, Bounds DEF Numbers, Quiet, CheckAfterScenario, Check
<1>36. CASE UNCHANGED vars
  BY <1>36, <1>1, <1>2, Bounds DEF Numbers, Quiet, vars
<1>37. QED
  BY <1>10, <1>11, <1>12, <1>13, <1>14, <1>15, <1>16, <1>17, <1>18, <1>19, <1>20, <1>21,
     <1>22, <1>23, <1>24, <1>25, <1>26, <1>27, <1>28, <1>29, <1>30, <1>31, <1>32, <1>33,
     <1>34, <1>35, <1>36 DEF Next

LEMMA EarlyKept ==
  ASSUME TypeOK, Early, Stale, [Next]_vars
  PROVE  Early'
<1>1. TagsCrash => TagsCrash'
  BY Carried
<1>2. ASSUME NEW dump \in {"none", "coming"}, Crash(dump), phase = "tags"
      PROVE  TagsCrash'
  BY <1>2, Filed
<1>10. CASE \E dump \in {"none", "coming"} : Crash(dump)
  BY <1>10, <1>1, <1>2 DEF Early, Crash
<1>11. CASE Revive
  BY <1>11, <1>1 DEF Early, Stale, Revive
<1>12. CASE \E i \in DOMAIN crashes : WriteDump(i)
  BY <1>12, <1>1, <1>2 DEF Early, WriteDump
<1>13. CASE ReadPid
  BY <1>13, <1>1, <1>2 DEF Early, ReadPid
<1>14. CASE CheckBeforeScenario
  BY <1>14, <1>1, <1>2 DEF Early, CheckBeforeScenario
<1>15. CASE BeforeStep
  BY <1>15, <1>1, <1>2 DEF Early, BeforeStep
<1>16. CASE PlainStep
  BY <1>16, <1>1, <1>2 DEF Early, PlainStep, Ran
<1>17. CASE \E forCleanup \in BOOLEAN : RestartNM(forCleanup)
  BY <1>17, <1>1, <1>2 DEF Early, RestartNM, Ran
<1>18. CASE StartNM
  BY <1>18, <1>1, <1>2 DEF Early, StartNM, Ran
<1>19. CASE StartNoWait
  BY <1>19, <1>1, <1>2 DEF Early, StartNoWait, Ran
<1>20. CASE StopNM
  BY <1>20, <1>1, <1>2 DEF Early, StopNM, Ran
<1>21. CASE KillNM
  BY <1>21, <1>1, <1>2 DEF Early, KillNM, Ran
<1>22. CASE RestartInBackground
  BY <1>22, <1>1, <1>2 DEF Early, RestartInBackground, Ran
<1>23. CASE \E n \in Announced : AnnounceRestart(n)
  BY <1>23, <1>1, <1>2 DEF Early, AnnounceRestart, Ran
<1>24. CASE AfterStep
  BY <1>24, <1>1, <1>2 DEF Early, AfterStep
<1>25. CASE AfterStepRaises
  BY <1>25, <1>1, <1>2 DEF Early, AfterStepRaises
<1>26. CASE AfterScenario
  BY <1>26, <1>1, <1>2 DEF Early, AfterScenario
<1>27. CASE RestoreStart
  BY <1>27, <1>1, <1>2 DEF Early, RestoreStart
<1>28. CASE RestoreRestart
  BY <1>28, <1>1, <1>2 DEF Early, RestoreRestart
<1>29. CASE CleanedUp
  BY <1>29, <1>1, <1>2 DEF Early, CleanedUp
<1>30. CASE CheckCoredump
  BY <1>30, <1>1, <1>2 DEF Early, CheckCoredump
<1>31. CASE CheckCoredumpRaises
  BY <1>31, <1>1, <1>2 DEF Early, CheckCoredumpRaises
<1>32. CASE AfterCrashReset
  BY <1>32, <1>1, <1>2 DEF Early, AfterCrashReset
<1>33. CASE EmbedFaf
  BY <1>33, <1>1, <1>2 DEF Early, EmbedFaf
<1>34. CASE CheckFafRaises
  BY <1>34, <1>1, <1>2 DEF Early, CheckFafRaises
<1>35. CASE CheckAfterScenario
  BY <1>35, <1>1, <1>2 DEF Early, CheckAfterScenario
<1>36. CASE UNCHANGED vars
  BY <1>36, <1>1, <1>2 DEF Early, vars
<1>37. QED
  BY <1>10, <1>11, <1>12, <1>13, <1>14, <1>15, <1>16, <1>17, <1>18, <1>19, <1>20, <1>21,
     <1>22, <1>23, <1>24, <1>25, <1>26, <1>27, <1>28, <1>29, <1>30, <1>31, <1>32, <1>33,
     <1>34, <1>35, <1>36 DEF Next

LEMMA StaleKept ==
  ASSUME TypeOK, Numbers, Early, Stale, [Next]_vars
  PROVE  Stale'
<1>1. TagsCrash => TagsCrash'
  BY Carried
<1>10. CASE \E dump \in {"none", "coming"} : Crash(dump)
  BY <1>10, <1>1, Bounds DEF Numbers, Early, Stale, Crash
<1>11. CASE Revive
  BY <1>11, <1>1, Bounds DEF Numbers, Early, Stale, Revive, Fresh
<1>12. CASE \E i \in DOMAIN crashes : WriteDump(i)
  BY <1>12, <1>1, Bounds DEF Numbers, Early, Stale, WriteDump
<1>13. CASE ReadPid
  BY <1>13, <1>1, Bounds DEF Numbers, Early, Stale, ReadPid
<1>14. CASE CheckBeforeScenario
  BY <1>14, <1>1, Bounds DEF Numbers, Early, Stale, CheckBeforeScenario, Check
<1>15. CASE BeforeStep
  BY <1>15, <1>1, Bounds DEF Numbers, Early, Stale, BeforeStep
<1>16. CASE PlainStep
  BY <1>16, <1>1, Bounds DEF Numbers, Early, Stale, PlainStep, Ran
<1>17. CASE \E forCleanup \in BOOLEAN : RestartNM(forCleanup)
  BY <1>17, <1>1, Bounds DEF Numbers, Early, Stale, RestartNM, Ran, StartAndWait, Fresh
<1>18. CASE StartNM
  BY <1>18, <1>1, Bounds DEF Numbers, Early, Stale, StartNM, Ran, StartAndWait, Fresh
<1>19. CASE StartNoWait
  BY <1>19, <1>1, Bounds DEF Numbers, Early, Stale, StartNoWait, Ran, Fresh
<1>20. CASE StopNM
  BY <1>20, <1>1, Bounds DEF Numbers, Early, Stale, StopNM, Ran
<1>21. CASE KillNM
  BY <1>21, <1>1, Bounds DEF Numbers, Early, Stale, KillNM, Ran
<1>22. CASE RestartInBackground
  BY <1>22, <1>1, Bounds DEF Numbers, Early, Stale, RestartInBackground, Ran
<1>23. CASE \E n \in Announced : AnnounceRestart(n)
  BY <1>23, <1>1, Bounds DEF Numbers, Early, Stale, AnnounceRestart, Ran
<1>24. CASE AfterStep
  BY <1>24, <1>1, Bounds DEF Numbers, Early, Stale, AfterStep, Check
<1>25. CASE AfterStepRaises
  BY <1>25, <1>1, Bounds DEF Numbers, Early, Stale, AfterStepRaises
<1>26. CASE AfterScenario
  <2>1. CASE pid = 0
    <3>1. Check("last_step") /\ UNCHANGED <<pid, revive>>
      BY <1>26, <2>1 DEF AfterScenario
    <3>2. QED
      BY <3>1, <2>1, <1>1, Bounds DEF Numbers, Stale, Check
  <2>2. CASE pid # 0
    BY <1>26, <2>2, <1>1 DEF Stale, AfterScenario
  <2>3. QED
    BY <2>1, <2>2
<1>27. CASE RestoreStart
  BY <1>27, <1>1, Bounds DEF Numbers, Early, Stale, RestoreStart, StartAndWait, Fresh
<1>28. CASE RestoreRestart
  BY <1>28, <1>1, Bounds DEF Numbers, Early, Stale, RestoreRestart, StartAndWait, Fresh
<1>29. CASE CleanedUp
  BY <1>29, <1>1, Bounds DEF Numbers, Early, Stale, CleanedUp
<1>30. CASE CheckCoredump
  BY <1>30, <1>1, Bounds DEF Numbers, Early, Stale, CheckCoredump
<1>31. CASE CheckCoredumpRaises
  BY <1>31, <1>1, Bounds DEF Numbers, Early, Stale, CheckCoredumpRaises
<1>32. CASE AfterCrashReset
  BY <1>32, <1>1, Bounds DEF Numbers, Early, Stale, AfterCrashReset, StartAndWait, Fresh
<1>33. CASE EmbedFaf
  BY <1>33, <1>1, Bounds DEF Numbers, Early, Stale, EmbedFaf
<1>34. CASE CheckFafRaises
  BY <1>34, <1>1, Bounds DEF Numbers, Early, Stale, CheckFafRaises
<1>35. CASE CheckAfterScenario
  BY <1>35, <1>1, Bounds DEF Numbers, Early, Stale, CheckAfterScenario, Check
<1>36. CASE UNCHANGED vars
  BY <1>36, <1>1, Bounds DEF Numbers, Early, Stale, vars
<1>37. QED
  BY <1>10, <1>11, <1>12, <1>13, <1>14, <1>15, <1>16, <1>17, <1>18, <1>19, <1>20, <1>21,
     <1>22, <1>23, <1>24, <1>25, <1>26, <1>27, <1>28, <1>29, <1>30, <1>31, <1>32, <1>33,
     <1>34, <1>35, <1>36 DEF Next

LEMMA PendingKept ==
  ASSUME TypeOK, Numbers, Early, Stale, Pending, [Next]_vars
  PROVE  Pending'
<1>1. /\ TagsCrash => TagsCrash' /\ StepBlamed
      /\ step' = step => (IdleCrash => IdleCrash') /\ (StepBlamed => StepBlamed')
      /\ step' = step + 1 /\ (IdleCrash \/ TagsCrash) => StepBlamed'
  BY Carried
<1>2. ASSUME NEW dump \in {"none", "coming"}, Crash(dump)
      PROVE  /\ phase = "tags" => TagsCrash'
             /\ phase = "idle" => IdleCrash'
             /\ StepBlamed'
  BY <1>2, Filed
<1>10. CASE \E dump \in {"none", "coming"} : Crash(dump)
  BY <1>10, <1>1, <1>2, Bounds DEF Numbers, Early, Stale, Pending, Crash
<1>11. CASE Revive
  BY <1>11, <1>1, <1>2, Bounds DEF Numbers, Early, Stale, Pending, Revive, Fresh
<1>12. CASE \E i \in DOMAIN crashes : WriteDump(i)
  BY <1>12, <1>1, <1>2, Bounds DEF Numbers, Early, Stale, Pending, WriteDump
<1>13. CASE ReadPid
  BY <1>13, <1>1, <1>2, Bounds DEF Numbers, Early, Stale, Pending, ReadPid
<1>14. CASE CheckBeforeScenario
  BY <1>14, PlacesDiffer, Bounds DEF Numbers, Pending, CheckBeforeScenario, Check
<1>15. CASE BeforeStep
  BY <1>15, <1>1, <1>2, Bounds DEF Numbers, Early, Stale, Pending, BeforeStep
<1>16. CASE PlainStep
  BY <1>16, <1>1, <1>2, Bounds DEF Numbers, Early, Stale, Pending, PlainStep, Ran
<1>17. CASE \E forCleanup \in BOOLEAN : RestartNM(forCleanup)
  BY <1>17, <1>1, <1>2, Bounds DEF Numbers, Early, Stale, Pending, RestartNM, Ran,
     StartAndWait, Fresh
<1>18. CASE StartNM
  BY <1>18, <1>1, <1>2, Bounds DEF Numbers, Early, Stale, Pending, StartNM, Ran,
     StartAndWait, Fresh
<1>19. CASE StartNoWait
  BY <1>19, <1>1, <1>2, Bounds DEF Numbers, Early, Stale, Pending, StartNoWait, Ran, Fresh
<1>20. CASE StopNM
  BY <1>20, <1>1, <1>2, Bounds DEF Numbers, Early, Stale, Pending, StopNM, Ran
<1>21. CASE KillNM
  BY <1>21, <1>1, <1>2, Bounds DEF Numbers, Early, Stale, Pending, KillNM, Ran
<1>22. CASE RestartInBackground
  BY <1>22, <1>1, <1>2, Bounds DEF Numbers, Early, Stale, Pending, RestartInBackground, Ran
<1>23. CASE \E n \in Announced : AnnounceRestart(n)
  BY <1>23, <1>1, <1>2, Bounds DEF Numbers, Early, Stale, Pending, AnnounceRestart, Ran
<1>24. CASE AfterStep
  BY <1>24, PlacesDiffer, Bounds DEF Numbers, Pending, AfterStep, Check
<1>25. CASE AfterStepRaises
  BY <1>25, <1>1, <1>2, Bounds DEF Numbers, Early, Stale, Pending, AfterStepRaises
<1>26. CASE AfterScenario
  BY <1>26, <1>1, <1>2, Bounds DEF Numbers, Early, Stale, Pending, AfterScenario, Check
<1>27. CASE RestoreStart
  BY <1>27, <1>1, <1>2, Bounds DEF Numbers, Early, Stale, Pending, RestoreStart,
     StartAndWait, Fresh
<1>28. CASE RestoreRestart
  BY <1>28, <1>1, <1>2, Bounds DEF Numbers, Early, Stale, Pending, RestoreRestart,
     StartAndWait, Fresh
<1>29. CASE CleanedUp
  BY <1>29, <1>1, <1>2, Bounds DEF Numbers, Early, Stale, Pending, CleanedUp
<1>30. CASE CheckCoredump
  BY <1>30, <1>1, <1>2, Bounds DEF Numbers, Early, Stale, Pending, CheckCoredump,
     CoredumpReport
<1>31. CASE CheckCoredumpRaises
  BY <1>31, <1>1, <1>2, Bounds DEF Numbers, Early, Stale, Pending, CheckCoredumpRaises,
     CoredumpReport
<1>32. CASE AfterCrashReset
  BY <1>32, <1>1, <1>2, Bounds DEF Numbers, Early, Stale, Pending, AfterCrashReset,
     StartAndWait, Fresh
<1>33. CASE EmbedFaf
  BY <1>33, <1>1, <1>2, Bounds DEF Numbers, Early, Stale, Pending, EmbedFaf, CoredumpReport
<1>34. CASE CheckFafRaises
  BY <1>34, <1>1, <1>2, Bounds DEF Numbers, Early, Stale, Pending, CheckFafRaises
<1>35. CASE CheckAfterScenario
  BY <1>35, <1>1, <1>2, Bounds DEF Numbers, Early, Stale, Pending, CheckAfterScenario, Check
<1>36. CASE UNCHANGED vars
  BY <1>36, <1>1, <1>2, Bounds DEF Numbers, Early, Stale, Pending, vars
<1>37. QED
  BY <1>10, <1>11, <1>12, <1>13, <1>14, <1>15, <1>16, <1>17, <1>18, <1>19, <1>20, <1>21,
     <1>22, <1>23, <1>24, <1>25, <1>26, <1>27, <1>28, <1>29, <1>30, <1>31, <1>32, <1>33,
     <1>34, <1>35, <1>36 DEF Next

LEMMA TellsKept ==
  ASSUME TypeOK, Numbers, Ordered, Stale, Tells, [Next]_vars
  PROVE  Tells'
<1>1. TagsCrash => TagsCrash'
  BY Carried
<1>2. /\ Unseen' => Unseen \/ (phase = "ran" /\ \E dump \in {"none", "coming"} : Crash(dump))
      /\ CheckBeforeScenario \/ AfterStep => ~ Unseen'
  BY Sighted
<1>3. pid' = pid => ~ \E dump \in {"none", "coming"} : Crash(dump)
  BY DEF Crash
<1>10. CASE \E dump \in {"none", "coming"} : Crash(dump)
  BY <1>10, <1>1, <1>2, Bounds DEF Numbers, Ordered, Stale, Tells, Crash
<1>11. CASE Revive
  BY <1>11, <1>1, <1>2, Bounds DEF Numbers, Ordered, Stale, Tells, Revive, Fresh
<1>12. CASE \E i \in DOMAIN crashes : WriteDump(i)
  BY <1>12, <1>1, <1>2, <1>3 DEF Tells, WriteDump
<1>13. CASE ReadPid
  BY <1>13, <1>1, <1>2, Bounds DEF Numbers, Ordered, Stale, Tells, ReadPid
<1>14. CASE CheckBeforeScenario
  BY <1>14, <1>1, <1>2, Bounds DEF Numbers, Ordered, Stale, Tells, CheckBeforeScenario,
     Check
<1>15. CASE BeforeStep
  BY <1>15, <1>1, <1>2, Bounds DEF Numbers, Ordered, Stale, Tells, BeforeStep
<1>16. CASE PlainStep
  BY <1>16, <1>1, <1>2, Bounds DEF Numbers, Ordered, Stale, Tells, PlainStep, Ran
<1>17. CASE \E forCleanup \in BOOLEAN : RestartNM(forCleanup)
  BY <1>17, <1>1, <1>2, Bounds DEF Numbers, Ordered, Stale, Tells, RestartNM, Ran,
     StartAndWait, Fresh
<1>18. CASE StartNM
  BY <1>18, <1>1, <1>2, Bounds DEF Numbers, Ordered, Stale, Tells, StartNM, Ran,
     StartAndWait, Fresh
<1>19. CASE StartNoWait
  BY <1>19, <1>1, <1>2, Bounds DEF Numbers, Ordered, Stale, Tells, StartNoWait, Ran, Fresh
<1>20. CASE StopNM
  BY <1>20, <1>1, <1>2, Bounds DEF Numbers, Ordered, Stale, Tells, StopNM, Ran
<1>21. CASE KillNM
  BY <1>21, <1>1, <1>2, Bounds DEF Numbers, Ordered, Stale, Tells, KillNM, Ran
<1>22. CASE RestartInBackground
  BY <1>22, <1>1, <1>2, Bounds DEF Numbers, Ordered, Stale, Tells, RestartInBackground, Ran
<1>23. CASE \E n \in Announced : AnnounceRestart(n)
  BY <1>23, <1>1, <1>2, Bounds DEF Numbers, Ordered, Stale, Tells, AnnounceRestart, Ran
<1>24. CASE AfterStep
  BY <1>24, <1>1, <1>2, Bounds DEF Numbers, Ordered, Stale, Tells, AfterStep, Check
<1>25. CASE AfterStepRaises
  BY <1>25, <1>1, <1>2, <1>3 DEF Tells, AfterStepRaises
<1>26. CASE AfterScenario
  BY <1>26, <1>1, <1>2, Bounds DEF Numbers, Ordered, Stale, Tells, AfterScenario, Check
<1>27. CASE RestoreStart
  BY <1>27, <1>1, <1>2, Bounds DEF Numbers, Ordered, Stale, Tells, RestoreStart,
     StartAndWait, Fresh
<1>28. CASE RestoreRestart
  BY <1>28, <1>1, <1>2, Bounds DEF Numbers, Ordered, Stale, Tells, RestoreRestart,
     StartAndWait, Fresh
<1>29. CASE CleanedUp
  BY <1>29, <1>1, <1>2, Bounds DEF Numbers, Ordered, Stale, Tells, CleanedUp
<1>30. CASE CheckCoredump
  BY <1>30, <1>1, <1>2, Bounds DEF Numbers, Ordered, Stale, Tells, CheckCoredump
<1>31. CASE CheckCoredumpRaises
  BY <1>31, <1>1, <1>2, Bounds DEF Numbers, Ordered, Stale, Tells, CheckCoredumpRaises
<1>32. CASE AfterCrashReset
  BY <1>32, <1>1, <1>2, Bounds DEF Numbers, Ordered, Stale, Tells, AfterCrashReset,
     StartAndWait, Fresh
<1>33. CASE EmbedFaf
  BY <1>33, <1>1, <1>2, Bounds DEF Numbers, Ordered, Stale, Tells, EmbedFaf
<1>34. CASE CheckFafRaises
  BY <1>34, <1>1, <1>2, Bounds DEF Numbers, Ordered, Stale, Tells, CheckFafRaises
<1>35. CASE CheckAfterScenario
  BY <1>35, <1>1, <1>2, Bounds DEF Numbers, Ordered, Stale, Tells, CheckAfterScenario, Check
<1>36. CASE UNCHANGED vars
  BY <1>36, <1>1, <1>2, <1>3 DEF Tells, vars
<1>37. QED
  BY <1>10, <1>11, <1>12, <1>13, <1>14, <1>15, <1>16, <1>17, <1>18, <1>19, <1>20, <1>21,
     <1>22, <1>23, <1>24, <1>25, <1>26, <1>27, <1>28, <1>29, <1>30, <1>31, <1>32, <1>33,
     <1>34, <1>35, <1>36 DEF Next

LEMMA ExaminedKept ==
  ASSUME TypeOK, Examined, [Next]_vars
  PROVE  Examined'
<1>1. /\ OnDiskNow' => OnDiskNow \/ phase \notin {"last", "over", "broken"}
      /\ CheckCoredump => ~ OnDiskNow'
      /\ Reported' => Reported \/ crashed' # Nowhere
  BY Sighted
<1>2. crashed # Nowhere => crashed' # Nowhere
  BY CrashedSet, PlacesDiffer
<1>3. phase' \in {"last", "over"} /\ ~ CheckCoredump => phase \in {"last", "over"}
  BY DEF Next, vars, Crash, Revive, WriteDump, ReadPid, CheckBeforeScenario, BeforeStep, Ran,
         PlainStep, RestartNM, StartNM, StartNoWait, StopNM, KillNM, RestartInBackground,
         AnnounceRestart, AfterStep, AfterStepRaises, AfterScenario, RestoreStart, RestoreRestart,
         CleanedUp, CheckCoredumpRaises, AfterCrashReset, EmbedFaf, CheckFafRaises,
         CheckAfterScenario
<1>4. QED
  BY <1>1, <1>2, <1>3 DEF Examined

(* A step is blamed by the check behind it only. *)
LEMMA BlamedKept ==
  ASSUME TypeOK, Pending, BlamedStep, [Next]_vars
  PROVE  BlamedStep'
<1> SUFFICES ASSUME crashed'.at = "step"
             PROVE  \E i \in DOMAIN crashes' :
                      \/ crashes'[i].step = crashed'.step
                      \/ crashes'[i].step + 1 = crashed'.step /\ crashes'[i].during = "idle"
                      \/ crashes'[i].during = "tags"
  BY DEF BlamedStep
<1>1. /\ DOMAIN crashes \subseteq DOMAIN crashes'
      /\ \A i \in DOMAIN crashes : /\ crashes'[i].step = crashes[i].step
                                   /\ crashes'[i].during = crashes[i].during
  BY Remembered
<1>2. CASE crashed' = crashed
  BY <1>1, <1>2 DEF BlamedStep
<1>3. CASE crashed' # crashed
  <2>1. crashed' = Place("step") /\ crashed = Nowhere
    BY <1>3, CrashedSet, PlacesDiffer
  <2>2. AfterStep
    BY <1>3, <2>1, PlacesDiffer
       DEF Next, vars, Crash, Revive, WriteDump, ReadPid, CheckBeforeScenario, Check, BeforeStep,
           Ran, PlainStep, RestartNM, StartNM, StartNoWait, StopNM, KillNM, RestartInBackground,
           AnnounceRestart, AfterStepRaises, AfterScenario, RestoreStart, RestoreRestart,
           CleanedUp, CheckCoredump, EmbedDumps, CoredumpReport, CheckCoredumpRaises,
           AfterCrashReset, EmbedFaf, CheckFafRaises, CheckAfterScenario
  <2>3. phase = "ran" /\ window = 0 /\ pid # known
    BY <1>3, <2>2 DEF AfterStep, Check
  <2>4. StepBlamed
    BY <2>1, <2>3 DEF Pending
  <2>5. PICK i \in DOMAIN crashes : Blames(i, step)
    BY <2>4 DEF StepBlamed
  <2>6. crashed'.step = step
    BY <2>1, PlacesDiffer
  <2>7. QED
    BY <1>1, <2>5, <2>6 DEF Blames
<1>4. QED
  BY <1>2, <1>3

LEMMA CrashInvariant == Spec => []IInv
<1>1. ASSUME Init PROVE Quiet /\ Early /\ Stale /\ Pending /\ Ordered
  BY <1>1 DEF Init, Quiet, Early, Stale, Pending, Ordered, Nowhere
<1>2. ASSUME Init PROVE Tells /\ Examined /\ BlamedStep
  <2>1. crashes = <<>>
    BY <1>2 DEF Init
  <2>2. DOMAIN crashes = {}
    BY <2>1
  <2>3. crashed.at # "step"
    BY <1>2 DEF Init, Nowhere
  <2>4. QED
    BY <2>2, <2>3 DEF Tells, Examined, Unseen, OnDiskNow, Reported, BlamedStep
<1>3. TypeOK /\ Init => IInv
  BY <1>1, <1>2 DEF IInv
<1>4. TypeOK /\ TypeOK' /\ IInv /\ [Next]_vars => IInv'
  BY TypeParts, OrderedKept, QuietKept, EarlyKept, StaleKept, PendingKept, TellsKept,
     ExaminedKept, BlamedKept DEF IInv
<1>5. QED
  BY <1>3, <1>4, CrashTypeCorrect, PTL DEF Spec

-----------------------------------------------------------------------------
(* What CrashDetect promises. *)

(* check_crash raises no false alarm and blames the right step, whatever   *)
(* the scenario does to the service and systemd does beside it.            *)
THEOREM AlarmsRight == Spec => []AlarmRight
<1>1. IInv => AlarmRight
  <2> SUFFICES ASSUME IInv PROVE AlarmRight
    OBVIOUS
  <2>1. crashed # Nowhere => crashes # <<>>
    <3>1. crashed # Nowhere => DOMAIN crashes # {}
      BY DEF IInv, Quiet, Happened
    <3>2. crashes = <<>> => DOMAIN crashes = {}
      OBVIOUS
    <3>3. QED
      BY <3>1, <3>2
  <2>2. QED
    BY <2>1 DEF IInv, AlarmRight, NoFalseAlarm
<1>2. QED
  BY <1>1, CrashInvariant, PTL

(* A dump that check_coredump found has failed the scenario, and none that *)
(* was there is left out.                                                  *)
THEOREM DumpsNeverSilent == Spec => []DumpNeverSilent
<1>1. IInv => DumpNeverSilent
  BY DEF IInv, Examined, OnDiskNow, Reported, DumpNeverSilent
<1>2. QED
  BY <1>1, CrashInvariant, PTL

(* Where no restart was announced, the check behind a step sees a crash    *)
(* that came after the last operation of the step.                         *)
THEOREM CrashesNoticed == Spec => CrashNoticed
<1> DEFINE Notices ==
      \A i \in DOMAIN crashes :
        /\ Noticeable(i)
        /\ window = 0
        /\ \A j \in DOMAIN crashes : crashes[j].during # "tags"
        => crashed' # Nowhere
<1>1. IInv /\ [Next]_vars => [Notices]_vars
  <2> SUFFICES ASSUME IInv, [Next]_vars, NEW i \in DOMAIN crashes,
                      Noticeable(i), window = 0, ~ TagsCrash
               PROVE  crashed' # Nowhere
    BY DEF TagsCrash
  <2>1. Unseen
    BY DEF Noticeable, Unseen
  <2>2. ~ crashes[i].seen /\ crashes'[i].seen
    BY DEF Noticeable
  <2>3. CheckBeforeScenario \/ AfterStep \/ (AfterScenario /\ pid = 0)
    <3>1. CASE \E dump \in {"none", "coming"} : Crash(dump)
      <4>1. \A dump \in {"none", "coming"} : dump \in Dump
        BY DEF Dump
      <4>2. QED
        BY <2>2, <3>1, <4>1, CrashAppends DEF IInv
    <3>2. CASE \E k \in DOMAIN crashes : WriteDump(k)
      BY <2>2, <3>2, WriteDumpSame DEF IInv
    <3>3. CASE CheckCoredump \/ CheckCoredumpRaises
      BY <2>2, <3>3, EmbedDumpsSame DEF IInv, CheckCoredump, CheckCoredumpRaises
    <3>4. QED
      BY <2>2, <3>1, <3>2, <3>3
         DEF Next, vars, AfterScenario, Revive, ReadPid, BeforeStep, Ran, PlainStep, RestartNM,
             StartNM, StartNoWait, StopNM, KillNM, RestartInBackground, AnnounceRestart,
             AfterStepRaises, RestoreStart, RestoreRestart, CleanedUp, AfterCrashReset, EmbedFaf,
             CheckFafRaises, CheckAfterScenario
  <2>4. pid # known /\ \E at0 \in {"before", "step", "last_step"} : Check(at0)
    BY <2>1, <2>3 DEF IInv, Tells, CheckBeforeScenario, AfterStep, AfterScenario
  <2>5. QED
    BY <2>4, PlacesDiffer DEF Check
<1>2. QED
  BY <1>1, CrashInvariant, PTL DEF Spec, CrashNoticed

-----------------------------------------------------------------------------
(* FafReports: the reports of FAF beside all that. *)

(* To the state of CrashDetect, every step that abrt and check_faf make is *)
(* a step of CrashDetect or none.                                          *)
THEOREM FafImplements == FafSpec => Spec
<1>1. FafInit => Init
  BY DEF FafInit
<1>2. [FafNext]_allVars => [Next]_vars
  <2> SUFFICES ASSUME [FafNext]_allVars PROVE Next \/ UNCHANGED vars
    OBVIOUS
  <2>1. CASE Around
    BY <2>1 DEF Around, Next
  <2>2. CASE FileVanishes \/ EmbedRaises
    BY <2>2 DEF FileVanishes, EmbedRaises, Next
  <2>3. CASE JournalPaused \/ Embeds
    BY <2>3 DEF JournalPaused, Embeds, Next
  <2>4. QED
    BY <2>1, <2>2, <2>3
       DEF FafNext, allVars, AbrtOpens, AbrtStamps, AbrtMerges, Abrt, Silently, ListDirs, EnterDir,
           FafDone, WentAway, AlreadyReported, OtherPackage, JournalBegun, JournalSilent, Complete,
           TimedOut
<1>3. QED
  BY <1>1, <1>2, PTL DEF FafSpec, Spec

(* Where check_faf is tells what it knows of the directory.                *)
AtDir ==
  /\ at \in {"wait", "ours", "embed"} => dir \in Dir
  /\ at \in {"ours", "embed"} => dir \in Own

(* What is about to be embedded was not embedded before, ...               *)
Unreported == at = "embed" => ~ IsReported(Occurrence(dir))

(* ... and stays so while abrt writes: it only ever dates a directory on.  *)
Dated == \A k \in DOMAIN reported : reported[k][2] <= last[reported[k][1]]

FafInv == FafTypeOK /\ AtDir /\ Unreported /\ Dated /\ EmbeddedOnce /\ ReportFails

LEMMA FafBounds ==
  /\ MaxCrashes \in Nat /\ None = 0 /\ None \notin Dir
  /\ \A d \in Own : d \in Dir /\ d \in 0 .. MaxCrashes /\ d # 0
  /\ \A d \in 0 .. MaxCrashes : d # 0 => d \in Own
  /\ \A d \in Foreign : d \in Dir /\ d \notin Own
  /\ \A d \in Dir : d \in Own \/ d \in Foreign
BY Bounds, FafAssumption DEF FafAssumption, Own, Dir, None

(* A line names a directory and a crash, both of them real.                *)
LEMMA LineParts ==
  ASSUME FafTypeOK, NEW k \in DOMAIN reported
  PROVE  /\ reported[k] = <<reported[k][1], reported[k][2]>>
         /\ reported[k][1] \in Own /\ reported[k][2] \in Own
<1>1. reported \in Seq(Own \X Own)
  BY DEF FafTypeOK
<1>2. DOMAIN reported = 1 .. Len(reported)
  BY <1>1, LenProperties
<1>3. reported[k] \in Own \X Own
  BY <1>1, <1>2, ElementOfSeq
<1>4. QED
  BY <1>3

(* What a directory without the file last_occurrence would be filed under  *)
(* is no line of the file.                                                 *)
LEMMA UndatedUnreported ==
  ASSUME FafTypeOK, NEW d, last[d] = 0
  PROVE  ~ IsReported(Occurrence(d))
<1> SUFFICES ASSUME NEW k \in DOMAIN reported, reported[k] = Occurrence(d) PROVE FALSE
  BY DEF IsReported
<1>1. reported[k][2] # 0
  BY LineParts, FafBounds
<1>2. QED
  BY <1>1 DEF Occurrence

(* abrt dates a directory later than any line of it.                       *)
LEMMA AbrtDates ==
  ASSUME FafTypeOK, Dated,
         NEW d \in Own, NEW n \in Own, last[d] < n,
         last' = [last EXCEPT ![d] = n], reported' = reported
  PROVE  /\ Dated'
         /\ \A e \in Dir : ~ IsReported(Occurrence(e)) => ~ IsReported(Occurrence(e))'
<1>1. /\ last \in [Dir -> 0 .. MaxCrashes]
      /\ d \in Dir /\ n \in 0 .. MaxCrashes /\ n \in Nat
  BY FafBounds DEF FafTypeOK
<1>2. \A e \in Dir : last[e] \in 0 .. MaxCrashes /\ last'[e] = IF e = d THEN n ELSE last[e]
  BY <1>1
<1>3. \A k \in DOMAIN reported :
        /\ reported[k][1] \in Dir /\ reported[k][2] \in 0 .. MaxCrashes
        /\ reported[k][2] <= last[reported[k][1]]
  BY LineParts, FafBounds DEF Dated
<1>4. Dated'
  <2> SUFFICES ASSUME NEW k \in DOMAIN reported
               PROVE  reported[k][2] <= last'[reported[k][1]]
    BY DEF Dated
  <2> DEFINE e == reported[k][1]
             was == last[e]
  <2>1. e \in Dir /\ reported[k][2] \in 0 .. MaxCrashes /\ reported[k][2] <= was
    BY <1>3
  <2>2. was \in 0 .. MaxCrashes /\ last'[e] \in {was, n} /\ was <= last'[e]
    <3>1. CASE e = d
      BY <1>1, <1>2, <2>1, <3>1, FafBounds
    <3>2. CASE e # d
      <4>1. last'[e] = was /\ was \in 0 .. MaxCrashes
        BY <1>2, <2>1, <3>2
      <4> HIDE DEF was
      <4>2. was <= was
        BY <4>1, FafBounds
      <4>3. QED
        BY <4>1, <4>2
    <3>3. QED
      BY <3>1, <3>2
  <2> HIDE DEF e, was
  <2>3. reported[k][2] <= last'[e]
    BY <1>1, <2>1, <2>2, FafBounds
  <2>4. QED
    BY <2>3 DEF e
<1>5. ASSUME NEW e \in Dir, ~ IsReported(Occurrence(e))
      PROVE  ~ IsReported(Occurrence(e))'
  <2>1. CASE e # d
    BY <1>2, <1>5, <2>1 DEF IsReported, Occurrence
  <2>2. CASE e = d
    <3> SUFFICES ASSUME NEW k \in DOMAIN reported, reported[k] = <<d, n>> PROVE FALSE
      BY <1>2, <2>2 DEF IsReported, Occurrence
    <3>1. reported[k][1] = d /\ reported[k][2] = n
      OBVIOUS
    <3>2. n <= last[d]
      BY <1>3, <3>1
    <3>3. QED
      BY <1>1, <1>2, <3>2, FafBounds
  <2>3. QED
    BY <2>1, <2>2
<1>6. QED
  BY <1>4, <1>5

(* An occurrence that was not embedded yet makes a new line.               *)
LEMMA EmbedsNew ==
  ASSUME FafInv, Embeds, [Next]_vars
  PROVE  FafInv'
<1> DEFINE line == Occurrence(dir)
           new == Len(reported) + 1
<1>1. /\ FafTypeOK /\ Dated /\ EmbeddedOnce
      /\ dir \in Own /\ dir \in Dir /\ last[dir] # 0 /\ ~ IsReported(line)
      /\ reported' = Append(reported, line)
      /\ spool' = spool /\ last' = last /\ todo' = todo /\ dir' = dir /\ at' = "next"
  BY FafBounds DEF FafInv, AtDir, Unreported, Embeds, Faf, abrt
<1>2. last[dir] \in 0 .. MaxCrashes
  BY <1>1 DEF FafTypeOK
<1>3. last[dir] \in Own
  BY <1>1, <1>2, FafBounds
<1>4. line \in Own \X Own /\ line[1] = dir /\ line[2] = last[dir]
  BY <1>1, <1>3 DEF Occurrence
<1>5. reported \in Seq(Own \X Own)
  BY <1>1 DEF FafTypeOK
<1>6. \A k \in DOMAIN reported : reported[k] # line
  BY <1>1 DEF IsReported
<1> HIDE DEF line
<1>7. /\ reported' \in Seq(Own \X Own)
      /\ DOMAIN reported' = DOMAIN reported \cup {new}
      /\ new \notin DOMAIN reported
      /\ reported'[new] = line
      /\ \A k \in DOMAIN reported : reported'[k] = reported[k]
  BY <1>1, <1>4, <1>5, Grown
<1> HIDE DEF new
<1>8. FafTypeOK'
  BY <1>1, <1>7 DEF FafTypeOK, At
<1>9. EmbeddedOnce'
  BY <1>1, <1>6, <1>7 DEF EmbeddedOnce
<1>10. Dated'
  <2>1. last[dir] <= last[dir]
    BY <1>2, FafBounds
  <2>2. QED
    BY <1>1, <1>4, <1>7, <2>1 DEF Dated
<1>11. ReportFails'
  BY PlacesDiffer DEF Embeds, EmbedFaf, CoredumpReport, ReportFails
<1>12. QED
  BY <1>1, <1>8, <1>9, <1>10, <1>11 DEF FafInv, AtDir, Unreported

(* abrt goes on while check_faf looks at a directory.                      *)
LEMMA AbrtKeeps ==
  ASSUME FafInv,
         \/ \E d \in Dir : AbrtOpens(d)
         \/ \E i \in Own : AbrtStamps(i)
         \/ \E i, j \in Own : AbrtMerges(i, j)
  PROVE  FafInv'
<1>1. /\ FafTypeOK /\ AtDir /\ Unreported /\ Dated /\ EmbeddedOnce /\ ReportFails
      /\ reported' = reported /\ crashed' = crashed
      /\ at' = at /\ todo' = todo /\ dir' = dir
  BY DEF FafInv, AbrtOpens, AbrtStamps, AbrtMerges, Abrt, loop, vars
<1>2. CASE \E d \in Dir : AbrtOpens(d)
  <2>1. /\ last' = last
        /\ spool' \in [Dir -> {"none", "open", "gone"}]
    BY <1>1, <1>2 DEF AbrtOpens, FafTypeOK
  <2>2. QED
    BY <1>1, <2>1
       DEF FafInv, FafTypeOK, AtDir, Unreported, IsReported, Occurrence, Dated, EmbeddedOnce,
           ReportFails
<1>3. ASSUME NEW d \in Own, NEW n \in Own, last[d] < n, last' = [last EXCEPT ![d] = n],
             spool' \in [Dir -> {"none", "open", "gone"}]
      PROVE  FafInv'
  <2>1. /\ Dated'
        /\ \A e \in Dir : ~ IsReported(Occurrence(e)) => ~ IsReported(Occurrence(e))'
    BY <1>1, <1>3, AbrtDates
  <2>2. last' \in [Dir -> 0 .. MaxCrashes]
    BY <1>1, <1>3, FafBounds DEF FafTypeOK
  <2>3. Unreported'
    BY <1>1, <2>1, FafBounds DEF Unreported, AtDir, IsReported, Occurrence
  <2>4. QED
    BY <1>1, <1>3, <2>1, <2>2, <2>3 DEF FafInv, FafTypeOK, AtDir, EmbeddedOnce, ReportFails
<1>4. CASE \E i \in Own : AbrtStamps(i)
  <2>1. PICK i \in Own : AbrtStamps(i)
    BY <1>4
  <2>2. last[i] < i
    BY <2>1, FafBounds DEF AbrtStamps
  <2>3. QED
    BY <1>1, <1>3, <2>1, <2>2 DEF AbrtStamps, FafTypeOK
<1>5. CASE \E i, j \in Own : AbrtMerges(i, j)
  <2>1. PICK i \in Own, j \in Own : AbrtMerges(i, j)
    BY <1>5
  <2>2. last[j] < i
    BY <2>1, FafBounds DEF AbrtMerges
  <2>3. spool' \in [Dir -> {"none", "open", "gone"}]
    BY <1>1, <2>1 DEF AbrtMerges, FafTypeOK
  <2>4. QED
    BY <1>3, <2>1, <2>2, <2>3 DEF AbrtMerges
<1>6. QED
  BY <1>2, <1>4, <1>5

(* The steps of check_faf that embed nothing leave abrt's state alone and  *)
(* enter "embed" only with a directory that is new to them.                *)
LEMMA LoopKeeps ==
  ASSUME FafInv, [Next]_vars, [FafNext]_allVars,
         spool' = spool, last' = last, reported' = reported
  PROVE  FafInv'
<1>1. FafTypeOK /\ AtDir /\ Unreported /\ Dated /\ EmbeddedOnce /\ ReportFails
  BY DEF FafInv
<1>2. Dated' /\ EmbeddedOnce' /\ ReportFails'
  <2>1. crashed # Nowhere => crashed' # Nowhere
    BY CrashedSet, PlacesDiffer
  <2>2. QED
    BY <1>1, <2>1 DEF Dated, EmbeddedOnce, ReportFails
<1>3. last[dir] = 0 => ~ IsReported(Occurrence(dir))
  BY <1>1, UndatedUnreported
<1>4. Unreported' <=> (at' = "embed" => ~ IsReported(Occurrence(dir')))
  BY DEF Unreported, IsReported, Occurrence
<1>5. at' \in At /\ todo' \subseteq Dir /\ dir' \in Dir \cup {None} /\ AtDir' /\ Unreported'
  <2>1. CASE Around /\ UNCHANGED fafVars
    BY <1>1, <1>4, <2>1 DEF FafTypeOK, AtDir, Unreported, fafVars, loop
  <2>2. CASE UNCHANGED allVars
    BY <1>1, <1>4, <2>2 DEF FafTypeOK, AtDir, Unreported, allVars, fafVars, loop
  <2>3. CASE at' = at /\ todo' = todo /\ dir' = dir
    BY <1>1, <1>4, <2>3 DEF FafTypeOK, AtDir, Unreported
  <2>4. CASE ListDirs \/ FafDone
    BY <1>1, <1>4, <2>4, FafBounds DEF FafTypeOK, AtDir, At, ListDirs, FafDone
  <2>5. CASE \E d \in todo : EnterDir(d)
    BY <1>1, <1>4, <2>5, FafBounds DEF FafTypeOK, AtDir, At, EnterDir
  <2>6. CASE WentAway \/ FileVanishes \/ AlreadyReported \/ OtherPackage
    BY <1>1, <1>4, <2>6
       DEF FafTypeOK, AtDir, At, WentAway, FileVanishes, AlreadyReported, OtherPackage,
           KnowsPackage, Waits
  <2>7. CASE JournalPaused \/ JournalBegun
    BY <1>1, <1>4, <2>7, FafBounds
       DEF FafTypeOK, AtDir, At, JournalPaused, JournalBegun, KnowsPackage, Waits
  <2>8. CASE JournalSilent \/ Complete
    BY <1>1, <1>3, <1>4, <2>8, FafBounds
       DEF FafTypeOK, AtDir, At, JournalSilent, Complete, KnowsPackage, Waits, AlreadyTold
  <2>9. CASE TimedOut
    BY <1>1, <1>3, <1>4, <2>9, FafBounds DEF FafTypeOK, AtDir, At, TimedOut, Waits, AlreadyTold
  <2>10. CASE EmbedRaises
    BY <1>1, <1>4, <2>10 DEF FafTypeOK, AtDir, At, EmbedRaises
  <2>11. CASE Embeds
    BY <1>1, <1>4, <2>11 DEF FafTypeOK, AtDir, At, Embeds
  <2>12. QED
    BY <2>1, <2>2, <2>3, <2>4, <2>5, <2>6, <2>7, <2>8, <2>9, <2>10, <2>11
       DEF FafNext, AbrtOpens, AbrtStamps, AbrtMerges, Abrt, loop
<1>6. QED
  BY <1>1, <1>2, <1>5 DEF FafInv, FafTypeOK

LEMMA FafInvariant == FafSpec => []FafInv
<1>1. FafInit => FafInv
  <2> SUFFICES ASSUME FafInit PROVE FafInv
    OBVIOUS
  <2>1. reported = <<>> /\ DOMAIN reported = {} /\ reported \in Seq(Own \X Own)
    BY EmptySeq DEF FafInit
  <2>2. FafTypeOK
    BY <2>1, FafBounds DEF FafInit, FafTypeOK, At
  <2>3. QED
    BY <2>1, <2>2 DEF FafInit, FafInv, AtDir, Unreported, Dated, EmbeddedOnce, ReportFails
<1>2. FafInv /\ [Next]_vars /\ [FafNext]_allVars => FafInv'
  <2> SUFFICES ASSUME FafInv, [Next]_vars, [FafNext]_allVars PROVE FafInv'
    OBVIOUS
  <2>1. CASE \/ \E d \in Dir : AbrtOpens(d)
             \/ \E i \in Own : AbrtStamps(i)
             \/ \E i, j \in Own : AbrtMerges(i, j)
    BY <2>1, AbrtKeeps
  <2>2. CASE Embeds
    BY <2>2, EmbedsNew
  <2>3. CASE spool' = spool /\ last' = last /\ reported' = reported
    BY <2>3, LoopKeeps
  <2>4. QED
    BY <2>1, <2>2, <2>3
       DEF FafNext, allVars, fafVars, abrt, Faf, Silently, ListDirs, EnterDir, FafDone, Waits,
           WentAway, FileVanishes, AlreadyReported, KnowsPackage, OtherPackage, JournalPaused,
           JournalBegun, JournalSilent, Complete, TimedOut, EmbedRaises
<1>3. QED
  BY <1>1, <1>2, FafImplements, PTL DEF FafSpec, Spec

-----------------------------------------------------------------------------
(* What the crash detection promises with FAF beside it: the properties of *)
(* the run over FafReports.                                                *)

(* No dump and no report goes untold, and no occurrence is embedded twice, *)
(* however abrt writes, merges and deletes its directories meanwhile.      *)
THEOREM DumpsAreToldOnce == FafSpec => []DumpsToldOnce
<1>1. FafInv /\ DumpNeverSilent => DumpsToldOnce
  BY DEF FafInv, DumpsToldOnce
<1>2. QED
  BY <1>1, FafInvariant, FafImplements, DumpsNeverSilent, PTL

(* Neither the reset of NetworkManager that check_faf makes nor the report *)
(* it embeds raises a false alarm or blames a step that is not to blame.   *)
THEOREM AlarmsRightWithFaf == FafSpec => []AlarmRight
BY FafImplements, AlarmsRight, PTL

(* The check behind a step sees the crash that came after its operations.  *)
THEOREM CrashesNoticedWithFaf == FafSpec => CrashNoticed
BY FafImplements, CrashesNoticed, PTL
=============================================================================
