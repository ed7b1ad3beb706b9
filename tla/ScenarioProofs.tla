--------------------------- MODULE ScenarioProofs ---------------------------
(***************************************************************************)
(* Proofs about Scenario: the verdict on a scenario, the skip flag and the *)
(* emptied registry, for any kinds of restorations and however many        *)
(* scenarios and steps.                                                    *)
(***************************************************************************)
EXTENDS Scenario, TLAPS

(* What went wrong counts against the scenario, except for what the tag    *)
(* @cleanup drops and what is left to be found later.                      *)
Faulty(W) == W \ {"dropped", "late"} # {}

Bad == "bad" \in spawned

(* The numbers of a scenario.                                              *)
Numbered ==
  /\ n \in 0 .. MaxScenarios
  /\ phase # "between" => n >= 1
  /\ step \in 0 .. MaxSteps
  /\ count \in Int /\ - step <= count /\ count <= 1
  /\ phase = "step" => 1 - step <= count

(* The count that excuses a failing step is 1 behind the marker step only. *)
Excused == phase \in {"host", "tags", "idle", "step"} => (count = 1 <=> marked)

(* Up to the end of the steps: whatever went wrong is still to be seen in  *)
(* a variable that the hooks will look at.                                 *)
Begun ==
  /\ phase = "refused" => failed /\ Faulty(wrong)
  /\ phase = "host" => ~ failed /\ ~ excepts /\ ~ crashed /\ (Faulty(wrong) <=> Bad)
  /\ phase = "tags" => ~ failed /\ ~ crashed /\ (Faulty(wrong) <=> excepts \/ Bad)
  /\ phase \in {"idle", "step"} =>
       ~ failed /\ ~ excepts /\ (Faulty(wrong) <=> crashed \/ Bad)
  /\ phase = "idle" => ~ Bad

(* From there on.                                                          *)
Ending ==
  /\ phase = "ended" => ~ excepts /\ (Faulty(wrong) <=> failed \/ crashed \/ Bad)
  /\ phase \in {"after", "checks", "conclude"} =>
       Faulty(wrong) <=> failed \/ crashed \/ excepts \/ (skipped /\ ~ was)

(* The skip flag and behave's own mark go together, except in a scenario   *)
(* that has failed.                                                        *)
Skipping ==
  /\ phase \in {"host", "idle", "step"} => ~ skipped /\ ~ told
  /\ phase = "tags" => (skipped <=> told)
  /\ phase \in {"ended", "after", "checks", "conclude"} => failed \/ (skipped <=> told)
  /\ phase \in {"after", "checks", "conclude"} /\ was => skipped

(* What the registry holds.                                                *)
Held ==
  /\ phase \in {"between", "refused", "conclude"} /\ lst # {} => reset # {}
  /\ phase \in {"host", "checks"} => lst = {}
  /\ phase = "ended" /\ Bad => lst = {}

IInv ==
  /\ TypeOK /\ Numbered /\ Excused /\ Begun /\ Ending /\ Skipping /\ Held
  /\ FailureCounts /\ BlamesOwn /\ FlagTellsSkip

-----------------------------------------------------------------------------
(* What counts, when more goes wrong.                                      *)

LEMMA FaultyUnion == \A V, W : Faulty(V \cup W) <=> Faulty(V) \/ Faulty(W)
BY DEF Faulty

LEMMA FaultyOf ==
  /\ ~ Faulty({})
  /\ \A w : Faulty({w}) <=> w \notin {"dropped", "late"}
BY DEF Faulty

(* check_crash.                                                            *)
LEMMA CrashCounts ==
  CheckCrash => \/ (crashed' <=> crashed) /\ (Faulty(wrong)' <=> Faulty(wrong))
                \/ crashed' /\ Faulty(wrong)'
<1>1. CASE UNCHANGED <<crashed, wrong>>
  BY <1>1
<1>2. CASE crashed' = TRUE /\ wrong' = wrong \cup {"crash"}
  BY <1>2, FaultyUnion, FaultyOf
<1>3. QED
  BY <1>1, <1>2 DEF CheckCrash

LEMMA Bounds == MaxScenarios \in Nat /\ MaxSteps \in Nat /\ Kinds \subseteq AnyKind
BY ScenarioAssumption DEF ScenarioAssumption

-----------------------------------------------------------------------------
(* Each part of the invariant is kept by every step.                       *)

LEMMA NumberedKept ==
  ASSUME Numbered, [Next]_vars
  PROVE  Numbered'
<1>1. CASE Begin
  BY <1>1, Bounds DEF Numbered, Begin, Fresh, Inherited, now, flags, hist
<1>2. CASE Refuse
  BY <1>2, Bounds DEF Numbered, Refuse, Fresh, Inherited, now, flags, hist
<1>3. CASE AfterRefused
  BY <1>3, Bounds DEF Numbered, AfterRefused, Verdict, now, flags, hist
<1>4. CASE PrepareHost
  BY <1>4, Bounds DEF Numbered, PrepareHost, now, flags, hist
<1>5. CASE HostRaises
  BY <1>5, Bounds DEF Numbered, HostRaises, now, flags, hist
<1>6. CASE \E kind \in Kinds : Register(kind)
  BY <1>6, Bounds DEF Numbered, Register, now, flags, hist
<1>7. CASE \E result \in {"good", "bad"} : Spawn(result)
  BY <1>7, Bounds DEF Numbered, Spawn, now, flags, hist
<1>8. CASE TagFails
  BY <1>8, Bounds DEF Numbered, TagFails, now, flags, hist
<1>9. CASE TagSkips
  BY <1>9, Bounds DEF Numbered, TagSkips, now, flags, hist
<1>10. CASE TagsDone
  BY <1>10, Bounds DEF Numbered, TagsDone, CheckCrash, now, flags, hist
<1>11. CASE BeforeStep
  BY <1>11, Bounds DEF Numbered, BeforeStep, now, flags, hist
<1>12. CASE MarkerStep
  BY <1>12, Bounds DEF Numbered, MarkerStep, Reaped, CheckCrash, now, flags, hist
<1>13. CASE StepPasses
  BY <1>13, Bounds DEF Numbered, StepPasses, Reaped, CheckCrash, now, flags, hist
<1>14. CASE StepFails
  BY <1>14, Bounds DEF Numbered, StepFails, Reaped, now, flags, hist
<1>15. CASE StepSkips
  BY <1>15, Bounds DEF Numbered, StepSkips, Reaped, CheckCrash, now, flags, hist
<1>16. CASE StepRaises
  BY <1>16, Bounds DEF Numbered, StepRaises, now, flags, hist
<1>17. CASE StepsEnd
  BY <1>17, Bounds DEF Numbered, StepsEnd, now, flags, hist
<1>18. CASE AfterScenario
  BY <1>18, Bounds DEF Numbered, AfterScenario, CheckCrash, now, flags, hist
<1>19. CASE AfterScenarioRaises
  BY <1>19, Bounds DEF Numbered, AfterScenarioRaises, Verdict, now, flags, hist
<1>20. CASE RestoreOwn
  BY <1>20, Bounds DEF Numbered, RestoreOwn, Turn, now, flags, hist
<1>21. CASE RestoreOwnFails
  BY <1>21, Bounds DEF Numbered, RestoreOwnFails, Turn, now, flags, hist
<1>22. CASE RestoreOwnSkips
  BY <1>22, Bounds DEF Numbered, RestoreOwnSkips, Turn, now, flags, hist
<1>23. CASE \E result \in {"good", "bad"} : RestoreSysctl(result)
  BY <1>23, Bounds DEF Numbered, RestoreSysctl, Turn, now, flags, hist
<1>24. CASE Drain
  BY <1>24, Bounds DEF Numbered, Drain, Turn, now, flags, hist
<1>25. CASE CleanupDone
  BY <1>25, Bounds DEF Numbered, CleanupDone, now, flags, hist
<1>26. CASE \E dump, faf, pidChanged, fafReset \in BOOLEAN : Examine(dump, faf, pidChanged, fafReset)
  BY <1>26, Bounds DEF Numbered, Examine, now, flags, hist
<1>27. CASE ExamineRaises
  BY <1>27, Bounds DEF Numbered, ExamineRaises, Verdict, now, flags, hist
<1>28. CASE EvidenceFails
  BY <1>28, Bounds DEF Numbered, EvidenceFails, now, flags, hist
<1>29. CASE Conclude
  BY <1>29, Bounds DEF Numbered, Conclude, Verdict, now, flags, hist
<1>30. CASE UNCHANGED vars
  BY <1>30, Bounds DEF Numbered, vars, now, flags, hist
<1>31. QED
  BY <1>1, <1>2, <1>3, <1>4, <1>5, <1>6, <1>7, <1>8, <1>9, <1>10, <1>11, <1>12, <1>13, <1>14,
     <1>15, <1>16, <1>17, <1>18, <1>19, <1>20, <1>21, <1>22, <1>23, <1>24, <1>25, <1>26, <1>27,
     <1>28, <1>29, <1>30 DEF Next

LEMMA ExcusedKept ==
  ASSUME Numbered, Excused, [Next]_vars
  PROVE  Excused'
<1>1. CASE Begin
  BY <1>1 DEF Excused, Begin, Fresh, Inherited, now, flags, hist
<1>2. CASE Refuse
  BY <1>2 DEF Excused, Refuse, Fresh, Inherited, now, flags, hist
<1>3. CASE AfterRefused
  BY <1>3 DEF Excused, AfterRefused, Verdict, now, flags, hist
<1>4. CASE PrepareHost
  BY <1>4 DEF Excused, PrepareHost, now, flags, hist
<1>5. CASE HostRaises
  BY <1>5 DEF Excused, HostRaises, now, flags, hist
<1>6. CASE \E kind \in Kinds : Register(kind)
  BY <1>6 DEF Excused, Register, now, flags, hist
<1>7. CASE \E result \in {"good", "bad"} : Spawn(result)
  BY <1>7 DEF Excused, Spawn, now, flags, hist
<1>8. CASE TagFails
  BY <1>8 DEF Excused, TagFails, now, flags, hist
<1>9. CASE TagSkips
  BY <1>9 DEF Excused, TagSkips, now, flags, hist
<1>10. CASE TagsDone
  BY <1>10 DEF Excused, TagsDone, CheckCrash, now, flags, hist
<1>11. CASE BeforeStep
  BY <1>11 DEF Excused, BeforeStep, now, flags, hist
<1>12. CASE MarkerStep
  BY <1>12 DEF Excused, MarkerStep, Reaped, CheckCrash, now, flags, hist
<1>13. CASE StepPasses
  BY <1>13 DEF Numbered, Excused, StepPasses, Reaped, CheckCrash, now, flags, hist
<1>14. CASE StepFails
  BY <1>14 DEF Excused, StepFails, Reaped, now, flags, hist
<1>15. CASE StepSkips
  BY <1>15 DEF Excused, StepSkips, Reaped, CheckCrash, now, flags, hist
<1>16. CASE StepRaises
  BY <1>16 DEF Excused, StepRaises, now, flags, hist
<1>17. CASE StepsEnd
  BY <1>17 DEF Excused, StepsEnd, now, flags, hist
<1>18. CASE AfterScenario
  BY <1>18 DEF Excused, AfterScenario, CheckCrash, now, flags, hist
<1>19. CASE AfterScenarioRaises
  BY <1>19 DEF Excused, AfterScenarioRaises, Verdict, now, flags, hist
<1>20. CASE RestoreOwn
  BY <1>20 DEF Excused, RestoreOwn, Turn, now, flags, hist
<1>21. CASE RestoreOwnFails
  BY <1>21 DEF Excused, RestoreOwnFails, Turn, now, flags, hist
<1>22. CASE RestoreOwnSkips
  BY <1>22 DEF Excused, RestoreOwnSkips, Turn, now, flags, hist
<1>23. CASE \E result \in {"good", "bad"} : RestoreSysctl(result)
  BY <1>23 DEF Excused, RestoreSysctl, Turn, now, flags, hist
<1>24. CASE Drain
  BY <1>24 DEF Excused, Drain, Turn, now, flags, hist
<1>25. CASE CleanupDone
  BY <1>25 DEF Excused, CleanupDone, now, flags, hist
<1>26. CASE \E dump, faf, pidChanged, fafReset \in BOOLEAN : Examine(dump, faf, pidChanged, fafReset)
  BY <1>26 DEF Excused, Examine, now, flags, hist
<1>27. CASE ExamineRaises
  BY <1>27 DEF Excused, ExamineRaises, Verdict, now, flags, hist
<1>28. CASE EvidenceFails
  BY <1>28 DEF Excused, EvidenceFails, now, flags, hist
<1>29. CASE Conclude
  BY <1>29 DEF Excused, Conclude, Verdict, now, flags, hist
<1>30. CASE UNCHANGED vars
  BY <1>30 DEF Excused, vars, now, flags, hist
<1>31. QED
  BY <1>1, <1>2, <1>3, <1>4, <1>5, <1>6, <1>7, <1>8, <1>9, <1>10, <1>11, <1>12, <1>13, <1>14,
     <1>15, <1>16, <1>17, <1>18, <1>19, <1>20, <1>21, <1>22, <1>23, <1>24, <1>25, <1>26, <1>27,
     <1>28, <1>29, <1>30 DEF Next

LEMMA HeldKept ==
  ASSUME TypeOK, Begun, Held, [Next]_vars
  PROVE  Held'
<1>1. CASE Begin
  BY <1>1 DEF Held, Bad, Begin, Fresh, Inherited, now, flags, hist
<1>2. CASE Refuse
  BY <1>2 DEF Held, Bad, Refuse, Fresh, Inherited, now, flags, hist
<1>3. CASE AfterRefused
  BY <1>3 DEF Held, Bad, AfterRefused, Verdict, now, flags, hist
<1>4. CASE PrepareHost
  BY <1>4 DEF Held, Bad, PrepareHost, now, flags, hist
<1>5. CASE HostRaises
  BY <1>5 DEF Held, Bad, HostRaises, now, flags, hist
<1>6. CASE \E kind \in Kinds : Register(kind)
  BY <1>6 DEF Held, Bad, Register, now, flags, hist
<1>7. CASE \E result \in {"good", "bad"} : Spawn(result)
  BY <1>7 DEF Held, Bad, Spawn, now, flags, hist
<1>8. CASE TagFails
  BY <1>8 DEF Held, Bad, TagFails, now, flags, hist
<1>9. CASE TagSkips
  BY <1>9 DEF Held, Bad, TagSkips, now, flags, hist
<1>10. CASE TagsDone
  BY <1>10 DEF Held, Bad, TagsDone, CheckCrash, now, flags, hist
<1>11. CASE BeforeStep
  BY <1>11 DEF Held, Bad, BeforeStep, now, flags, hist
<1>12. CASE MarkerStep
  BY <1>12 DEF Held, Bad, MarkerStep, Reaped, CheckCrash, now, flags, hist
<1>13. CASE StepPasses
  BY <1>13 DEF Held, Bad, StepPasses, Reaped, CheckCrash, now, flags, hist
<1>14. CASE StepFails
  BY <1>14 DEF Held, Bad, StepFails, Reaped, now, flags, hist
<1>15. CASE StepSkips
  BY <1>15 DEF Held, Bad, StepSkips, Reaped, CheckCrash, now, flags, hist
<1>16. CASE StepRaises
  BY <1>16 DEF Held, Bad, StepRaises, now, flags, hist
<1>17. CASE StepsEnd
  BY <1>17 DEF Begun, Held, Bad, StepsEnd, now, flags, hist
<1>18. CASE AfterScenario
  BY <1>18 DEF Held, Bad, AfterScenario, CheckCrash, now, flags, hist
<1>19. CASE AfterScenarioRaises
  BY <1>19 DEF Held, Bad, AfterScenarioRaises, Verdict, now, flags, hist
<1>20. CASE RestoreOwn
  BY <1>20 DEF Held, Bad, RestoreOwn, Turn, now, flags, hist
<1>21. CASE RestoreOwnFails
  BY <1>21 DEF Held, Bad, RestoreOwnFails, Turn, now, flags, hist
<1>22. CASE RestoreOwnSkips
  BY <1>22 DEF Held, Bad, RestoreOwnSkips, Turn, now, flags, hist
<1>23. CASE \E result \in {"good", "bad"} : RestoreSysctl(result)
  BY <1>23 DEF Held, Bad, RestoreSysctl, Turn, now, flags, hist
<1>24. CASE Drain
  BY <1>24 DEF Held, Bad, Drain, Turn, now, flags, hist
<1>25. CASE CleanupDone
  BY <1>25 DEF Held, Bad, CleanupDone, now, flags, hist
<1>26. CASE \E dump, faf, pidChanged, fafReset \in BOOLEAN : Examine(dump, faf, pidChanged, fafReset)
  BY <1>26 DEF Held, Bad, Examine, now, flags, hist
<1>27. CASE ExamineRaises
  BY <1>27 DEF Held, Bad, ExamineRaises, Verdict, now, flags, hist
<1>28. CASE EvidenceFails
  BY <1>28 DEF Held, Bad, EvidenceFails, now, flags, hist
<1>29. CASE Conclude
  BY <1>29 DEF Held, Bad, Conclude, Verdict, now, flags, hist
<1>30. CASE UNCHANGED vars
  BY <1>30 DEF Held, Bad, vars, now, flags, hist
<1>31. QED
  BY <1>1, <1>2, <1>3, <1>4, <1>5, <1>6, <1>7, <1>8, <1>9, <1>10, <1>11, <1>12, <1>13, <1>14,
     <1>15, <1>16, <1>17, <1>18, <1>19, <1>20, <1>21, <1>22, <1>23, <1>24, <1>25, <1>26, <1>27,
     <1>28, <1>29, <1>30 DEF Next

LEMMA SkippingKept ==
  ASSUME TypeOK, Begun, Ending, Skipping, [Next]_vars
  PROVE  Skipping'
<1>1. CASE Begin
  BY <1>1 DEF Skipping, Begun, Begin, Fresh, Inherited, now, flags, hist
<1>2. CASE Refuse
  BY <1>2 DEF Skipping, Begun, Refuse, Fresh, Inherited, now, flags, hist
<1>3. CASE AfterRefused
  BY <1>3 DEF Skipping, Begun, AfterRefused, Verdict, now, flags, hist
<1>4. CASE PrepareHost
  BY <1>4 DEF Skipping, Begun, PrepareHost, now, flags, hist
<1>5. CASE HostRaises
  BY <1>5 DEF Skipping, Begun, HostRaises, now, flags, hist
<1>6. CASE \E kind \in Kinds : Register(kind)
  BY <1>6 DEF Skipping, Begun, Register, now, flags, hist
<1>7. CASE \E result \in {"good", "bad"} : Spawn(result)
  BY <1>7 DEF Skipping, Begun, Spawn, now, flags, hist
<1>8. CASE TagFails
  BY <1>8 DEF Skipping, Begun, TagFails, now, flags, hist
<1>9. CASE TagSkips
  BY <1>9 DEF Skipping, Begun, TagSkips, now, flags, hist
<1>10. CASE TagsDone
  BY <1>10 DEF Skipping, Begun, TagsDone, CheckCrash, now, flags, hist
<1>11. CASE BeforeStep
  BY <1>11 DEF Skipping, Begun, BeforeStep, now, flags, hist
<1>12. CASE MarkerStep
  BY <1>12 DEF Skipping, Begun, MarkerStep, Reaped, CheckCrash, now, flags, hist
<1>13. CASE StepPasses
  BY <1>13 DEF Skipping, Begun, StepPasses, Reaped, CheckCrash, now, flags, hist
<1>14. CASE StepFails
  BY <1>14 DEF Skipping, Begun, StepFails, Reaped, now, flags, hist
<1>15. CASE StepSkips
  BY <1>15 DEF Skipping, Begun, StepSkips, Reaped, CheckCrash, now, flags, hist
<1>16. CASE StepRaises
  BY <1>16 DEF Skipping, Begun, StepRaises, now, flags, hist
<1>17. CASE StepsEnd
  BY <1>17 DEF Skipping, Begun, StepsEnd, now, flags, hist
<1>18. CASE AfterScenario
  BY <1>18 DEF Skipping, Begun, AfterScenario, CheckCrash, now, flags, hist
<1>19. CASE AfterScenarioRaises
  BY <1>19 DEF Skipping, Begun, AfterScenarioRaises, Verdict, now, flags, hist
<1>20. CASE RestoreOwn
  BY <1>20 DEF Skipping, Begun, RestoreOwn, Turn, now, flags, hist
<1>21. CASE RestoreOwnFails
  BY <1>21 DEF Skipping, Begun, RestoreOwnFails, Turn, now, flags, hist
<1>22. CASE RestoreOwnSkips
  BY <1>22 DEF Skipping, Begun, RestoreOwnSkips, Turn, now, flags, hist
<1>23. CASE \E result \in {"good", "bad"} : RestoreSysctl(result)
  BY <1>23 DEF Skipping, Begun, RestoreSysctl, Turn, now, flags, hist
<1>24. CASE Drain
  BY <1>24 DEF Skipping, Begun, Drain, Turn, now, flags, hist
<1>25. CASE CleanupDone
  BY <1>25 DEF Skipping, Begun, CleanupDone, now, flags, hist
<1>26. CASE \E dump, faf, pidChanged, fafReset \in BOOLEAN : Examine(dump, faf, pidChanged, fafReset)
  BY <1>26 DEF Skipping, Begun, Examine, now, flags, hist
<1>27. CASE ExamineRaises
  BY <1>27 DEF Skipping, Begun, ExamineRaises, Verdict, now, flags, hist
<1>28. CASE EvidenceFails
  BY <1>28 DEF Skipping, Begun, EvidenceFails, now, flags, hist
<1>29. CASE Conclude
  BY <1>29 DEF Skipping, Begun, Conclude, Verdict, now, flags, hist
<1>30. CASE UNCHANGED vars
  BY <1>30 DEF Skipping, Begun, vars, now, flags, hist
<1>31. QED
  BY <1>1, <1>2, <1>3, <1>4, <1>5, <1>6, <1>7, <1>8, <1>9, <1>10, <1>11, <1>12, <1>13, <1>14,
     <1>15, <1>16, <1>17, <1>18, <1>19, <1>20, <1>21, <1>22, <1>23, <1>24, <1>25, <1>26, <1>27,
     <1>28, <1>29, <1>30 DEF Next

LEMMA BegunKept ==
  ASSUME TypeOK, Begun, Skipping, Excused, [Next]_vars
  PROVE  Begun'
<1>1. CASE Begin
  BY <1>1, FaultyUnion, FaultyOf DEF Begun, Bad, Begin, Fresh, Inherited, now, flags, hist
<1>2. CASE Refuse
  BY <1>2, FaultyUnion, FaultyOf DEF Begun, Bad, Refuse, Fresh, Inherited, now, flags, hist
<1>3. CASE AfterRefused
  BY <1>3, FaultyUnion, FaultyOf DEF Begun, Bad, AfterRefused, Verdict, now, flags, hist
<1>4. CASE PrepareHost
  <2>1. phase = "host" /\ phase' = "tags" /\ UNCHANGED <<failed, crashed, spawned>>
    BY <1>4 DEF PrepareHost
  <2>2. ~ failed /\ ~ excepts /\ ~ crashed /\ (Faulty(wrong) <=> Bad) /\ (Bad' <=> Bad)
    BY <2>1 DEF Begun, Bad
  <2>3. CASE UNCHANGED <<excepts, wrong>>
    BY <2>1, <2>2, <2>3 DEF Begun
  <2>4. CASE excepts' = TRUE /\ wrong' = wrong \cup {"host"}
    <3>1. Faulty(wrong')
      BY <2>4, FaultyUnion, FaultyOf
    <3>2. QED
      BY <2>1, <2>2, <2>4, <3>1 DEF Begun
  <2>5. QED
    BY <1>4, <2>3, <2>4 DEF PrepareHost
<1>5. CASE HostRaises
  BY <1>5, FaultyUnion, FaultyOf DEF Begun, Bad, HostRaises, now, flags, hist
<1>6. CASE \E kind \in Kinds : Register(kind)
  BY <1>6, FaultyUnion, FaultyOf DEF Begun, Bad, Register, now, flags, hist
<1>7. CASE \E result \in {"good", "bad"} : Spawn(result)
  <2>1. PICK result \in {"good", "bad"} : Spawn(result)
    BY <1>7
  <2>2. CASE result = "bad"
    <3>1. Bad' /\ Faulty(wrong)'
      BY <2>1, <2>2, FaultyUnion, FaultyOf DEF Bad, Spawn
    <3>2. QED
      BY <2>1, <3>1 DEF Begun, Spawn
  <2>3. CASE result = "good"
    <3>1. (Bad' <=> Bad) /\ wrong' = wrong
      BY <2>1, <2>3 DEF Bad, Spawn
    <3>2. QED
      BY <2>1, <3>1 DEF Begun, Spawn
  <2>4. QED
    BY <2>2, <2>3
<1>8. CASE TagFails
  BY <1>8, FaultyUnion, FaultyOf DEF Begun, Bad, TagFails, now, flags, hist
<1>9. CASE TagSkips
  BY <1>9, FaultyUnion, FaultyOf DEF Begun, Bad, TagSkips, now, flags, hist
<1>10. CASE TagsDone
  BY <1>10, FaultyUnion, FaultyOf DEF Begun, Bad, TagsDone, CheckCrash, now, flags, hist
<1>11. CASE BeforeStep
  BY <1>11, FaultyUnion, FaultyOf DEF Begun, Bad, BeforeStep, now, flags, hist
<1>12. CASE MarkerStep
  <2>1. ~ Bad /\ ~ Bad'
    BY <1>12 DEF Bad, MarkerStep, Reaped
  <2>2. QED
    BY <1>12, <2>1, CrashCounts DEF Begun, MarkerStep, Reaped
<1>13. CASE StepPasses
  <2>1. ~ Bad /\ ~ Bad'
    BY <1>13 DEF Bad, StepPasses, Reaped
  <2>2. QED
    BY <1>13, <2>1, CrashCounts DEF Begun, StepPasses, Reaped
<1>14. CASE StepFails
  BY <1>14, FaultyUnion, FaultyOf DEF Begun, Bad, StepFails, Reaped, now, flags, hist
<1>15. CASE StepSkips
  BY <1>15, FaultyUnion, FaultyOf DEF Begun, Bad, StepSkips, Reaped, CheckCrash, now, flags, hist
<1>16. CASE StepRaises
  BY <1>16, FaultyUnion, FaultyOf DEF Begun, Bad, StepRaises, now, flags, hist
<1>17. CASE StepsEnd
  BY <1>17, FaultyUnion, FaultyOf DEF Begun, Bad, StepsEnd, now, flags, hist
<1>18. CASE AfterScenario
  BY <1>18, FaultyUnion, FaultyOf DEF Begun, Bad, AfterScenario, CheckCrash, now, flags, hist
<1>19. CASE AfterScenarioRaises
  BY <1>19, FaultyUnion, FaultyOf DEF Begun, Bad, AfterScenarioRaises, Verdict, now, flags, hist
<1>20. CASE RestoreOwn
  BY <1>20, FaultyUnion, FaultyOf DEF Begun, Bad, RestoreOwn, Turn, now, flags, hist
<1>21. CASE RestoreOwnFails
  BY <1>21, FaultyUnion, FaultyOf DEF Begun, Bad, RestoreOwnFails, Turn, now, flags, hist
<1>22. CASE RestoreOwnSkips
  BY <1>22, FaultyUnion, FaultyOf DEF Begun, Bad, RestoreOwnSkips, Turn, now, flags, hist
<1>23. CASE \E result \in {"good", "bad"} : RestoreSysctl(result)
  BY <1>23, FaultyUnion, FaultyOf DEF Begun, Bad, RestoreSysctl, Turn, now, flags, hist
<1>24. CASE Drain
  BY <1>24, FaultyUnion, FaultyOf DEF Begun, Bad, Drain, Turn, now, flags, hist
<1>25. CASE CleanupDone
  BY <1>25, FaultyUnion, FaultyOf DEF Begun, Bad, CleanupDone, now, flags, hist
<1>26. CASE \E dump, faf, pidChanged, fafReset \in BOOLEAN : Examine(dump, faf, pidChanged, fafReset)
  BY <1>26, FaultyUnion, FaultyOf DEF Begun, Bad, Examine, now, flags, hist
<1>27. CASE ExamineRaises
  BY <1>27, FaultyUnion, FaultyOf DEF Begun, Bad, ExamineRaises, Verdict, now, flags, hist
<1>28. CASE EvidenceFails
  BY <1>28, FaultyUnion, FaultyOf DEF Begun, Bad, EvidenceFails, now, flags, hist
<1>29. CASE Conclude
  BY <1>29, FaultyUnion, FaultyOf DEF Begun, Bad, Conclude, Verdict, now, flags, hist
<1>30. CASE UNCHANGED vars
  BY <1>30, FaultyUnion, FaultyOf DEF Begun, Bad, vars, now, flags, hist
<1>31. QED
  BY <1>1, <1>2, <1>3, <1>4, <1>5, <1>6, <1>7, <1>8, <1>9, <1>10, <1>11, <1>12, <1>13, <1>14,
     <1>15, <1>16, <1>17, <1>18, <1>19, <1>20, <1>21, <1>22, <1>23, <1>24, <1>25, <1>26, <1>27,
     <1>28, <1>29, <1>30 DEF Next

LEMMA EndingKept ==
  ASSUME TypeOK, Begun, Ending, Excused, Skipping, [Next]_vars
  PROVE  Ending'
<1>1. CASE Begin
  BY <1>1, FaultyUnion, FaultyOf DEF Begun, Ending, Excused, Skipping, Bad, Begin, Fresh,
     Inherited, now, flags, hist
<1>2. CASE Refuse
  BY <1>2, FaultyUnion, FaultyOf DEF Begun, Ending, Excused, Skipping, Bad, Refuse, Fresh,
     Inherited, now, flags, hist
<1>3. CASE AfterRefused
  BY <1>3, FaultyUnion, FaultyOf DEF Begun, Ending, Excused, Skipping, Bad, AfterRefused,
     Verdict, now, flags, hist
<1>4. CASE PrepareHost
  BY <1>4, FaultyUnion, FaultyOf DEF Begun, Ending, Excused, Skipping, Bad, PrepareHost, now,
     flags, hist
<1>5. CASE HostRaises
  BY <1>5, FaultyUnion, FaultyOf DEF Begun, Ending, Excused, Skipping, Bad, HostRaises, now,
     flags, hist
<1>6. CASE \E kind \in Kinds : Register(kind)
  BY <1>6, FaultyUnion, FaultyOf DEF Begun, Ending, Excused, Skipping, Bad, Register, now, flags,
     hist
<1>7. CASE \E result \in {"good", "bad"} : Spawn(result)
  BY <1>7, FaultyUnion, FaultyOf DEF Begun, Ending, Excused, Skipping, Bad, Spawn, now, flags,
     hist
<1>8. CASE TagFails
  BY <1>8, FaultyUnion, FaultyOf DEF Begun, Ending, Excused, Skipping, Bad, TagFails, now, flags,
     hist
<1>9. CASE TagSkips
  BY <1>9, FaultyUnion, FaultyOf DEF Begun, Ending, Excused, Skipping, Bad, TagSkips, now, flags,
     hist
<1>10. CASE TagsDone
  BY <1>10, FaultyUnion, FaultyOf DEF Begun, Ending, Excused, Skipping, Bad, TagsDone,
     CheckCrash, now, flags, hist
<1>11. CASE BeforeStep
  BY <1>11, FaultyUnion, FaultyOf DEF Begun, Ending, Excused, Skipping, Bad, BeforeStep, now,
     flags, hist
<1>12. CASE MarkerStep
  BY <1>12, FaultyUnion, FaultyOf DEF Begun, Ending, Excused, Skipping, Bad, MarkerStep, Reaped,
     CheckCrash, now, flags, hist
<1>13. CASE StepPasses
  BY <1>13, FaultyUnion, FaultyOf DEF Begun, Ending, Excused, Skipping, Bad, StepPasses, Reaped,
     CheckCrash, now, flags, hist
<1>14. CASE StepFails
  <2>1. ~ Bad /\ ~ Bad' /\ ~ excepts' /\ phase' = "ended"
    BY <1>14 DEF Bad, Begun, StepFails, Reaped
  <2>2. PICK crash \in BOOLEAN :
          /\ crashed' = (crashed \/ crash)
          /\ wrong' = wrong \cup (IF marked THEN {} ELSE {"step"})
                            \cup (IF crash THEN {"crash"} ELSE {})
    BY <1>14 DEF StepFails
  <2>3. Faulty(wrong)' <=> Faulty(wrong) \/ ~ marked \/ crash
    BY <2>2, FaultyUnion, FaultyOf
  <2>4. failed' <=> ~ marked
    BY <1>14 DEF Begun, Excused, StepFails, Reaped
  <2>5. Faulty(wrong) <=> crashed
    BY <1>14, <2>1 DEF Begun, StepFails, Reaped
  <2>6. crashed' <=> crashed \/ crash
    BY <2>2
  <2>7. QED
    BY <2>1, <2>3, <2>4, <2>5, <2>6 DEF Ending
<1>15. CASE StepSkips
  <2>1. ~ Bad /\ ~ Bad'
    BY <1>15 DEF Bad, StepSkips, Reaped
  <2>2. QED
    BY <1>15, <2>1, CrashCounts DEF Begun, Ending, StepSkips, Reaped
<1>16. CASE StepRaises
  BY <1>16, FaultyUnion, FaultyOf DEF Begun, Ending, Excused, Skipping, Bad, StepRaises, now,
     flags, hist
<1>17. CASE StepsEnd
  BY <1>17, FaultyUnion, FaultyOf DEF Begun, Ending, Excused, Skipping, Bad, StepsEnd, now,
     flags, hist
<1>18. CASE AfterScenario
  <2>1. ~ Bad
    BY <1>18 DEF Bad, AfterScenario
  <2>2. skipped' /\ ~ was' <=> FALSE
    BY <1>18 DEF AfterScenario
  <2>3. QED
    BY <1>18, <2>1, <2>2, CrashCounts DEF Ending, AfterScenario
<1>19. CASE AfterScenarioRaises
  BY <1>19, FaultyUnion, FaultyOf DEF Begun, Ending, Excused, Skipping, Bad, AfterScenarioRaises,
     Verdict, now, flags, hist
<1>20. CASE RestoreOwn
  BY <1>20, FaultyUnion, FaultyOf DEF Begun, Ending, Excused, Skipping, Bad, RestoreOwn, Turn,
     now, flags, hist
<1>21. CASE RestoreOwnFails
  BY <1>21, FaultyUnion, FaultyOf DEF Begun, Ending, Excused, Skipping, Bad, RestoreOwnFails,
     Turn, now, flags, hist
<1>22. CASE RestoreOwnSkips
  BY <1>22, FaultyUnion, FaultyOf DEF Begun, Ending, Excused, Skipping, Bad, RestoreOwnSkips,
     Turn, now, flags, hist
<1>23. CASE \E result \in {"good", "bad"} : RestoreSysctl(result)
  <2>1. PICK result \in {"good", "bad"} : RestoreSysctl(result)
    BY <1>23
  <2>2. Faulty(wrong)' <=> Faulty(wrong)
    BY <2>1, FaultyUnion, FaultyOf DEF RestoreSysctl
  <2>3. QED
    BY <2>1, <2>2 DEF Ending, RestoreSysctl, Turn
<1>24. CASE Drain
  BY <1>24, FaultyUnion, FaultyOf, ZenonT(60) DEF Begun, Ending, Excused, Skipping, Bad, Drain, Turn,
     now, flags, hist
<1>25. CASE CleanupDone
  BY <1>25, FaultyUnion, FaultyOf DEF Begun, Ending, Excused, Skipping, Bad, CleanupDone, now,
     flags, hist
<1>26. CASE \E dump, faf, pidChanged, fafReset \in BOOLEAN : Examine(dump, faf, pidChanged, fafReset)
  <2>1. PICK dump, faf, pidChanged, fafReset \in BOOLEAN : Examine(dump, faf, pidChanged, fafReset)
    BY <1>26
  <2>2. crashed' <=> crashed \/ dump \/ pidChanged
    BY <2>1 DEF Examine
  <2>3. Faulty(wrong)' <=> Faulty(wrong) \/ crashed'
    BY <2>1, FaultyUnion, FaultyOf DEF Examine
  <2>4. Faulty(wrong) <=> failed \/ crashed \/ excepts \/ (skipped /\ ~ was)
    BY <2>1 DEF Ending, Examine
  <2>5. QED
    BY <2>1, <2>2, <2>3, <2>4 DEF Ending, Examine
<1>27. CASE ExamineRaises
  BY <1>27, FaultyUnion, FaultyOf DEF Begun, Ending, Excused, Skipping, Bad, ExamineRaises,
     Verdict, now, flags, hist
<1>28. CASE EvidenceFails
  BY <1>28, FaultyUnion, FaultyOf DEF Begun, Ending, Excused, Skipping, Bad, EvidenceFails, now,
     flags, hist
<1>29. CASE Conclude
  BY <1>29, FaultyUnion, FaultyOf DEF Begun, Ending, Excused, Skipping, Bad, Conclude, Verdict,
     now, flags, hist
<1>30. CASE UNCHANGED vars
  BY <1>30, FaultyUnion, FaultyOf DEF Begun, Ending, Excused, Skipping, Bad, vars, now, flags,
     hist
<1>31. QED
  BY <1>1, <1>2, <1>3, <1>4, <1>5, <1>6, <1>7, <1>8, <1>9, <1>10, <1>11, <1>12, <1>13, <1>14,
     <1>15, <1>16, <1>17, <1>18, <1>19, <1>20, <1>21, <1>22, <1>23, <1>24, <1>25, <1>26, <1>27,
     <1>28, <1>29, <1>30 DEF Next

LEMMA TypesKept ==
  ASSUME TypeOK, Numbered, Numbered', [Next]_vars
  PROVE  TypeOK'
<1>1. /\ phase' \in Phase
      /\ lst' \subseteq AnyKind
      /\ spawned' \subseteq {"good", "bad"}
  BY Bounds DEF TypeOK, AnyKind, Phase, Next, Begin, Fresh, Inherited, Refuse, AfterRefused,
     Verdict, PrepareHost, HostRaises, Register, Spawn, TagFails, TagSkips, TagsDone, CheckCrash,
     BeforeStep, MarkerStep, Reaped, StepPasses, StepFails, StepSkips, StepRaises, StepsEnd,
     AfterScenario, AfterScenarioRaises, RestoreOwn, Turn, RestoreOwnFails, RestoreOwnSkips,
     RestoreSysctl, Drain, CleanupDone, Examine, ExamineRaises, EvidenceFails, Conclude, vars,
     now, flags, hist
<1>2. /\ skipped' \in BOOLEAN /\ told' \in BOOLEAN /\ was' \in BOOLEAN /\ marked' \in BOOLEAN
      /\ failed' \in BOOLEAN /\ excepts' \in BOOLEAN
      /\ crashed' \in BOOLEAN /\ crashTag' \in BOOLEAN
      /\ dumpSeen' \in BOOLEAN /\ fafSeen' \in BOOLEAN
  <2>1. skipped' \in BOOLEAN /\ told' \in BOOLEAN /\ was' \in BOOLEAN
    BY ZenonT(60) DEF TypeOK, Next, Begin, Fresh, Inherited, Refuse, AfterRefused, Verdict, PrepareHost,
       HostRaises, Register, Spawn, TagFails, TagSkips, TagsDone, CheckCrash, BeforeStep,
       MarkerStep, Reaped, StepPasses, StepFails, StepSkips, StepRaises, StepsEnd, AfterScenario,
       AfterScenarioRaises, RestoreOwn, Turn, RestoreOwnFails, RestoreOwnSkips, RestoreSysctl,
       Drain, CleanupDone, Examine, ExamineRaises, EvidenceFails, Conclude, vars, now, flags, hist
  <2>2. marked' \in BOOLEAN /\ excepts' \in BOOLEAN /\ crashTag' \in BOOLEAN
    BY ZenonT(60) DEF TypeOK, Next, Begin, Fresh, Inherited, Refuse, AfterRefused, Verdict, PrepareHost,
       HostRaises, Register, Spawn, TagFails, TagSkips, TagsDone, CheckCrash, BeforeStep,
       MarkerStep, Reaped, StepPasses, StepFails, StepSkips, StepRaises, StepsEnd, AfterScenario,
       AfterScenarioRaises, RestoreOwn, Turn, RestoreOwnFails, RestoreOwnSkips, RestoreSysctl,
       Drain, CleanupDone, Examine, ExamineRaises, EvidenceFails, Conclude, vars, now, flags, hist
  <2>3. failed' \in BOOLEAN
    BY DEF TypeOK, Next, Begin, Fresh, Inherited, Refuse, AfterRefused, Verdict, PrepareHost,
       HostRaises, Register, Spawn, TagFails, TagSkips, TagsDone, CheckCrash, BeforeStep,
       MarkerStep, Reaped, StepPasses, StepFails, StepSkips, StepRaises, StepsEnd, AfterScenario,
       AfterScenarioRaises, RestoreOwn, Turn, RestoreOwnFails, RestoreOwnSkips, RestoreSysctl,
       Drain, CleanupDone, Examine, ExamineRaises, EvidenceFails, Conclude, vars, now, flags, hist
  <2>4. crashed' \in BOOLEAN
    BY DEF TypeOK, Next, Begin, Fresh, Inherited, Refuse, AfterRefused, Verdict, PrepareHost,
       HostRaises, Register, Spawn, TagFails, TagSkips, TagsDone, CheckCrash, BeforeStep,
       MarkerStep, Reaped, StepPasses, StepFails, StepSkips, StepRaises, StepsEnd, AfterScenario,
       AfterScenarioRaises, RestoreOwn, Turn, RestoreOwnFails, RestoreOwnSkips, RestoreSysctl,
       Drain, CleanupDone, Examine, ExamineRaises, EvidenceFails, Conclude, vars, now, flags, hist
  <2>5. dumpSeen' \in BOOLEAN /\ fafSeen' \in BOOLEAN
    BY DEF TypeOK, Next, Begin, Fresh, Inherited, Refuse, AfterRefused, Verdict, PrepareHost,
       HostRaises, Register, Spawn, TagFails, TagSkips, TagsDone, CheckCrash, BeforeStep,
       MarkerStep, Reaped, StepPasses, StepFails, StepSkips, StepRaises, StepsEnd, AfterScenario,
       AfterScenarioRaises, RestoreOwn, Turn, RestoreOwnFails, RestoreOwnSkips, RestoreSysctl,
       Drain, CleanupDone, Examine, ExamineRaises, EvidenceFails, Conclude, vars, now, flags, hist
  <2>6. QED
    BY <2>1, <2>2, <2>3, <2>4, <2>5
<1>3. wrong' \subseteq Wrong
  BY DEF TypeOK, Wrong, Next, Begin, Fresh, Inherited, Refuse, AfterRefused, Verdict,
     PrepareHost, HostRaises, Register, Spawn, TagFails, TagSkips, TagsDone, CheckCrash,
     BeforeStep, MarkerStep, Reaped, StepPasses, StepFails, StepSkips, StepRaises, StepsEnd,
     AfterScenario, AfterScenarioRaises, RestoreOwn, Turn, RestoreOwnFails, RestoreOwnSkips,
     RestoreSysctl, Drain, CleanupDone, Examine, ExamineRaises, EvidenceFails, Conclude, vars,
     now, flags, hist
<1>4. reset' \subseteq 1 .. MaxScenarios
  <2>1. reset' = reset \/ (reset' = reset \cup {n} /\ phase = "checks")
    BY DEF Next, Begin, Fresh, Inherited, Refuse, AfterRefused, Verdict, PrepareHost, HostRaises,
       Register, Spawn, TagFails, TagSkips, TagsDone, CheckCrash, BeforeStep, MarkerStep, Reaped,
       StepPasses, StepFails, StepSkips, StepRaises, StepsEnd, AfterScenario,
       AfterScenarioRaises, RestoreOwn, Turn, RestoreOwnFails, RestoreOwnSkips, RestoreSysctl,
       Drain, CleanupDone, Examine, ExamineRaises, EvidenceFails, Conclude, vars, now, flags,
       hist
  <2>2. phase = "checks" => n \in 1 .. MaxScenarios
    BY Bounds DEF Numbered
  <2>3. QED
    BY <2>1, <2>2 DEF TypeOK
<1>5. verdict' \in {"none", "passed", "failed", "skipped"}
  BY DEF TypeOK, Verdict, Next, Begin, Fresh, Inherited, Refuse, AfterRefused, PrepareHost,
     HostRaises, Register, Spawn, TagFails, TagSkips, TagsDone, CheckCrash, BeforeStep,
     MarkerStep, Reaped, StepPasses, StepFails, StepSkips, StepRaises, StepsEnd, AfterScenario,
     AfterScenarioRaises, RestoreOwn, Turn, RestoreOwnFails, RestoreOwnSkips, RestoreSysctl,
     Drain, CleanupDone, Examine, ExamineRaises, EvidenceFails, Conclude, vars, now, flags, hist
<1>6. n' \in 0 .. MaxScenarios /\ step' \in 0 .. MaxSteps /\ count' \in - MaxSteps .. 1
  <2>1. /\ n' \in 0 .. MaxScenarios /\ step' \in 0 .. MaxSteps
        /\ count' \in Int /\ - step' <= count' /\ count' <= 1
    BY DEF Numbered
  <2> DEFINE s == step'
             c == count'
  <2>2. s \in Int /\ c \in Int /\ MaxSteps \in Int /\ s <= MaxSteps /\ - s <= c
    <3>1. s \in Int /\ s <= MaxSteps
      BY <2>1, Bounds
    <3>2. c \in Int /\ - s <= c
      BY <2>1
    <3>3. MaxSteps \in Int
      BY Bounds
    <3>4. QED
      BY <3>1, <3>2, <3>3
  <2> HIDE DEF s, c
  <2>3. - MaxSteps <= c
    BY <2>2
  <2>4. QED
    BY <2>1, <2>2, <2>3, Bounds DEF s, c
<1>7. QED
  BY <1>1, <1>2, <1>3, <1>4, <1>5, <1>6 DEF TypeOK

LEMMA VerdictsKept ==
  ASSUME TypeOK, Begun, Ending, Skipping, FailureCounts, BlamesOwn, FlagTellsSkip,
         [Next]_vars
  PROVE  FailureCounts' /\ BlamesOwn' /\ FlagTellsSkip'
<1>1. CASE Begin
  BY <1>1 DEF Begun, Ending, Skipping, FailureCounts, BlamesOwn, FlagTellsSkip, Over, Faulty,
     Bad, Begin, Fresh, Inherited, now, flags, hist
<1>2. CASE Refuse
  BY <1>2 DEF Begun, Ending, Skipping, FailureCounts, BlamesOwn, FlagTellsSkip, Over, Faulty,
     Bad, Refuse, Fresh, Inherited, now, flags, hist
<1>3. CASE AfterRefused
  BY <1>3 DEF Begun, Ending, Skipping, FailureCounts, BlamesOwn, FlagTellsSkip, Over, Faulty,
     Bad, AfterRefused, Verdict, now, flags, hist
<1>4. CASE PrepareHost
  BY <1>4 DEF Begun, Ending, Skipping, FailureCounts, BlamesOwn, FlagTellsSkip, Over, Faulty,
     Bad, PrepareHost, now, flags, hist
<1>5. CASE HostRaises
  BY <1>5 DEF Begun, Ending, Skipping, FailureCounts, BlamesOwn, FlagTellsSkip, Over, Faulty,
     Bad, HostRaises, now, flags, hist
<1>6. CASE \E kind \in Kinds : Register(kind)
  BY <1>6 DEF Begun, Ending, Skipping, FailureCounts, BlamesOwn, FlagTellsSkip, Over, Faulty,
     Bad, Register, now, flags, hist
<1>7. CASE \E result \in {"good", "bad"} : Spawn(result)
  BY <1>7 DEF Begun, Ending, Skipping, FailureCounts, BlamesOwn, FlagTellsSkip, Over, Faulty,
     Bad, Spawn, now, flags, hist
<1>8. CASE TagFails
  BY <1>8 DEF Begun, Ending, Skipping, FailureCounts, BlamesOwn, FlagTellsSkip, Over, Faulty,
     Bad, TagFails, now, flags, hist
<1>9. CASE TagSkips
  BY <1>9 DEF Begun, Ending, Skipping, FailureCounts, BlamesOwn, FlagTellsSkip, Over, Faulty,
     Bad, TagSkips, now, flags, hist
<1>10. CASE TagsDone
  BY <1>10 DEF Begun, Ending, Skipping, FailureCounts, BlamesOwn, FlagTellsSkip, Over, Faulty,
     Bad, TagsDone, CheckCrash, now, flags, hist
<1>11. CASE BeforeStep
  BY <1>11 DEF Begun, Ending, Skipping, FailureCounts, BlamesOwn, FlagTellsSkip, Over, Faulty,
     Bad, BeforeStep, now, flags, hist
<1>12. CASE MarkerStep
  BY <1>12 DEF Begun, Ending, Skipping, FailureCounts, BlamesOwn, FlagTellsSkip, Over, Faulty,
     Bad, MarkerStep, Reaped, CheckCrash, now, flags, hist
<1>13. CASE StepPasses
  BY <1>13 DEF Begun, Ending, Skipping, FailureCounts, BlamesOwn, FlagTellsSkip, Over, Faulty,
     Bad, StepPasses, Reaped, CheckCrash, now, flags, hist
<1>14. CASE StepFails
  BY <1>14 DEF Begun, Ending, Skipping, FailureCounts, BlamesOwn, FlagTellsSkip, Over, Faulty,
     Bad, StepFails, Reaped, now, flags, hist
<1>15. CASE StepSkips
  BY <1>15 DEF Begun, Ending, Skipping, FailureCounts, BlamesOwn, FlagTellsSkip, Over, Faulty,
     Bad, StepSkips, Reaped, CheckCrash, now, flags, hist
<1>16. CASE StepRaises
  BY <1>16 DEF Begun, Ending, Skipping, FailureCounts, BlamesOwn, FlagTellsSkip, Over, Faulty,
     Bad, StepRaises, now, flags, hist
<1>17. CASE StepsEnd
  BY <1>17 DEF Begun, Ending, Skipping, FailureCounts, BlamesOwn, FlagTellsSkip, Over, Faulty,
     Bad, StepsEnd, now, flags, hist
<1>18. CASE AfterScenario
  BY <1>18 DEF Begun, Ending, Skipping, FailureCounts, BlamesOwn, FlagTellsSkip, Over, Faulty,
     Bad, AfterScenario, CheckCrash, now, flags, hist
<1>19. CASE AfterScenarioRaises
  BY <1>19 DEF Begun, Ending, Skipping, FailureCounts, BlamesOwn, FlagTellsSkip, Over, Faulty,
     Bad, AfterScenarioRaises, Verdict, now, flags, hist
<1>20. CASE RestoreOwn
  BY <1>20 DEF Begun, Ending, Skipping, FailureCounts, BlamesOwn, FlagTellsSkip, Over, Faulty,
     Bad, RestoreOwn, Turn, now, flags, hist
<1>21. CASE RestoreOwnFails
  BY <1>21 DEF Begun, Ending, Skipping, FailureCounts, BlamesOwn, FlagTellsSkip, Over, Faulty,
     Bad, RestoreOwnFails, Turn, now, flags, hist
<1>22. CASE RestoreOwnSkips
  BY <1>22 DEF Begun, Ending, Skipping, FailureCounts, BlamesOwn, FlagTellsSkip, Over, Faulty,
     Bad, RestoreOwnSkips, Turn, now, flags, hist
<1>23. CASE \E result \in {"good", "bad"} : RestoreSysctl(result)
  BY <1>23 DEF Begun, Ending, Skipping, FailureCounts, BlamesOwn, FlagTellsSkip, Over, Faulty,
     Bad, RestoreSysctl, Turn, now, flags, hist
<1>24. CASE Drain
  BY <1>24 DEF Begun, Ending, Skipping, FailureCounts, BlamesOwn, FlagTellsSkip, Over, Faulty,
     Bad, Drain, Turn, now, flags, hist
<1>25. CASE CleanupDone
  BY <1>25 DEF Begun, Ending, Skipping, FailureCounts, BlamesOwn, FlagTellsSkip, Over, Faulty,
     Bad, CleanupDone, now, flags, hist
<1>26. CASE \E dump, faf, pidChanged, fafReset \in BOOLEAN : Examine(dump, faf, pidChanged, fafReset)
  BY <1>26 DEF Begun, Ending, Skipping, FailureCounts, BlamesOwn, FlagTellsSkip, Over, Faulty,
     Bad, Examine, now, flags, hist
<1>27. CASE ExamineRaises
  BY <1>27 DEF Begun, Ending, Skipping, FailureCounts, BlamesOwn, FlagTellsSkip, Over, Faulty,
     Bad, ExamineRaises, Verdict, now, flags, hist
<1>28. CASE EvidenceFails
  BY <1>28 DEF Begun, Ending, Skipping, FailureCounts, BlamesOwn, FlagTellsSkip, Over, Faulty,
     Bad, EvidenceFails, now, flags, hist
<1>29. CASE Conclude
  BY <1>29 DEF Begun, Ending, Skipping, FailureCounts, BlamesOwn, FlagTellsSkip, Over, Faulty,
     Bad, Conclude, Verdict, now, flags, hist
<1>30. CASE UNCHANGED vars
  BY <1>30 DEF Begun, Ending, Skipping, FailureCounts, BlamesOwn, FlagTellsSkip, Over, Faulty,
     Bad, vars, now, flags, hist
<1>31. QED
  BY <1>1, <1>2, <1>3, <1>4, <1>5, <1>6, <1>7, <1>8, <1>9, <1>10, <1>11, <1>12, <1>13, <1>14,
     <1>15, <1>16, <1>17, <1>18, <1>19, <1>20, <1>21, <1>22, <1>23, <1>24, <1>25, <1>26, <1>27,
     <1>28, <1>29, <1>30 DEF Next

LEMMA ScenarioInvariant == Spec => []IInv
<1>1. Init => IInv
  <2> SUFFICES ASSUME Init PROVE IInv
    OBVIOUS
  <2>1. TypeOK /\ Numbered
    <3>1. n = 0 /\ step = 0 /\ count = 0 /\ phase = "between"
      BY DEF Init
    <3>2. Numbered
      BY <3>1, Bounds DEF Numbered
    <3>3. /\ n \in 0 .. MaxScenarios /\ step \in 0 .. MaxSteps
          /\ count \in - MaxSteps .. 1
      BY <3>1, Bounds
    <3>4. QED
      BY <3>2, <3>3 DEF Init, TypeOK, Phase
  <2>2. Excused /\ Begun /\ Ending /\ Skipping /\ Held
    BY DEF Init, Excused, Begun, Ending, Skipping, Held
  <2>3. FailureCounts /\ BlamesOwn /\ FlagTellsSkip
    BY DEF Init, FailureCounts, BlamesOwn, FlagTellsSkip, Over
  <2>4. QED
    BY <2>1, <2>2, <2>3 DEF IInv
<1>2. IInv /\ [Next]_vars => IInv'
  BY NumberedKept, TypesKept, ExcusedKept, HeldKept, SkippingKept, BegunKept, EndingKept,
     VerdictsKept DEF IInv
<1>3. QED
  BY <1>1, <1>2, PTL DEF Spec

-----------------------------------------------------------------------------
(* What the hooks promise. *)

(* A scenario fails exactly for what went wrong in it: whatever is skipped *)
(* before or after, and whatever failed in the scenarios before.           *)
THEOREM VerdictsRight == Spec => []VerdictRight
<1>1. IInv => VerdictRight
  BY DEF IInv, VerdictRight
<1>2. QED
  BY <1>1, ScenarioInvariant, PTL

(* The skip flag, which decides what runtest.sh reports, agrees with what  *)
(* behave says of a scenario that did not fail.                            *)
THEOREM FlagsTellSkip == Spec => []FlagTellsSkip
<1>1. IInv => FlagTellsSkip
  BY DEF IInv
<1>2. QED
  BY <1>1, ScenarioInvariant, PTL

(* Only after_crash_reset leaves a restoration in the registry, and no     *)
(* process that went bad keeps after_scenario from its cleanup.            *)
THEOREM AlwaysEmptied == Spec => []Emptied
<1>1. IInv => Emptied
  BY DEF IInv, Held, Bad, Emptied, LeftoverOnlyFromReset, ReapedBeforeCleanup, Over
<1>2. QED
  BY <1>1, ScenarioInvariant, PTL
=============================================================================
