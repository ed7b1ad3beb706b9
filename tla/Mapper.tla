------------------------------- MODULE Mapper -------------------------------
(***************************************************************************)
(* Mapper of src/run/centos-ci/node_runner.py: which tests a request means *)
(* and how they are spread over the machines of a job.                     *)
(*                                                                         *)
(* The loops of the code are taken an iteration at a time.  A test is its  *)
(* position in mapper.yaml, which may name a test twice; test 0 stands for *)
(* the lone test "pass".  Times are tenths of a minute.  The dictionaries  *)
(* times and tests have the features with a test as their keys, in the     *)
(* order of their first test.                                              *)
(***************************************************************************)
EXTENDS Integers, Sequences, FiniteSets

CONSTANTS
  Entries,    \* testmapper.default: a sequence of [name, feature, timeout]
  Rank,       \* the place of each feature in the order of their names
  Excluded,   \* default_exlude
  WithBest,   \* names that contain "best"
  WithAll,    \* names that contain "all"
  Machines,   \* MACHINES_NUM
  Threshold   \* MACHINES_MIN_THRESHOLD

Tests == 1 .. Len(Entries)
Features == DOMAIN Rank
Feature(i) == Entries[i].feature

ASSUME MapperAssumption ==
  /\ Entries \in Seq([name : STRING, feature : Features, timeout : Nat])
  /\ Rank \in [Features -> Nat]
  /\ \A f, g \in Features : Rank[f] = Rank[g] => f = g
  /\ \A i, j \in Tests : Entries[i].name = Entries[j].name => Feature(i) = Feature(j)
  /\ Machines \in Nat \ {0} /\ Threshold \in Nat

VARIABLES
  stage,      \* where get_tests_for_machines is
  ask,        \* the parsed request: [kind, names]
  timing,     \* timing_cache: minutes per test of some features
  extra,      \* what a test of an unknown feature is counted for, see TimeOf
  pos,        \* position in a loop
  times, tests, total,
  cover,      \* to_cover
  fresh, unmatched,    \* features _cover_tests has to look at, has not matched
  todo,       \* features still to be given to a machine
  mTime, mTests

asked == <<ask, timing, extra>>
table == <<times, tests, total>>
covering == <<cover, fresh, unmatched>>
spread == <<todo, mTime, mTests>>
mapperVars == <<stage, asked, pos, table, covering, spread>>

All == [kind |-> "all", names |-> <<>>]
Nothing == [m \in 1 .. Machines |-> {}]
Elements(s) == {s[i] : i \in DOMAIN s}

MapperInit ==
  /\ stage = "idle" /\ ask = All /\ timing = <<>> /\ extra = 0
  /\ pos = 1 /\ times = [f \in Features |-> 0] /\ tests = [f \in Features |-> {}] /\ total = 0
  /\ cover = <<>> /\ fresh = {} /\ unmatched = {}
  /\ todo = {} /\ mTime = [m \in 1 .. Machines |-> 0] /\ mTests = Nothing

-----------------------------------------------------------------------------
(* A request is [form, names]; the form "best" has no names, the form      *)
(* "features" is a list of features.                                       *)
Requests == [form : {"best", "covering", "tests", "features"}, names : Seq(STRING)]

SaysBest(r) == r.form = "best" \/ Elements(r.names) \cap WithBest # {}

(* _parse_features_string: "best" is looked for first, in the whole        *)
(* string.  changed: the features the merge request changes, in a sequence.*)
Parse(r, changed) ==
  LET kept == SelectSeq(changed, LAMBDA f : f \notin Excluded)
  IN  IF SaysBest(r)
      THEN IF kept = <<>> THEN All ELSE [kind |-> "features", names |-> kept]
      ELSE IF r.form \in {"covering", "tests"} THEN [kind |-> r.form, names |-> r.names]
      ELSE IF r.names = <<>> \/ Elements(r.names) \cap WithAll # {} THEN All
      ELSE [kind |-> "features", names |-> r.names]

Everything == {"all", "*"}

(* A test _get_tests_and_times_for_features does not continue over.        *)
Selected(i) ==
  /\ Feature(i) \notin Excluded
  /\ ask.kind = "tests" => Elements(ask.names) \cap ({Entries[i].name} \cup Everything) # {}
  /\ ask.kind = "features" => Elements(ask.names) \cap {Feature(i), "*"} # {}

(* The measured time of its feature; with times but none of this feature   *)
(* next to nothing; else the time limit of the test, or ten minutes.       *)
TimeOf(i) ==
  IF Feature(i) \in DOMAIN timing THEN timing[Feature(i)]
  ELSE IF timing # <<>> THEN extra
  ELSE IF Entries[i].timeout # 0 THEN 10 * Entries[i].timeout ELSE 100

(* load_timing: with measured times the threshold is 30 minutes.           *)
Thresh == IF timing # <<>> THEN 300 ELSE Threshold

Cleared ==
  /\ pos' = 1 /\ times' = [f \in Features |-> 0] /\ tests' = [f \in Features |-> {}] /\ total' = 0
  /\ fresh' = {} /\ unmatched' = {}
  /\ todo' = {} /\ mTime' = [m \in 1 .. Machines |-> 0] /\ mTests' = Nothing

(* get_tests_for_machines is called; a merge request whose changes could   *)
(* not be fetched makes "best" raise.                                      *)
Ask(r, diff, measured, more) ==
  /\ stage' = IF SaysBest(r) /\ ~diff.fetched THEN "crashed" ELSE "collect"
  /\ ask' = Parse(r, diff.changed) /\ cover' = Parse(r, diff.changed).names
  /\ timing' = measured /\ extra' = more
  /\ Cleared

(* The process of the runner is gone.                                      *)
Forget ==
  /\ stage' = "idle" /\ ask' = All /\ cover' = <<>> /\ timing' = <<>> /\ extra' = 0
  /\ Cleared

Keys == {f \in Features : tests[f] # {}}

Collect ==
  /\ stage = "collect" /\ pos \in Tests
  /\ IF Selected(pos)
     THEN /\ times' = [times EXCEPT ![Feature(pos)] = @ + TimeOf(pos)]
          /\ tests' = [tests EXCEPT ![Feature(pos)] = @ \cup {pos}]
          /\ total' = total + TimeOf(pos)
     ELSE UNCHANGED table
  /\ pos' = pos + 1
  /\ UNCHANGED <<stage, asked, covering, spread>>

Collected ==
  /\ stage = "collect" /\ pos \notin Tests
  /\ IF ask.kind = "covering"
     THEN stage' = "cover" /\ fresh' = Keys /\ unmatched' = Keys /\ UNCHANGED todo
     ELSE stage' = "spread" /\ todo' = Keys /\ UNCHANGED <<fresh, unmatched>>
  /\ pos' = 1
  /\ UNCHANGED <<asked, table, cover, mTime, mTests>>

-----------------------------------------------------------------------------
(* _cover_tests *)

(* The first feature of the dictionary that has not been looked at.        *)
Next1 == CHOOSE f \in fresh : \E i \in tests[f] : \A g \in fresh : \A j \in tests[g] : i <= j

RemoveFirst(s, e) ==
  LET k == CHOOSE i \in DOMAIN s : s[i] = e /\ \A j \in 1 .. i - 1 : s[j] # e
  IN  SubSeq(s, 1, k - 1) \o SubSeq(s, k + 1, Len(s))

(* A test that is found is removed from the list the loop runs over, so    *)
(* that the loop passes over the next one.                                 *)
CoverTest ==
  /\ stage = "cover" /\ unmatched # {} /\ fresh # {} /\ pos <= Len(cover)
  /\ IF \E i \in tests[Next1] : Entries[i].name = cover[pos]
     THEN cover' = RemoveFirst(cover, cover[pos]) /\ unmatched' = unmatched \ {Next1}
     ELSE UNCHANGED <<cover, unmatched>>
  /\ pos' = pos + 1
  /\ UNCHANGED <<stage, asked, table, fresh, spread>>

CoverFeature ==
  /\ stage = "cover" /\ unmatched # {} /\ fresh # {} /\ pos > Len(cover)
  /\ fresh' = fresh \ {Next1} /\ pos' = 1
  /\ UNCHANGED <<stage, asked, table, cover, unmatched, spread>>

(* The features that were not matched go.                                  *)
Drop ==
  /\ stage = "cover" /\ (unmatched = {} \/ fresh = {})
  /\ IF unmatched = {}
     THEN stage' = "spread" /\ todo' = Keys /\ UNCHANGED <<table, unmatched>>
     ELSE \E f \in unmatched :
            /\ unmatched' = unmatched \ {f}
            /\ total' = total - times[f]
            /\ times' = [times EXCEPT ![f] = 0] /\ tests' = [tests EXCEPT ![f] = {}]
            /\ UNCHANGED <<stage, todo>>
  /\ UNCHANGED <<asked, pos, cover, fresh, mTime, mTests>>

-----------------------------------------------------------------------------
(* get_tests_for_machines: in the order of their names the features go to  *)
(* the first machine that stays below the average or the threshold, and to *)
(* the last one if there is none.                                          *)
First(f) == f \in todo /\ \A g \in todo : Rank[f] <= Rank[g]

Fits(f, m) ==
  \/ Machines * (mTime[m] + times[f]) < total
  \/ mTime[m] + times[f] < Thresh
  \/ m = Machines

Gives(f, m) ==
  /\ todo' = todo \ {f}
  /\ mTime' = [mTime EXCEPT ![m] = @ + times[f]]
  /\ mTests' = [mTests EXCEPT ![m] = @ \cup tests[f]]
  /\ UNCHANGED <<stage, asked, pos, table, covering>>

(* Mistaken variant: the loop over the machines does not end with the      *)
(* first one that fits.                                                    *)
GiveToAll ==
  /\ stage = "spread"
  /\ \E f \in todo :
       /\ First(f)
       /\ todo' = todo \ {f}
       /\ mTime' = [m \in 1 .. Machines |-> IF Fits(f, m) THEN mTime[m] + times[f] ELSE mTime[m]]
       /\ mTests' = [m \in 1 .. Machines |->
                       IF Fits(f, m) THEN mTests[m] \cup tests[f] ELSE mTests[m]]
  /\ UNCHANGED <<stage, asked, pos, table, covering>>

(* Mistaken variant: the last machine is as good as another.               *)
GiveAnywhere ==
  /\ stage = "spread"
  /\ \E f \in todo, m \in 1 .. Machines : First(f) /\ Fits(f, m) /\ Gives(f, m)

Give ==
  /\ stage = "spread"
  /\ \E f \in todo, m \in 1 .. Machines :
       /\ First(f) /\ Fits(f, m) /\ \A n \in 1 .. m - 1 : ~Fits(f, n)
       /\ Gives(f, m)

Given ==
  /\ stage = "spread" /\ todo = {}
  /\ stage' = "done"
  /\ UNCHANGED <<asked, pos, table, covering, spread>>

(* What is returned: machines without a test are taken out, and if there   *)
(* is none left one runs "pass".                                           *)
Distribution ==
  LET used[m \in 0 .. Machines] ==
        IF m = 0 THEN <<>>
        ELSE IF mTests[m] = {} THEN used[m - 1] ELSE Append(used[m - 1], mTests[m])
  IN  IF used[Machines] = <<>> THEN << {0} >> ELSE used[Machines]

MapperStep ==
  Collect \/ Collected \/ CoverTest \/ CoverFeature \/ Drop \/ Give \/ Given

-----------------------------------------------------------------------------
(* Properties *)

(* Every test that was taken for the request is given to one machine and   *)
(* to no other, whatever the measured times, the threshold and the number  *)
(* of machines are (get_tests_for_machines, node_runner.py:648).           *)
EachTestOnce ==
  stage = "done" =>
    /\ \A i \in Tests :
         (\E m \in 1 .. Machines : i \in mTests[m]) <=>
           Selected(i) /\ (ask.kind = "covering" => tests[Feature(i)] # {})
    /\ \A m, n \in 1 .. Machines : m # n => mTests[m] \cap mTests[n] = {}

(* The last machine is the one that may get too much: each feature it has  *)
(* would lift any other machine to the average or above                    *)
(* (node_runner.py:651).                                                   *)
LastIsNeeded ==
  stage = "done" =>
    \A f \in Features, m \in 1 .. Machines - 1 :
      tests[f] # {} /\ tests[f] \subseteq mTests[Machines] =>
        Machines * (mTime[m] + times[f]) >= total
=============================================================================
