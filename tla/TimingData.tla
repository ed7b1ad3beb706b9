----------------------------- MODULE TimingData -----------------------------
(***************************************************************************)
(* src/run/centos-ci/timing_data.py: how long the tests of a feature took  *)
(* in the last build of main, from the lines START and END that runtest.sh *)
(* appends to the log of its machine.                                      *)
(*                                                                         *)
(* A log is a sequence of [act, test, at], in tenths of a minute; one that *)
(* could not be fetched is like an empty one.  Fractions are cut off.      *)
(***************************************************************************)
EXTENDS Integers, Sequences, SequencesExt, FiniteSetsExt

(* The positions in a log that begin and end a run of a test: of a test    *)
(* that was killed there is no END, and a new START counts from anew.      *)
Runs(log, t) ==
  {r \in (DOMAIN log) \X (DOMAIN log) :
     /\ r[1] < r[2] /\ log[r[1]].test = t /\ log[r[2]].test = t
     /\ log[r[1]].act = "START" /\ log[r[2]].act = "END"
     /\ \A k \in r[1] + 1 .. r[2] - 1 : log[k].test # t}

Day == 14400

(* What _EXEC_LOG_RE lets through.  The clock is not set back by a day.    *)
LogLines == [act : {"START", "END"}, test : STRING, at : Nat]

IsLog(log) ==
  /\ log \in Seq(LogLines)
  /\ \A i, j \in DOMAIN log : i < j => log[i].at <= log[j].at + Day

Between(from, to) == IF to < from THEN to - from + Day ELSE to - from

Without(f, x) == [y \in DOMAIN f \ {x} |-> f[y]]
With(f, x, v) == [y \in DOMAIN f \cup {x} |-> IF y = x THEN v ELSE f[y]]

(* Mistaken variant: a START counts although its test has ended.           *)
LineKeeping(read, l) ==
  IF l.act = "START" THEN [read EXCEPT !.starts = With(@, l.test, l.at)]
  ELSE IF l.test \in DOMAIN read.starts
  THEN [read EXCEPT !.durations = With(@, l.test, Between(read.starts[l.test], l.at))]
  ELSE read

Line(read, l) ==
  IF l.act = "START" THEN [read EXCEPT !.starts = With(@, l.test, l.at)]
  ELSE IF l.test \in DOMAIN read.starts
  THEN [starts    |-> Without(read.starts, l.test),
        durations |-> With(read.durations, l.test, Between(read.starts[l.test], l.at))]
  ELSE read

ParseExecLog(log) == FoldLeft(Line, [starts |-> <<>>, durations |-> <<>>], log).durations

(* featureOf: the features of the tests mapper.yaml knows.                 *)
AggregateByFeature(durations, featureOf) ==
  LET known == DOMAIN durations \cap DOMAIN featureOf
      timed(f) == {t \in known : featureOf[t] = f}
  IN  [f \in {featureOf[t] : t \in known} |->
         MapThenSumSet(LAMBDA t : durations[t], timed(f)) \div Cardinality(timed(f))]

(* The log of the second machine has the last word.                        *)
GetFeatureTimes(logs, featureOf) ==
  LET first  == ParseExecLog(logs[1])
      second == ParseExecLog(logs[2])
  IN  AggregateByFeature(
        [t \in DOMAIN first \cup DOMAIN second |-> IF t \in DOMAIN second THEN second[t] ELSE first[t]],
        featureOf)

-----------------------------------------------------------------------------
(* The reference: a test took the time of the last of its runs.            *)
LastRun(log, t) == CHOOSE r \in Runs(log, t) : \A s \in Runs(log, t) : s[2] <= r[2]

Took(logs, t) ==
  LET log == IF Runs(logs[2], t) # {} THEN logs[2] ELSE logs[1]
      r   == LastRun(log, t)
  IN  Between(log[r[1]].at, log[r[2]].at)

Timed(logs, t) == Runs(logs[1], t) # {} \/ Runs(logs[2], t) # {}

Mean(logs, f, featureOf) ==
  LET of == {t \in DOMAIN featureOf : featureOf[t] = f /\ Timed(logs, t)}
  IN  MapThenSumSet(LAMBDA t : Took(logs, t), of) \div Cardinality(of)

AreMeans(times, logs, featureOf) ==
  /\ DOMAIN times = {featureOf[t] : t \in {u \in DOMAIN featureOf : Timed(logs, u)}}
  /\ \A f \in DOMAIN times : times[f] = Mean(logs, f, featureOf)
=============================================================================
