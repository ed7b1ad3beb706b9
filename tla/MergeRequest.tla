---------------------------- MODULE MergeRequest ----------------------------
(***************************************************************************)
(* From an event of a merge request to the tests of the machines: the      *)
(* trigger starts builds, each build is a job of runner.groovy that stops  *)
(* the other jobs of its name, and node_runner.py asks the Mapper for the  *)
(* tests of its machines.  The jobs' use of the Mapper is taken one job at *)
(* a time and nothing happens in between: it reads nothing others write,   *)
(* and what a stopped job has found is lost.                               *)
(***************************************************************************)
EXTENDS Mapper

CONSTANTS Procs, Events, Merges,
  Diffs,      \* what may be learned of the changed features: [fetched, changed]
  Logs        \* the logs of the two machines of the last build of main

(* The lines of a text that are directives.                                *)
Lines ==
  [tag : {"os", "mr", "build"}, value : STRING]
  \cup [tag : {"runtest"}, value : Seq(STRING)] \cup [tag : {"runfeature"}, value : Requests]

(* A commit is a hash: Trigger uses these two words for having none.       *)
ASSUME MergeRequestAssumption ==
  /\ Merges \subseteq DOMAIN Events
  /\ \A k \in DOMAIN Events :
       /\ Events[k].commit \notin {"", "None"}
       /\ Events[k].text \in Seq(Lines) /\ Events[k].comment \in Seq(Lines)

VARIABLES proc, exists, known, lost, builds, head,
  jobs        \* of the builds: [state, todo, by, tests]

Trigger == INSTANCE GitlabTrigger
Timing == INSTANCE TimingData

trigger == <<proc, exists, known, lost, builds, head>>

vars == <<mapperVars, trigger, jobs>>

(* _build_test_to_feature *)
FeatureOf ==
  [t \in {Entries[i].name : i \in Tests} |-> Feature(CHOOSE i \in Tests : Entries[i].name = t)]

ASSUME LogsAssumption == \A logs \in Logs : Timing!IsLog(logs[1]) /\ Timing!IsLog(logs[2])

Jobs == DOMAIN jobs
EventOf(b) == Events[proc[builds[b].by].event]

(* VERSION: the number of the merge request, the author of its last        *)
(* commit, its branch and the release.                                     *)
NameOf(b) == <<EventOf(b).mr, EventOf(b).author, EventOf(b).branch, builds[b].release>>

(* A build shows its name once it has its node, and until it is over.      *)
Shows(b) == jobs[b].state \in {"kills", "maps", "runs"}
Queued == [state |-> "queued", todo |-> {}, by |-> 0, tests |-> <<>>]

Init == MapperInit /\ Trigger!TriggerInit /\ jobs = <<>>

Triggers ==
  /\ Trigger!TriggerStep
  /\ jobs' = IF Len(builds') > Len(builds) THEN Append(jobs, Queued) ELSE jobs
  /\ UNCHANGED mapperVars

Same == UNCHANGED <<trigger, mapperVars>>

(* Mistaken variant: only newer jobs are looked at.                        *)
KillsNewer(b) ==
  /\ jobs[b].state = "queued"
  /\ jobs' = [jobs EXCEPT ![b].state = "kills", ![b].todo = {c \in Jobs : c > b}]
  /\ Same

(* A job gets its node, takes its name and starts to go through the jobs   *)
(* there are, be they older or newer.                                      *)
Kills(b) ==
  /\ jobs[b].state = "queued"
  /\ jobs' = [jobs EXCEPT ![b].state = "kills", ![b].todo = Jobs \ {b}]
  /\ Same

(* The newest first; those that are building under its name are stopped.   *)
DoStop(b) ==
  /\ jobs[b].state = "kills"
  /\ \E c \in jobs[b].todo :
       /\ \A d \in jobs[b].todo : d <= c
       /\ jobs' = [jobs EXCEPT ![b].todo = @ \ {c},
                               ![c].by = IF Shows(c) /\ NameOf(c) = NameOf(b) /\ @ = 0 THEN b ELSE @]
  /\ Same

(* A job that is being stopped may still take some steps.                  *)
Stops(b) ==
  /\ Shows(b) /\ jobs[b].by # 0
  /\ jobs' = [jobs EXCEPT ![b] = [Queued EXCEPT !.state = "stopped"]]
  /\ IF jobs[b].state = "maps" THEN Forget ELSE UNCHANGED mapperVars
  /\ UNCHANGED trigger

Maps(b) ==
  /\ jobs[b].state = "kills" /\ jobs[b].todo = {}
  /\ \A c \in Jobs : jobs[c].state # "maps"
  /\ jobs' = [jobs EXCEPT ![b].state = "maps"]
  /\ \E diff \in Diffs, logs \in Logs :
       Ask(proc[builds[b].by].params.features, diff, Timing!GetFeatureTimes(logs, FeatureOf),
           IF builds[b].release = "9-stream" THEN 1 ELSE 0)
  /\ UNCHANGED trigger

Runs(b) ==
  /\ jobs[b].state = "maps" /\ stage = "done"
  /\ jobs' = [jobs EXCEPT ![b].state = "runs", ![b].tests = Distribution]
  /\ Forget /\ UNCHANGED trigger

Crashes(b) ==
  /\ jobs[b].state = "maps" /\ stage = "crashed"
  /\ jobs' = [jobs EXCEPT ![b].state = "over"]
  /\ Forget /\ UNCHANGED trigger

Ends(b) ==
  /\ jobs[b].state = "runs"
  /\ jobs' = [jobs EXCEPT ![b].state = "over", ![b].tests = <<>>]
  /\ Same

Map == MapperStep /\ UNCHANGED <<trigger, jobs>>

Job(b) == Kills(b) \/ DoStop(b) \/ Stops(b) \/ Maps(b) \/ Runs(b) \/ Crashes(b) \/ Ends(b)

Next ==
  \/ Map
  \/ stage \in {"idle", "done", "crashed"} /\ (Triggers \/ \E b \in Jobs : Job(b))

Spec == Init /\ [][Next]_vars

-----------------------------------------------------------------------------
(* Properties *)

(* The directives of the description, the commit message and the comment   *)
(* that are about features or tests, by their place; the last one counts.  *)
Text(e) == e.text \o (IF e.kind = "note" THEN e.comment ELSE <<>>)

Directives(e) == {k \in DOMAIN Text(e) : Text(e)[k].tag \in {"runtest", "runfeature"}}

Named(e) == Text(e)[CHOOSE k \in Directives(e) : \A j \in Directives(e) : j <= k]

Meant(i, l) ==
  IF l.tag = "runtest" THEN Elements(l.value) \cap {Entries[i].name, "*", "all"} # {}
  ELSE CASE l.value.form = "covering" ->
              \E j \in Tests : Feature(j) = Feature(i) /\ Entries[j].name \in Elements(l.value.names)
         [] l.value.form = "tests" -> Elements(l.value.names) \cap {Entries[i].name, "*", "all"} # {}
         [] l.value.form = "features" ->
              \/ l.value.names = <<>>
              \/ Elements(l.value.names) \cap ({Feature(i), "*"} \cup WithAll) # {}
         [] OTHER -> TRUE

Running(b) == {t : t \in UNION Elements(jobs[b].tests)}

(* The machines of a job run the tests the last directive of the merge     *)
(* request means, the comment's before the commit's before the             *)
(* description's, and the lone test "pass" if there are none; as long as   *)
(* no name contains "best" (README.md:356).                                *)
RunsWhatIsAsked ==
  \A b \in Jobs :
    LET e == EventOf(b)
        meant == {i \in Tests : Feature(i) \notin Excluded /\ Meant(i, Named(e))}
    IN  jobs[b].state = "runs" /\ Directives(e) # {}
          /\ (Named(e).tag = "runtest" => Elements(Named(e).value) \cap WithBest = {})
          /\ (Named(e).tag = "runfeature" => ~SaysBest(Named(e).value))
        => Running(b) = IF meant = {} THEN {0} ELSE meant

(* Of the jobs of one name - merge request, author of the commit, branch   *)
(* and release - that have gone through the others, one at most is not     *)
(* being stopped itself, in whatever order they got their nodes, although  *)
(* none is found before it has its own (runner.groovy, "Kill old jobs").   *)
(* A push by another author leaves the older job running, README.md:392.   *)
OneJobRuns ==
  \A b, c \in Jobs :
    /\ b # c /\ NameOf(b) = NameOf(c)
    /\ jobs[b].state \in {"maps", "runs"} /\ jobs[c].state \in {"maps", "runs"}
    => jobs[b].by # 0 \/ jobs[c].by # 0

AgainOnlyBeside == Trigger!AgainOnlyBeside

(* The times the Mapper works with are for each feature the mean over its  *)
(* tests of the time from the last START of the test to the END behind it, *)
(* whatever else the logs hold of runs that were cut off, that lasted over *)
(* midnight or that the other machine has, too (timing_data.py:93).        *)
TimesAreMeans == stage \in {"done", "crashed"} => \E logs \in Logs : Timing!AreMeans(timing, logs, FeatureOf)
=============================================================================
