-------------------------- MODULE NodeRunnerProofs --------------------------
(***************************************************************************)
(* Proofs about NodeRunner, for any number of machines and tests, however  *)
(* often machines are asked for.                                           *)
(***************************************************************************)
EXTENDS NodeRunner, FiniteSetTheorems, SequenceTheorems, TLAPS

-----------------------------------------------------------------------------
(* The inductive invariant *)

Counts(m) == 0 .. Len(suite[m])
Tables(m) == [TestsOf(m) -> Results]

Mach(m) ==
  [proc : {"none", "running", "blocked", "ended"}, pipe : {"", "ok", "bad", "eof"},
   last : {"none", "ok", "bad"}, ready : SUBSET {"create", "install", "prepare"},
   ran : Counts(m), tmt : Tables(m), copied : Tables(m),
   summary : {"none", "short", "full"}]

Typed ==
  /\ suite \in Suites
  /\ mach = [m \in Machines |-> mach[m]]
  /\ \A m \in Machines : mach[m] \in Mach(m)

(* A child has one command: it runs, ends with something in its pipe, and  *)
(* that is received once.                                                  *)
OneCommand ==
  \A m \in Machines :
    /\ mach[m].pipe # "" <=> mach[m].proc = "ended"
    /\ mach[m].last # "none" => mach[m].proc = "none"
    /\ phase = "" => mach[m].proc = "none" /\ mach[m].last = "none"

Good(m) == mach[m].pipe = "ok" \/ mach[m].last = "ok"

(* A good result tells the truth: the node is ready, or its reports are    *)
(* all copied.                                                             *)
Truthful ==
  \A m \in Machines : Good(m) =>
    IF phase = "runtests" THEN mach[m].copied = mach[m].tmt ELSE phase \in mach[m].ready

(* Nothing is among the artifacts that tmt does not have.                  *)
Copies ==
  \A m \in Machines : \A t \in TestsOf(m) : mach[m].tmt[t] = "none" => mach[m].copied[t] = "none"

(* Where the runner is tells the phase ...                                 *)
InPhase ==
  /\ pc \in {"tmt", "create", "reserve", "start", "list", "wait", "again", "build", "logs",
             "install", "prepare", "runtests", "merge", "tell", "abort", "exiting", "exited", "over"}
  /\ pc \notin {"exiting", "exited", "over"} => died = ""
  /\ phase \in {"", "create", "install", "prepare", "runtests"}
  /\ pc = "tmt" => phase = ""
  /\ pc = "create" => phase \in {"", "create"}
  /\ pc \in {"reserve", "start", "list", "again", "build", "install"} => phase = "create"
  /\ pc = "wait" => phase # ""
  /\ pc = "prepare" => phase = "install"
  /\ pc = "runtests" => phase = "prepare"
  /\ pc \in {"merge", "tell"} => phase = "runtests"

Waiting == {left[i] : i \in DOMAIN left}

(* ... and what has become of the children: one that is not waited for has *)
(* been heard, and well, where a failure would have led to the abort.      *)
Heard ==
  /\ left \in Seq(Machines) /\ at \in Nat
  /\ pc = "wait" => \A m \in Machines \ Waiting :
       mach[m].proc = "none" /\ (Aborts => mach[m].last = "ok")
  /\ pc = "list" => Waiting = Machines
  /\ pc \in {"build", "install", "prepare", "runtests"} => AllFine
  /\ pc \in {"merge", "tell"} => \A m \in Machines : mach[m].proc = "none"

(* The sessions, by where the runner is.                                   *)
Held ==
  /\ sessions = [asked |-> sessions.asked, listed |-> sessions.listed, retired |-> sessions.retired]
  /\ retry \in 0 .. Retries /\ sessions.asked \in Nat
  /\ sessions.asked <= Retries - retry + 1
  /\ pc \notin {"tmt", "create", "reserve", "abort", "exiting", "exited", "over"} =>
       1 <= sessions.asked
  /\ pc \in {"tmt", "create", "reserve"} =>
       sessions.asked <= Retries - retry /\ 1 .. sessions.asked \subseteq sessions.retired
  /\ sessions.listed \subseteq 1 .. sessions.asked
  /\ sessions.retired \subseteq 1 .. sessions.asked
  /\ 1 .. sessions.asked \subseteq sessions.retired \cup {sessions.asked}
  /\ pc \notin {"start", "list"} /\ died \notin {"start", "list"} =>
       1 .. sessions.asked \subseteq sessions.retired \cup sessions.listed
  /\ pc = "over" /\ died \notin {"start", "list"} =>
       1 .. sessions.asked \subseteq sessions.retired

(* Tries, files and what GitLab was told.                                  *)
Settled ==
  /\ tries \in 0 .. MaxTries /\ (pc = "reserve" => tries < MaxTries)
  /\ exit \in {-1, 0, 1, 2}
  /\ files \subseteq {"junit.xml", "config.log"}
  /\ pc \notin {"logs", "abort", "tell", "exiting", "exited", "over"} => files = {}
  /\ pc \in {"logs", "abort"} => files \subseteq {"config.log"}
  /\ pc = "tell" => "junit.xml" \in files
  /\ gl = [pipeline |-> gl.pipeline, message |-> gl.message]
  /\ (files # {} \/ pc = "over") /\ pc \notin {"logs", "abort", "tell"} /\ opts.gitlab =>
       \/ gl.pipeline \in {"canceled", "success", "failed"}
       \/ "junit.xml" \in files /\ died = "tell"
       \/ "config.log" \in files /\ died \in {"logs", "abort"}

(* The report is about machines that are done with.                        *)
Reported ==
  "junit.xml" \in files =>
    /\ exit \in {0, 1}
    /\ \A m \in Machines : mach[m].proc = "none"
    /\ FailReports # {} => exit = 1
    /\ gl.message = "STABLE" => FailReports = {}
    /\ pc = "exiting" /\ opts.gitlab /\ FailReports # {} => gl.pipeline = "failed"

IInv ==
  /\ Typed /\ OneCommand /\ Truthful /\ Copies /\ InPhase /\ Heard /\ Held /\ Settled
  /\ Reported /\ TestsOnPrepared

-----------------------------------------------------------------------------
(* Machines and their tests. *)

LEMMA Constants ==
  /\ Retries \in Nat /\ MaxTries \in Nat /\ 1 <= MaxTries
  /\ \A s \in Suites : s \in Seq(Seq(Tests)) /\ Len(s) > 0
BY NodeRunnerAssumption DEF NodeRunnerAssumption

LEMMA SuiteParts ==
  ASSUME suite \in Suites
  PROVE  /\ Len(suite) \in Nat /\ Machines = 1 .. Len(suite)
         /\ \A m \in Machines : /\ suite[m] \in Seq(Tests)
                                /\ Len(suite[m]) \in Nat
                                /\ DOMAIN suite[m] = 1 .. Len(suite[m])
<1>1. suite \in Seq(Seq(Tests))
  BY Constants
<1>2. Len(suite) \in Nat /\ Machines = 1 .. Len(suite)
  BY <1>1, LenProperties DEF Machines
<1>3. ASSUME NEW m \in Machines
      PROVE  /\ suite[m] \in Seq(Tests)
             /\ Len(suite[m]) \in Nat
             /\ DOMAIN suite[m] = 1 .. Len(suite[m])
  <2>1. suite[m] \in Seq(Tests)
    BY <1>1, <1>2, <1>3, ElementOfSeq
  <2>2. QED
    BY <2>1, LenProperties
<1>4. QED
  BY <1>2, <1>3

LEMMA TestRuns ==
  ASSUME Typed, NEW m \in Machines, Running(m)
  PROVE  Current(m) \in TestsOf(m) /\ mach[m].ran + 1 \in Counts(m)
<1> DEFINE r == mach[m].ran
           l == Len(suite[m])
<1>1. r \in 0 .. l /\ r < l
  BY DEF Typed, Mach, Counts, Running
<1>2. l \in Nat /\ DOMAIN suite[m] = 1 .. l
  BY SuiteParts DEF Typed
<1> HIDE DEF r, l
<1>3. r + 1 \in 1 .. l /\ r + 1 \in 0 .. l
  BY <1>1, <1>2
<1>4. QED
  BY <1>2, <1>3 DEF Current, TestsOf, Counts, r, l

(* The setup of a run is never changed.                                    *)
LEMMA SetupStays ==
  ASSUME [Next]_vars
  PROVE  suite' = suite /\ fails' = fails /\ opts' = opts
<1>1. [Next]_vars => UNCHANGED setup
  BY DEF Next, RunnerStep, vars, InstallTmt, Create, GetNodes, TooFewNodes, StartMachines,
     ListSession, LookAt, WaitAgain, Waited, CreateAgain, Build, CopyLogs, StartPhase, Merge, Tell,
     Abort, Exit, Finally, Stop, ChildStep, CommandEnds, ChildDies, ReportBegins, TestEnds, TmtEnds,
     CopyEnds, Elsewhere
<1>2. QED
  BY <1>1 DEF setup

LEMMA SetupDefs ==
  ASSUME [Next]_vars
  PROVE  /\ Machines' = Machines
         /\ \A m : TestsOf(m)' = TestsOf(m) /\ Counts(m)' = Counts(m)
         /\ \A m : Tables(m)' = Tables(m) /\ Mach(m)' = Mach(m)
<1>1. suite' = suite
  BY SetupStays
<1>2. Machines' = Machines /\ \A m : TestsOf(m)' = TestsOf(m) /\ Counts(m)' = Counts(m)
  BY <1>1 DEF Machines, TestsOf, Counts
<1>3. \A m : Tables(m)' = Tables(m)
  BY <1>2 DEF Tables
<1>4. \A m : Mach(m)' = Mach(m)
  BY <1>2, <1>3 DEF Mach
<1>5. QED
  BY <1>2, <1>3, <1>4

-----------------------------------------------------------------------------
(* What the operations on a machine's record do. *)

Rest(r, s) ==
  r.ready = s.ready /\ r.ran = s.ran /\ r.tmt = s.tmt /\ r.summary = s.summary

LEMMA AsyncFields ==
  ASSUME NEW m, NEW r \in Mach(m)
  PROVE  /\ Async(r) \in Mach(m)
         /\ Async(r).proc = "running" /\ Async(r).pipe = "" /\ Async(r).last = "none"
         /\ Rest(Async(r), r) /\ Async(r).copied = r.copied
BY DEF Mach, Async, Rest

LEMMA FreshFields ==
  ASSUME suite \in Suites, NEW m \in Machines
  PROVE  LET r == Fresh(TestsOf(m))
         IN  /\ r \in Mach(m)
             /\ r.proc = "none" /\ r.pipe = "" /\ r.last = "none" /\ r.ready = {}
             /\ \A t \in TestsOf(m) : r.tmt[t] = "none" /\ r.copied[t] = "none"
<1>1. 0 \in Counts(m)
  BY SuiteParts DEF Counts
<1>2. [t \in TestsOf(m) |-> "none"] \in Tables(m)
  BY DEF Tables, Results
<1>3. QED
  BY <1>1, <1>2 DEF Fresh, Mach

LEMMA ReceivedFields ==
  ASSUME NEW m, NEW r \in Mach(m)
  PROVE  LET u == Received(r)
         IN  /\ u \in Mach(m) /\ u.proc = "none" /\ u.pipe = ""
             /\ r.pipe = "" => u.last = r.last
             /\ r.pipe # "" => u.last # "none"
             /\ u.last = "ok" <=> r.pipe = "ok" \/ (r.pipe = "" /\ r.last = "ok")
             /\ Rest(u, r) /\ u.copied = r.copied
BY DEF Mach, Received, Rest

LEMMA PolledFields ==
  ASSUME NEW m, NEW r \in Mach(m)
  PROVE  LET u == Polled(r)
         IN  /\ u \in Mach(m) /\ u.proc = r.proc /\ u.pipe = r.pipe /\ u.last = r.last
             /\ Rest(u, r)
             /\ \A t \in TestsOf(m) : u.copied[t] \in {r.copied[t], r.tmt[t]}
<1>1. DOMAIN r.tmt = TestsOf(m) /\ r.tmt \in Tables(m) /\ r.copied \in Tables(m)
  BY DEF Mach, Tables
<1>2. /\ CopyMissing(r) \in Tables(m)
      /\ \A t \in TestsOf(m) : CopyMissing(r)[t] \in {r.copied[t], r.tmt[t]}
  BY <1>1 DEF CopyMissing, Tables
<1>3. QED
  BY <1>2 DEF Mach, Polled, Rest

Ends == {"blocked", "ended"}
Pipes == {"", "ok", "bad", "eof"}
EndedWith(r, x, y) == [r EXCEPT !.proc = x, !.pipe = y]

LEMMA EndedFields ==
  ASSUME NEW m, NEW r \in Mach(m),
         NEW x \in Ends, NEW y \in Pipes
  PROVE  LET w == EndedWith(r, x, y)
         IN  /\ w \in Mach(m) /\ w.proc = x /\ w.pipe = y /\ w.last = r.last
             /\ Rest(w, r) /\ w.copied = r.copied
BY DEF Mach, Rest, Ends, Pipes, EndedWith

(* A report changes, and the number of tests that were run may.            *)
Noted(r, n, t, x) == [r EXCEPT !.ran = n, !.tmt = [@ EXCEPT ![t] = x]]

LEMMA NotedFields ==
  ASSUME NEW m, NEW r \in Mach(m), NEW n \in Counts(m), NEW t \in TestsOf(m), NEW x \in Results
  PROVE  LET w == Noted(r, n, t, x)
         IN  /\ w \in Mach(m) /\ w.proc = r.proc /\ w.pipe = r.pipe /\ w.last = r.last
             /\ w.ready = r.ready /\ w.copied = r.copied
             /\ \A q \in TestsOf(m) : w.tmt[q] = IF q = t THEN x ELSE r.tmt[q]
<1> DEFINE f == [r.tmt EXCEPT ![t] = x]
<1>1. r.tmt \in Tables(m)
  BY DEF Mach
<1>2. /\ f \in Tables(m)
      /\ \A q \in TestsOf(m) : f[q] = IF q = t THEN x ELSE r.tmt[q]
  BY <1>1 DEF Tables
<1>3. Noted(r, n, t, x) = [r EXCEPT !.ran = n, !.tmt = f]
  BY DEF Noted
<1> HIDE DEF f
<1>4. QED
  BY <1>2, <1>3 DEF Mach

(* Of the machines, a step of a child changes the record of its own.       *)
Only(m) ==
  /\ \A k \in Machines : k # m => mach'[k] = mach[k]
  /\ mach' = [k \in Machines |-> mach'[k]]

(* What a child may do to the record: it goes on, or ends; a good end is   *)
(* the truth.                                                              *)
Behaves(m, r, u) ==
  /\ u \in Mach(m) /\ u.last = r.last /\ r.ready \subseteq u.ready
  /\ u.proc # "none" /\ (u.pipe # "" <=> u.proc = "ended")
  /\ u.pipe = "ok" => IF phase = "runtests" THEN u.copied = u.tmt ELSE phase \in u.ready
  /\ \A t \in TestsOf(m) : u.tmt[t] = "none" => u.copied[t] = "none"

LEMMA CopiedAll ==
  ASSUME NEW m, NEW r \in Mach(m),
         \A t \in TestsOf(m) : r.tmt[t] = "none" => r.copied[t] = "none"
  PROVE  CopyTmtResults(r) = r.tmt
<1>1. DOMAIN r.tmt = TestsOf(m) /\ r.tmt \in Tables(m) /\ r.copied \in Tables(m)
  BY DEF Mach, Tables
<1>2. r.tmt = [t \in TestsOf(m) |-> r.tmt[t]]
  BY <1>1 DEF Tables
<1>3. QED
  BY <1>1, <1>2 DEF CopyTmtResults

LEMMA ChildMoves ==
  ASSUME Typed, OneCommand, Copies, InPhase, NEW m \in Machines, ChildStep(m)
  PROVE  /\ Elsewhere /\ Only(m)
         /\ mach[m].proc = "running" /\ mach[m].pipe = "" /\ mach[m].last = "none" /\ phase # ""
         /\ Behaves(m, mach[m], mach'[m])
<1> DEFINE r == mach[m]
           u == mach'[m]
<1>1. Elsewhere /\ r.proc = "running"
  BY DEF ChildStep, CommandEnds, ChildDies, ReportBegins, TestEnds, TmtEnds, CopyEnds, Running,
     InTmt, Child
<1>2. r \in Mach(m) /\ r.pipe = "" /\ r.last = "none" /\ phase # ""
  BY <1>1 DEF Typed, OneCommand
<1>3. \A t \in TestsOf(m) : r.tmt[t] = "none" => r.copied[t] = "none"
  BY DEF Copies
<1>4. mach = [k \in Machines |-> mach[k]]
  BY DEF Typed
<1> SUFFICES Only(m) /\ Behaves(m, r, u)
  BY <1>1, <1>2
<1> HIDE DEF r, u
<1>5. ASSUME NEW good \in BOOLEAN, NEW v \in Mach(m), Returns(m, good, v),
             v.last = r.last, r.ready \subseteq v.ready,
             good => IF phase = "runtests" THEN v.copied = v.tmt ELSE phase \in v.ready,
             \A t \in TestsOf(m) : v.tmt[t] = "none" => v.copied[t] = "none"
      PROVE  Only(m) /\ Behaves(m, r, u)
  <2>1. PICK x \in Ends, y \in Pipes :
          /\ mach' = [mach EXCEPT ![m] = [v EXCEPT !.proc = x, !.pipe = y]]
          /\ y # "" <=> x = "ended"
          /\ y = "ok" => good
    BY <1>5 DEF Returns, Ends, Pipes
  <2>2. u = EndedWith(v, x, y) /\ Only(m)
    BY <1>4, <2>1 DEF Only, EndedWith, u
  <2>3. /\ u \in Mach(m) /\ u.proc = x /\ u.pipe = y /\ u.last = v.last
        /\ Rest(u, v) /\ u.copied = v.copied
    <3> DEFINE w == EndedWith(v, x, y)
    <3>1. /\ w \in Mach(m) /\ w.proc = x /\ w.pipe = y /\ w.last = v.last
          /\ Rest(w, v) /\ w.copied = v.copied
      <4>1. v \in Mach(m) /\ x \in Ends /\ y \in Pipes
        BY <1>5, <2>1
      <4>2. QED
        BY ONLY <4>1, EndedFields
    <3> HIDE DEF w
    <3>2. QED
      BY <2>2, <3>1 DEF w
  <2>4. QED
    <3>1. x \in {"blocked", "ended"}
      BY <2>1 DEF Ends
    <3>2. QED
      BY <1>5, <2>1, <2>2, <2>3, <3>1 DEF Behaves, Rest
<1>6. CASE CommandEnds(m)
  <2>1. PICK good \in BOOLEAN :
          Returns(m, good, IF good THEN [r EXCEPT !.ready = @ \cup {phase}] ELSE r)
    BY <1>6 DEF CommandEnds, r
  <2> DEFINE v == IF good THEN [r EXCEPT !.ready = @ \cup {phase}] ELSE r
  <2>2. phase \in {"create", "install", "prepare"} /\ phase # "runtests"
    BY <1>2, <1>6 DEF CommandEnds, InPhase
  <2>3. /\ v \in Mach(m) /\ v.last = r.last /\ v.tmt = r.tmt /\ v.copied = r.copied
        /\ r.ready \subseteq v.ready /\ (good => phase \in v.ready)
    BY <1>2, <2>2 DEF Mach
  <2>4. /\ Returns(m, good, v)
        /\ good => IF phase = "runtests" THEN v.copied = v.tmt ELSE phase \in v.ready
        /\ \A t \in TestsOf(m) : v.tmt[t] = "none" => v.copied[t] = "none"
    BY <1>3, <2>1, <2>2, <2>3
  <2> HIDE DEF v
  <2>5. QED
    BY <1>5, <2>3, <2>4
<1>7. CASE ChildDies(m)
  <2>1. u = EndedWith(r, "ended", "eof") /\ Only(m)
    BY <1>4, <1>7 DEF ChildDies, Only, EndedWith, r, u
  <2>2. /\ u \in Mach(m) /\ u.proc = "ended" /\ u.pipe = "eof" /\ u.last = r.last
        /\ Rest(u, r) /\ u.copied = r.copied
    <3> DEFINE w == EndedWith(r, "ended", "eof")
    <3>1. /\ w \in Mach(m) /\ w.proc = "ended" /\ w.pipe = "eof" /\ w.last = r.last
          /\ Rest(w, r) /\ w.copied = r.copied
      <4>1. r \in Mach(m) /\ "ended" \in Ends /\ "eof" \in Pipes
        BY <1>2 DEF Ends, Pipes
      <4>2. QED
        BY ONLY <4>1, EndedFields
    <3> HIDE DEF w
    <3>2. QED
      BY <2>1, <3>1 DEF w
  <2>3. QED
    BY <1>3, <2>1, <2>2 DEF Behaves, Rest
<1>8. CASE ReportBegins(m)
  <2>1. Current(m) \in TestsOf(m) /\ r.ran \in Counts(m)
    BY <1>2, <1>8, TestRuns DEF ReportBegins, Mach, r
  <2>2. u = Noted(r, r.ran, Current(m), "partial") /\ Only(m)
    <3>1. mach' = [mach EXCEPT ![m].tmt[Current(m)] = "partial"]
      BY <1>8 DEF ReportBegins
    <3>2. u = [r EXCEPT !.tmt = [r.tmt EXCEPT ![Current(m)] = "partial"]] /\ Only(m)
      BY <1>4, <3>1 DEF Only, r, u
    <3>3. QED
      BY <1>2, <3>2 DEF Mach, Noted
  <2>3. /\ u \in Mach(m) /\ u.proc = r.proc /\ u.pipe = r.pipe /\ u.last = r.last
        /\ u.ready = r.ready /\ u.copied = r.copied
        /\ \A t \in TestsOf(m) : u.tmt[t] = IF t = Current(m) THEN "partial" ELSE r.tmt[t]
    <3> DEFINE w == Noted(r, r.ran, Current(m), "partial")
    <3>1. /\ w \in Mach(m) /\ w.proc = r.proc /\ w.pipe = r.pipe /\ w.last = r.last
          /\ w.ready = r.ready /\ w.copied = r.copied
          /\ \A t \in TestsOf(m) : w.tmt[t] = IF t = Current(m) THEN "partial" ELSE r.tmt[t]
      <4>1. /\ r \in Mach(m) /\ r.ran \in Counts(m) /\ Current(m) \in TestsOf(m)
            /\ "partial" \in Results
        BY <1>2, <2>1 DEF Results
      <4>2. QED
        BY <4>1, NotedFields
    <3> HIDE DEF w
    <3>2. QED
      BY <2>2, <3>1 DEF w
  <2>4. QED
    BY <1>1, <1>2, <1>3, <2>2, <2>3 DEF Behaves
<1>9. CASE TestEnds(m)
  <2> DEFINE x == IF r.tmt[Current(m)] = "partial" THEN "whole" ELSE r.tmt[Current(m)]
  <2>1. Current(m) \in TestsOf(m) /\ r.ran + 1 \in Counts(m)
    BY <1>9, TestRuns DEF TestEnds, r
  <2>2. x \in Results /\ (x = "none" <=> r.tmt[Current(m)] = "none")
    BY <1>2, <2>1 DEF Mach, Tables, Results
  <2>3. u = Noted(r, r.ran + 1, Current(m), x) /\ Only(m)
    <3>1. mach' = [mach EXCEPT ![m].ran = @ + 1,
                               ![m].tmt[Current(m)] = IF @ = "partial" THEN "whole" ELSE @]
      BY <1>9 DEF TestEnds
    <3>2. u = [r EXCEPT !.ran = r.ran + 1, !.tmt = [r.tmt EXCEPT ![Current(m)] = x]] /\ Only(m)
      BY <1>2, <1>4, <3>1 DEF Only, Mach, r, u
    <3>3. QED
      BY <1>2, <3>2 DEF Mach, Noted
  <2>4. /\ u \in Mach(m) /\ u.proc = r.proc /\ u.pipe = r.pipe /\ u.last = r.last
        /\ u.ready = r.ready /\ u.copied = r.copied
        /\ \A t \in TestsOf(m) : u.tmt[t] = IF t = Current(m) THEN x ELSE r.tmt[t]
    <3> HIDE DEF x
    <3> DEFINE w == Noted(r, r.ran + 1, Current(m), x)
    <3>1. /\ w \in Mach(m) /\ w.proc = r.proc /\ w.pipe = r.pipe /\ w.last = r.last
          /\ w.ready = r.ready /\ w.copied = r.copied
          /\ \A t \in TestsOf(m) : w.tmt[t] = IF t = Current(m) THEN x ELSE r.tmt[t]
      <4>1. /\ r \in Mach(m) /\ r.ran + 1 \in Counts(m) /\ Current(m) \in TestsOf(m)
            /\ x \in Results
        BY <1>2, <2>1, <2>2
      <4>2. QED
        BY <4>1, NotedFields
    <3> HIDE DEF w
    <3>2. QED
      BY <2>3, <3>1 DEF w
  <2> HIDE DEF x
  <2>5. QED
    BY <1>1, <1>2, <1>3, <2>2, <2>3, <2>4 DEF Behaves
<1>10. CASE TmtEnds(m)
  <2>1. CASE Returns(m, FALSE, r)
    BY <1>2, <1>3, <1>5, <2>1
  <2>2. ASSUME NEW x \in {"short", "full"}, mach' = [mach EXCEPT ![m].summary = x]
        PROVE  Only(m) /\ Behaves(m, r, u)
    <3>1. u = [r EXCEPT !.summary = x] /\ Only(m)
      BY <1>4, <2>2 DEF Only, r, u
    <3>2. /\ u \in Mach(m) /\ u.proc = r.proc /\ u.pipe = r.pipe /\ u.last = r.last
          /\ u.ready = r.ready /\ u.tmt = r.tmt /\ u.copied = r.copied
      BY <1>2, <3>1 DEF Mach
    <3>3. QED
      BY <1>1, <1>2, <1>3, <3>1, <3>2 DEF Behaves
  <2>3. \/ Returns(m, FALSE, r)
        \/ \E x \in {"short", "full"} : mach' = [mach EXCEPT ![m].summary = x]
    BY <1>10 DEF TmtEnds, Summary, r
  <2>4. QED
    BY <2>1, <2>2, <2>3
<1>11. CASE CopyEnds(m)
  <2> DEFINE some(S) == [t \in TestsOf(m) |-> IF t \in S THEN r.tmt[t] ELSE r.copied[t]]
  <2>0. CopyTmtResults(r) = r.tmt
    BY <1>2, <1>3, CopiedAll
  <2>1. CopyTmtResults(r) = r.tmt /\ r.tmt \in Tables(m) /\ r.copied \in Tables(m)
    BY <1>2, <2>0 DEF Mach
  <2>2. CASE Returns(m, TRUE, [r EXCEPT !.copied = r.tmt])
    <3> DEFINE v == [r EXCEPT !.copied = r.tmt]
    <3>1. v \in Mach(m) /\ v.last = r.last /\ v.tmt = r.tmt /\ v.copied = v.tmt /\ v.ready = r.ready
      BY <1>2, <2>1 DEF Mach
    <3>2. phase = "runtests"
      BY <1>11 DEF CopyEnds
    <3>3. Returns(m, TRUE, v)
      BY <2>2
    <3> HIDE DEF v
    <3>4. QED
      BY <1>5, <3>1, <3>2, <3>3
  <2>3. ASSUME NEW S \in SUBSET TestsOf(m), Returns(m, FALSE, [r EXCEPT !.copied = some(S)])
        PROVE  Only(m) /\ Behaves(m, r, u)
    <3> DEFINE v == [r EXCEPT !.copied = some(S)]
    <3>1. some(S) \in Tables(m) /\ \A t \in TestsOf(m) : some(S)[t] \in {r.tmt[t], r.copied[t]}
      BY <2>1 DEF Tables
    <3>2. /\ v \in Mach(m) /\ v.last = r.last /\ v.tmt = r.tmt /\ v.ready = r.ready
          /\ v.copied = some(S)
      BY <1>2, <3>1 DEF Mach
    <3>3. \A t \in TestsOf(m) : v.tmt[t] = "none" => v.copied[t] = "none"
      BY <1>3, <3>1, <3>2
    <3>4. Returns(m, FALSE, v)
      BY <2>3
    <3> HIDE DEF v, some
    <3>5. QED
      BY <1>5, <3>2, <3>3, <3>4
  <2>4. \/ Returns(m, TRUE, [r EXCEPT !.copied = r.tmt])
        \/ \E S \in SUBSET TestsOf(m) : Returns(m, FALSE, [r EXCEPT !.copied = some(S)])
    BY <2>1, <1>11 DEF CopyEnds, r
  <2> HIDE DEF some
  <2>5. QED
    BY <2>2, <2>3, <2>4
<1>12. QED
  BY <1>1, <1>2, <1>6, <1>7, <1>8, <1>9, <1>10, <1>11 DEF ChildStep, r, u

-----------------------------------------------------------------------------
(* What the steps of the runner do to the machines. *)

(* No report is among the artifacts of record r that tmt does not have.    *)
NoneInvented(m, r) == \A t \in TestsOf(m) : r.tmt[t] = "none" => r.copied[t] = "none"

(* A child is started.                                                     *)
Started(m, u) ==
  /\ u \in Mach(m) /\ u.proc = "running" /\ u.pipe = "" /\ u.last = "none"
  /\ NoneInvented(m, u)

LEMMA AsyncStarted ==
  ASSUME NEW m, NEW r \in Mach(m), NoneInvented(m, r)
  PROVE  Started(m, Async(r)) /\ Async(r).ready = r.ready
<1>1. /\ Async(r) \in Mach(m)
      /\ Async(r).proc = "running" /\ Async(r).pipe = "" /\ Async(r).last = "none"
      /\ Rest(Async(r), r) /\ Async(r).copied = r.copied
  BY AsyncFields
<1>2. QED
  BY <1>1 DEF Started, NoneInvented, Rest

LEMMA FreshStarted ==
  ASSUME Typed, NEW m \in Machines
  PROVE  Started(m, Async(Fresh(TestsOf(m))))
<1> DEFINE r == Fresh(TestsOf(m))
<1>1. r \in Mach(m) /\ \A t \in TestsOf(m) : r.tmt[t] = "none" /\ r.copied[t] = "none"
  BY FreshFields DEF Typed
<1> HIDE DEF r
<1>2. NoneInvented(m, r)
  BY <1>1 DEF NoneInvented
<1>3. Started(m, Async(r))
  BY <1>1, <1>2, AsyncStarted
<1>4. QED
  BY <1>3 DEF r

LEMMA Starting ==
  ASSUME Typed, Copies, StartMachines \/ StartPhase
  PROVE  /\ mach' = [k \in Machines |-> mach'[k]]
         /\ \A m \in Machines : Started(m, mach'[m])
         /\ StartPhase => \A m \in Machines : mach'[m].ready = mach[m].ready
<1>1. CASE StartMachines
  <2>1. mach' = [m \in Machines |-> Async(Fresh(TestsOf(m)))] /\ pc = "start"
    BY <1>1 DEF StartMachines
  <2>2. ~ StartPhase
    BY <2>1 DEF StartPhase
  <2>3. \A m \in Machines : mach'[m] = Async(Fresh(TestsOf(m)))
    BY <2>1
  <2>4. \A m \in Machines : Started(m, Async(Fresh(TestsOf(m))))
    BY FreshStarted
  <2>5. \A m \in Machines : Started(m, mach'[m])
    BY <2>3, <2>4
  <2>6. QED
    BY <2>1, <2>2, <2>5
<1>2. CASE StartPhase
  <2>1. mach' = [m \in Machines |-> Async(mach[m])]
    BY <1>2 DEF StartPhase, StartAll
  <2>2. ASSUME NEW m \in Machines
        PROVE  Started(m, mach'[m]) /\ mach'[m].ready = mach[m].ready
    <3>1. mach[m] \in Mach(m) /\ NoneInvented(m, mach[m])
      BY <2>2 DEF Typed, Copies, NoneInvented
    <3>2. Started(m, Async(mach[m])) /\ Async(mach[m]).ready = mach[m].ready
      BY <3>1, AsyncStarted
    <3>3. mach'[m] = Async(mach[m])
      BY <2>1, <2>2
    <3>4. QED
      BY <3>2, <3>3
  <2>3. QED
    BY <2>1, <2>2
<1>3. QED
  BY <1>1, <1>2

LEMMA Stopping ==
  ASSUME Typed, Stop
  PROVE  /\ mach' = [k \in Machines |-> mach'[k]]
         /\ \A m \in Machines :
              /\ mach'[m] \in Mach(m) /\ mach'[m].proc = "none" /\ mach'[m].pipe = ""
              /\ mach'[m].last = "none"
              /\ \A t \in TestsOf(m) : mach'[m].copied[t] = "none"
<1>1. mach' = [m \in Machines |-> Fresh(TestsOf(m))]
  BY DEF Stop
<1>2. ASSUME NEW m \in Machines
      PROVE  /\ mach'[m] \in Mach(m) /\ mach'[m].proc = "none" /\ mach'[m].pipe = ""
             /\ mach'[m].last = "none"
             /\ \A t \in TestsOf(m) : mach'[m].copied[t] = "none"
  <2> DEFINE r == Fresh(TestsOf(m))
  <2>1. /\ r \in Mach(m) /\ r.proc = "none" /\ r.pipe = "" /\ r.last = "none"
        /\ \A t \in TestsOf(m) : r.copied[t] = "none"
    BY <1>2, FreshFields DEF Typed
  <2>2. mach'[m] = r
    BY <1>1, <1>2
  <2> HIDE DEF r
  <2>3. QED
    BY <2>1, <2>2
<1>3. QED
  BY <1>1, <1>2

(* A look at a machine receives what its child has sent, or copies some of *)
(* the reports.                                                            *)
Seen(m, r, u) ==
  /\ u \in Mach(m) /\ u.ready = r.ready /\ u.tmt = r.tmt /\ NoneInvented(m, u)
  /\ \/ /\ r.proc \in {"running", "blocked"}
        /\ u.proc = r.proc /\ u.pipe = r.pipe /\ u.last = r.last
     \/ /\ r.proc \notin {"running", "blocked"}
        /\ u.proc = "none" /\ u.pipe = "" /\ u.copied = r.copied
        /\ u.last = "ok" <=> r.pipe = "ok" \/ (r.pipe = "" /\ r.last = "ok")
        /\ r.pipe = "" => u.last = r.last

LEMMA PolledSeen ==
  ASSUME NEW m, NEW r \in Mach(m), NoneInvented(m, r), r.proc \in {"running", "blocked"},
         NEW u \in {r, Polled(r)}
  PROVE  Seen(m, r, u)
<1>1. LET w == Polled(r)
      IN  /\ w \in Mach(m) /\ w.proc = r.proc /\ w.pipe = r.pipe /\ w.last = r.last
          /\ Rest(w, r)
          /\ \A t \in TestsOf(m) : w.copied[t] \in {r.copied[t], r.tmt[t]}
  BY PolledFields
<1>2. CASE u = r
  BY <1>2 DEF Seen
<1>3. CASE u = Polled(r)
  BY <1>1, <1>3 DEF Seen, NoneInvented, Rest
<1>4. QED
  BY <1>2, <1>3

LEMMA ReceivedSeen ==
  ASSUME NEW m, NEW r \in Mach(m), NoneInvented(m, r), r.proc \notin {"running", "blocked"}
  PROVE  Seen(m, r, Received(r))
<1>1. LET w == Received(r)
      IN  /\ w \in Mach(m) /\ w.proc = "none" /\ w.pipe = ""
          /\ r.pipe = "" => w.last = r.last
          /\ w.last = "ok" <=> r.pipe = "ok" \/ (r.pipe = "" /\ r.last = "ok")
          /\ Rest(w, r) /\ w.copied = r.copied
  BY ReceivedFields
<1>2. QED
  BY <1>1 DEF Seen, NoneInvented, Rest

LEMMA Looking ==
  ASSUME Typed, Copies, Heard, LookAt
  PROVE  /\ left[at] \in Machines /\ at \in DOMAIN left
         /\ Only(left[at]) /\ Seen(left[at], mach[left[at]], mach'[left[at]])
<1> DEFINE m == left[at]
           r == mach[m]
           u == mach'[m]
<1>1. at \in DOMAIN left /\ m \in Machines
  <2>1. left \in Seq(Machines) /\ at \in DOMAIN left
    BY DEF Heard, LookAt
  <2>2. DOMAIN left = 1 .. Len(left)
    BY <2>1, LenProperties
  <2>3. QED
    BY <2>1, <2>2, ElementOfSeq
<1>2. r \in Mach(m) /\ NoneInvented(m, r) /\ mach = [k \in Machines |-> mach[k]]
  BY <1>1 DEF Typed, Copies, NoneInvented
<1>3. Active(m) <=> r.proc \in {"running", "blocked"}
  BY DEF Active
<1>4. IF Active(m)
      THEN mach' = [mach EXCEPT ![m] = IF Polls THEN Polled(r) ELSE r]
      ELSE mach' = [mach EXCEPT ![m] = Received(r)]
  BY DEF LookAt
<1>5. Only(m)
  BY <1>1, <1>2, <1>4 DEF Only
<1>6. IF Active(m) THEN u \in {r, Polled(r)} ELSE u = Received(r)
  BY <1>1, <1>2, <1>4
<1> HIDE DEF r, u, m
<1>7. Seen(m, r, u)
  BY <1>2, <1>3, <1>6, PolledSeen, ReceivedSeen
<1>8. QED
  BY <1>1, <1>5, <1>7 DEF r, u, m

(* Nobody else touches them.                                               *)
LEMMA OtherSteps ==
  ASSUME [Next]_vars
  PROVE  \/ mach' = mach
         \/ StartMachines \/ StartPhase \/ Stop \/ LookAt
         \/ \E m \in Machines : ChildStep(m)
BY DEF Next, RunnerStep, vars, work, InstallTmt, Create, GetNodes, TooFewNodes, ListSession,
   WaitAgain, Waited, CreateAgain, Build, CopyLogs, Merge, Tell, Abort, Exit, Finally

-----------------------------------------------------------------------------
(* The invariant is kept: the machines. *)

(* The phase changes only where new commands are started or nothing is     *)
(* known of the machines yet.                                              *)
LEMMA PhaseChanges ==
  ASSUME InPhase, [Next]_vars
  PROVE  \/ phase' = phase
         \/ StartPhase
         \/ mach' = mach /\ phase = "" /\ phase' = "create"
BY DEF InPhase, Next, RunnerStep, vars, work, InstallTmt, Create, GetNodes, TooFewNodes,
   StartMachines, ListSession, LookAt, WaitAgain, Waited, CreateAgain, Build, CopyLogs, Merge, Tell,
   Abort, Exit, Finally, Stop, ChildStep, CommandEnds, ChildDies, ReportBegins, TestEnds, TmtEnds,
   CopyEnds, Elsewhere

(* In terms of each machine: what any step does to it.                     *)
LEMMA MachineSteps ==
  ASSUME Typed, OneCommand, Copies, InPhase, Heard, [Next]_vars, NEW m \in Machines
  PROVE  \/ mach'[m] = mach[m]
         \/ /\ StartMachines \/ StartPhase
            /\ Started(m, mach'[m])
            /\ StartPhase => mach'[m].ready = mach[m].ready
         \/ /\ Stop
            /\ mach'[m] \in Mach(m) /\ mach'[m].proc = "none" /\ mach'[m].pipe = ""
            /\ mach'[m].last = "none"
            /\ \A t \in TestsOf(m) : mach'[m].copied[t] = "none"
         \/ /\ LookAt /\ m = left[at]
            /\ Seen(m, mach[m], mach'[m])
         \/ /\ Elsewhere
            /\ mach[m].proc = "running" /\ mach[m].pipe = "" /\ mach[m].last = "none" /\ phase # ""
            /\ Behaves(m, mach[m], mach'[m])
<1>1. CASE mach' = mach
  BY <1>1
<1>2. CASE StartMachines \/ StartPhase
  BY <1>2, Starting
<1>3. CASE Stop
  BY <1>3, Stopping
<1>4. CASE LookAt
  BY <1>4, Looking DEF Only
<1>5. CASE \E k \in Machines : ChildStep(k)
  BY <1>5, ChildMoves DEF Only
<1>6. QED
  BY <1>1, <1>2, <1>3, <1>4, <1>5, OtherSteps

LEMMA TypedKept ==
  ASSUME Typed, OneCommand, Copies, InPhase, Heard, [Next]_vars
  PROVE  Typed'
<1>1. mach' = [k \in Machines |-> mach'[k]]
  <2>1. mach = [k \in Machines |-> mach[k]]
    BY DEF Typed
  <2>2. CASE mach' = mach
    BY <2>1, <2>2
  <2>3. CASE StartMachines \/ StartPhase \/ Stop
    BY <2>3, Starting, Stopping
  <2>4. CASE LookAt
    BY <2>4, Looking DEF Only
  <2>5. CASE \E k \in Machines : ChildStep(k)
    BY <2>5, ChildMoves DEF Only
  <2>6. QED
    BY <2>2, <2>3, <2>4, <2>5, OtherSteps
<1>2. ASSUME NEW m \in Machines PROVE mach'[m] \in Mach(m)
  BY <1>2, MachineSteps DEF Typed, Started, Seen, Behaves
<1>3. suite' = suite /\ Machines' = Machines /\ \A m : Mach(m)' = Mach(m)
  BY SetupStays, SetupDefs
<1>4. mach' = [k \in Machines' |-> mach'[k]]
  BY <1>1, <1>3
<1>5. \A m \in Machines' : mach'[m] \in Mach(m)'
  BY <1>2, <1>3
<1>6. QED
  BY <1>3, <1>4, <1>5 DEF Typed

LEMMA CopiesKept ==
  ASSUME Typed, OneCommand, Copies, InPhase, Heard, [Next]_vars
  PROVE  Copies'
<1>1. ASSUME NEW m \in Machines
      PROVE  \A t \in TestsOf(m) : mach'[m].tmt[t] = "none" => mach'[m].copied[t] = "none"
  <2> DEFINE r == mach[m]
             u == mach'[m]
  <2>1. NoneInvented(m, r)
    BY DEF Copies, NoneInvented
  <2>2. \/ u = r \/ Started(m, u) \/ Seen(m, r, u) \/ Behaves(m, r, u)
        \/ \A t \in TestsOf(m) : u.copied[t] = "none"
    BY MachineSteps
  <2> HIDE DEF r, u
  <2>3. NoneInvented(m, u)
    <3>1. CASE u = r
      BY <2>1, <3>1
    <3>2. CASE Started(m, u) \/ Seen(m, r, u)
      BY <3>2 DEF Started, Seen
    <3>3. CASE Behaves(m, r, u)
      BY <3>3 DEF Behaves, NoneInvented
    <3>4. CASE \A t \in TestsOf(m) : u.copied[t] = "none"
      BY <3>4 DEF NoneInvented
    <3>5. QED
      BY <2>2, <3>1, <3>2, <3>3, <3>4
  <2>4. QED
    BY <2>3 DEF NoneInvented, u
<1>2. Machines' = Machines /\ \A m : TestsOf(m)' = TestsOf(m)
  BY SetupDefs
<1>3. QED
  BY <1>1, <1>2 DEF Copies

LEMMA OneCommandKept ==
  ASSUME Typed, OneCommand, Copies, InPhase, Heard, [Next]_vars
  PROVE  OneCommand'
<1>1. ASSUME NEW m \in Machines
      PROVE  /\ mach'[m].pipe # "" <=> mach'[m].proc = "ended"
             /\ mach'[m].last # "none" => mach'[m].proc = "none"
             /\ phase' = "" => mach'[m].proc = "none" /\ mach'[m].last = "none"
  <2> DEFINE r == mach[m]
             u == mach'[m]
  <2>1. /\ r.pipe # "" <=> r.proc = "ended"
        /\ r.last # "none" => r.proc = "none"
        /\ phase = "" => r.proc = "none" /\ r.last = "none"
    BY DEF OneCommand
  <2>2. phase' = "" => phase = "" /\ ~ StartPhase
    BY PhaseChanges DEF StartPhase
  <2>3. StartMachines => phase' # ""
    BY DEF StartMachines, InPhase
  <2>4. CASE u = r
    BY <2>1, <2>2, <2>4
  <2>5. CASE (StartMachines \/ StartPhase) /\ Started(m, u)
    <3>1. u.proc = "running" /\ u.pipe = "" /\ u.last = "none"
      BY <2>5 DEF Started
    <3>2. QED
      BY <2>2, <2>3, <2>5, <3>1
  <2>6. CASE u.proc = "none" /\ u.pipe = "" /\ u.last = "none"
    BY <2>6
  <2>7. CASE Seen(m, r, u)
    <3> HIDE DEF r, u
    <3>1. QED
      BY <2>1, <2>2, <2>7 DEF Seen, r, u
  <2>8. CASE phase # "" /\ r.last = "none" /\ Behaves(m, r, u)
    <3>1. u.last = r.last /\ (u.pipe # "" <=> u.proc = "ended")
      BY <2>8 DEF Behaves
    <3>2. QED
      BY <2>2, <2>8, <3>1
  <2>9. QED
    BY <2>4, <2>5, <2>6, <2>7, <2>8, MachineSteps
<1>2. Machines' = Machines
  BY SetupDefs
<1>3. QED
  BY <1>1, <1>2 DEF OneCommand

LEMMA TruthfulKept ==
  ASSUME Typed, OneCommand, Truthful, Copies, InPhase, Heard, [Next]_vars
  PROVE  Truthful'
<1>1. ASSUME NEW m \in Machines, mach'[m].pipe = "ok" \/ mach'[m].last = "ok"
      PROVE  IF phase' = "runtests" THEN mach'[m].copied = mach'[m].tmt ELSE phase' \in mach'[m].ready
  <2> DEFINE r == mach[m]
             u == mach'[m]
  <2>1. /\ r.pipe = "ok" \/ r.last = "ok" =>
             IF phase = "runtests" THEN r.copied = r.tmt ELSE phase \in r.ready
        /\ r.pipe # "" <=> r.proc = "ended"
        /\ r.last # "none" => r.proc = "none"
        /\ phase = "" => r.proc = "none" /\ r.last = "none"
    BY DEF Truthful, Good, OneCommand
  <2>2. CASE u = r
    <3>1. phase' = phase \/ StartPhase
      BY <1>1, <2>1, <2>2, PhaseChanges
    <3>2. ~ StartPhase
      BY <1>1, <2>1, <2>2, Starting DEF Started
    <3>3. QED
      BY <1>1, <2>1, <2>2, <3>1, <3>2
  <2>3. CASE Started(m, u) \/ (u.pipe = "" /\ u.last = "none")
    BY <1>1, <2>3 DEF Started
  <2>4. CASE LookAt /\ Seen(m, r, u)
    <3>1. phase' = phase
      BY <2>4 DEF LookAt
    <3>2. u.ready = r.ready /\ u.tmt = r.tmt
      BY <2>4 DEF Seen
    <3>3. (r.pipe = "ok" \/ r.last = "ok") /\ u.copied = r.copied
      BY <1>1, <2>1, <2>4 DEF Seen
    <3>4. QED
      BY <2>1, <3>1, <3>2, <3>3
  <2>5. CASE Elsewhere /\ r.last = "none" /\ Behaves(m, r, u)
    BY <1>1, <2>5 DEF Elsewhere, Behaves
  <2>6. QED
    BY <2>2, <2>3, <2>4, <2>5, MachineSteps
<1>2. Machines' = Machines
  BY SetupDefs
<1>3. QED
  BY <1>1, <1>2 DEF Truthful, Good

-----------------------------------------------------------------------------
(* The invariant is kept: the runner. *)

LEMMA InPhaseKept ==
  ASSUME InPhase, [Next]_vars
  PROVE  InPhase'
<1>1. CASE InstallTmt
  BY <1>1 DEF InPhase, InstallTmt, GoOn
<1>2. CASE Create
  BY <1>2 DEF InPhase, Create
<1>3. CASE GetNodes
  BY <1>3 DEF InPhase, GetNodes, GoOn, Crash
<1>4. CASE StartMachines
  BY <1>4 DEF InPhase, StartMachines, GoOn
<1>5. CASE ListSession
  BY <1>5 DEF InPhase, ListSession, GoOn
<1>6. CASE LookAt
  BY <1>6 DEF InPhase, LookAt, GoOn
<1>7. CASE WaitAgain
  BY <1>7 DEF InPhase, WaitAgain
<1>8. CASE Waited
  <2>1. phase' = phase /\ phase \in {"create", "install", "prepare", "runtests"}
    BY <1>8 DEF InPhase, Waited
  <2>2. /\ (pc' = "again" /\ phase = "create") \/ pc' = After[phase]
        /\ pc = "wait" /\ died' = died
    BY <1>8 DEF Waited, GoOn
  <2>3. /\ phase = "create" => After[phase] = "build"
        /\ phase = "install" => After[phase] = "prepare"
        /\ phase = "prepare" => After[phase] = "runtests"
        /\ phase = "runtests" => After[phase] = "merge"
    BY DEF After
  <2>4. QED
    BY <2>1, <2>2, <2>3 DEF InPhase
<1>9. CASE CreateAgain
  BY <1>9 DEF InPhase, CreateAgain, GoOn, Crash
<1>10. CASE Build
  BY <1>10 DEF InPhase, Build, GoOn, Crash
<1>11. CASE StartPhase
  BY <1>11 DEF InPhase, StartPhase, StartAll, GoOn
<1>12. CASE Merge
  BY <1>12 DEF InPhase, Merge, Crash
<1>13. CASE Tell
  BY <1>13 DEF InPhase, Tell
<1>14. CASE Exit
  BY <1>14 DEF InPhase, Exit
<1>15. CASE Finally
  BY <1>15 DEF InPhase, Finally
<1>16. CASE Stop
  BY <1>16 DEF InPhase, Stop
<1>17. CASE \E m \in Machines : ChildStep(m)
  BY <1>17 DEF InPhase, ChildStep, CommandEnds, ChildDies, ReportBegins, TestEnds, TmtEnds,
     CopyEnds, Elsewhere, setup, work
<1>18. CASE UNCHANGED vars
  BY <1>18 DEF InPhase, vars, setup, work
<1>19. CASE TooFewNodes
  BY <1>19 DEF InPhase, TooFewNodes, Crash
<1>20. CASE CopyLogs
  BY <1>20 DEF InPhase, CopyLogs, GoOn, Crash
<1>21. CASE Abort
  BY <1>21 DEF InPhase, Abort
<1>22. QED
  BY <1>1, <1>2, <1>3, <1>4, <1>5, <1>6, <1>7, <1>8, <1>9, <1>10, <1>11, <1>12, <1>13, <1>14,
     <1>15, <1>16, <1>17, <1>18, <1>19, <1>20, <1>21 DEF Next, RunnerStep

(* All but one are left, in their order.                                   *)
LEMMA WithoutOne ==
  ASSUME NEW S, NEW s \in Seq(S), NEW i \in DOMAIN s
  PROVE  /\ Without(s, i) \in Seq(S)
         /\ \A k \in DOMAIN s : k # i => \E j \in DOMAIN Without(s, i) : Without(s, i)[j] = s[k]
<1> DEFINE t == Without(s, i)
           n == Len(s) - 1
<1>1. DOMAIN s = 1 .. Len(s) /\ Len(s) \in Nat /\ i \in 1 .. Len(s)
  BY LenProperties
<1>2. n \in Nat /\ Len(s) = n + 1
  BY <1>1
<1> HIDE DEF n
<1>3. t = [k \in 1 .. n |-> IF k < i THEN s[k] ELSE s[k + 1]]
  BY DEF Without, n
<1> HIDE DEF t
<1>4. \A k \in 1 .. n : k \in 1 .. Len(s) /\ k + 1 \in 1 .. Len(s)
  BY <1>2
<1>5. \A k \in 1 .. Len(s) : s[k] \in S
  BY <1>1, ElementOfSeq
<1>6. \A k \in 1 .. n : t[k] \in S
  BY <1>3, <1>4, <1>5
<1>7. t \in [1 .. n -> S]
  BY <1>3, <1>6
<1>8. t \in Seq(S)
  BY <1>2, <1>7, SeqDef
<1>9. ASSUME NEW k \in DOMAIN s, k # i PROVE \E j \in DOMAIN t : t[j] = s[k]
  <2>1. k \in Nat /\ 1 <= k /\ k <= n + 1 /\ i \in Nat /\ 1 <= i /\ i <= n + 1
    BY <1>1, <1>2, <1>9
  <2>2. CASE k < i
    <3>1. k \in 1 .. n
      BY <1>2, <2>1, <2>2
    <3>2. k \in DOMAIN t /\ t[k] = s[k]
      BY <1>3, <2>2, <3>1
    <3>3. QED
      BY <3>2
  <2>3. CASE ~ (k < i)
    <3>1. k - 1 \in 1 .. n /\ ~ (k - 1 < i) /\ (k - 1) + 1 = k
      BY <1>2, <1>9, <2>1, <2>3
    <3>2. k - 1 \in DOMAIN t /\ t[k - 1] = s[k]
      BY <1>3, <3>1
    <3>3. QED
      BY <3>2
  <2>4. QED
    BY <2>2, <2>3
<1>10. QED
  BY <1>8, <1>9 DEF t

(* Every machine is waited for once its command is started.                *)
LEMMA AllWaited ==
  ASSUME Typed, StartMachines \/ StartPhase
  PROVE  left' \in Seq(Machines) /\ Waiting' = Machines /\ at' \in Nat
<1>1. left' = [i \in 1 .. Len(suite) |-> i] /\ at' = 1
  BY DEF StartMachines, StartPhase, StartAll
<1>2. Len(suite) \in Nat /\ Machines = 1 .. Len(suite)
  BY SuiteParts DEF Typed
<1>3. left' \in [1 .. Len(suite) -> Machines] /\ DOMAIN left' = 1 .. Len(suite)
  BY <1>1, <1>2
<1>4. left' \in Seq(Machines)
  BY <1>2, <1>3, SeqDef
<1>5. Waiting' = Machines
  BY <1>1, <1>2, <1>3 DEF Waiting
<1>6. QED
  BY <1>1, <1>4, <1>5

(* A machine that the runner looks at leaves the list when its command has *)
(* ended, and then it was heard.                                           *)
LEMMA LookedAt ==
  ASSUME Typed, OneCommand, Copies, Heard, LookAt
  PROVE  /\ left' \in Seq(Machines) /\ at' \in Nat
         /\ \A k \in Machines : k \notin Waiting' =>
              k \notin Waiting \/ (k = left[at] /\ ~ Active(k))
         /\ \A k \in Machines : k # left[at] => mach'[k] = mach[k]
         /\ left[at] \in Waiting
<1>1. at \in DOMAIN left /\ left \in Seq(Machines) /\ at \in Nat
  BY DEF Heard, LookAt
<1>2. \A k \in Machines : k # left[at] => mach'[k] = mach[k]
  BY Looking DEF Only
<1>3. left[at] \in Waiting
  BY <1>1 DEF Waiting
<1>4. at' = at + 1
  BY DEF LookAt
<1>5. CASE Active(left[at])
  <2>1. left' = left
    BY <1>5 DEF LookAt
  <2>2. Waiting' = Waiting
    BY <2>1 DEF Waiting
  <2>3. QED
    BY <1>1, <1>2, <1>3, <1>4, <2>1, <2>2
<1>6. CASE ~ Active(left[at])
  <2>1. left' = Without(left, at)
    BY <1>6 DEF LookAt
  <2>2. /\ left' \in Seq(Machines)
        /\ \A i \in DOMAIN left : i # at => \E j \in DOMAIN left' : left'[j] = left[i]
    BY <1>1, <2>1, WithoutOne
  <2>3. \A k \in Machines : k \notin Waiting' => k \notin Waiting \/ k = left[at]
    BY <2>2 DEF Waiting
  <2>4. QED
    BY <1>1, <1>2, <1>3, <1>4, <1>6, <2>2, <2>3
<1>7. QED
  BY <1>5, <1>6

(* The runner passes over no machine: it goes on when each was heard.      *)
LEMMA HeardKept ==
  ASSUME Typed, OneCommand, Copies, InPhase, Heard, [Next]_vars
  PROVE  Heard'
<1> USE DEF Heard
<1>1. Machines' = Machines /\ Seq(Machines)' = Seq(Machines)
  BY SetupDefs
<1>2. ASSUME UNCHANGED work, UNCHANGED phase,
             \/ pc' \in {"create", "reserve", "start", "again", "logs", "abort", "exiting", "exited", "over"}
             \/ pc' = pc
      PROVE  Heard'
  BY <1>1, <1>2 DEF work, Waiting, AllFine, Aborts
<1>3. CASE InstallTmt
  BY <1>2, <1>3 DEF InstallTmt, GoOn
<1>4. CASE Create
  BY <1>1, <1>4 DEF Create, work
<1>5. CASE GetNodes
  BY <1>2, <1>5 DEF GetNodes, GoOn, Crash
<1>6. CASE StartMachines
  <2>1. left' \in Seq(Machines) /\ Waiting' = Machines /\ at' \in Nat /\ pc' = "list"
    BY <1>6, AllWaited DEF StartMachines, GoOn
  <2>2. QED
    BY <1>1, <2>1
<1>7. CASE ListSession
  BY <1>1, <1>7 DEF ListSession, GoOn, work, Waiting, AllFine, Aborts
<1>8. CASE LookAt
  <2> DEFINE m == left[at]
             r == mach[m]
             u == mach'[m]
  <2>1. /\ left' \in Seq(Machines) /\ at' \in Nat
        /\ \A k \in Machines : k \notin Waiting' => k \notin Waiting \/ (k = m /\ ~ Active(k))
        /\ \A k \in Machines : k # m => mach'[k] = mach[k]
        /\ m \in Waiting
    BY <1>8, LookedAt
  <2>2. phase' = phase /\ pc = "wait" /\ pc' \in {"wait", "abort"}
    BY <1>8 DEF LookAt, GoOn
  <2>3. ASSUME pc' = "wait", ~ Active(m) PROVE Aborts => u.last = "ok"
    BY <1>8, <2>3 DEF LookAt, GoOn
  <2>4. Seen(m, r, u)
    BY <1>8, Looking
  <2>5. ASSUME ~ Active(m) PROVE u.proc = "none"
    <3>1. r.proc \notin {"running", "blocked"}
      BY <2>5 DEF Active
    <3> HIDE DEF r, u
    <3>2. QED
      BY <2>4, <3>1 DEF Seen
  <2>6. ASSUME pc' = "wait", NEW k \in Machines, k \notin Waiting'
        PROVE  mach'[k].proc = "none" /\ (Aborts => mach'[k].last = "ok")
    <3>1. CASE k = m
      BY <2>1, <2>3, <2>5, <2>6, <3>1
    <3>2. CASE k # m
      BY <2>1, <2>2, <2>6, <3>2
    <3>3. QED
      BY <3>1, <3>2
  <2>7. Aborts' = Aborts
    BY <2>2 DEF Aborts
  <2>8. QED
    BY <1>1, <2>1, <2>2, <2>6, <2>7
<1>9. CASE WaitAgain
  BY <1>1, <1>9 DEF WaitAgain, Waiting, Aborts
<1>10. CASE Waited
  <2>1. Waiting = {} /\ pc = "wait" /\ UNCHANGED <<mach, left, at, phase>>
    BY <1>10 DEF Waited, Waiting, work
  <2>2. \A m \in Machines : mach[m].proc = "none" /\ (Aborts => mach[m].last = "ok")
    BY <2>1
  <2>3. phase \in {"create", "install", "prepare", "runtests"}
    BY <2>1 DEF InPhase
  <2>4. \/ pc' = "again" /\ phase = "create"
        \/ (phase = "create" => AllFine) /\ pc' = After[phase]
    BY <1>10 DEF Waited, GoOn
  <2>5. /\ phase = "create" => After[phase] = "build"
        /\ phase = "install" => After[phase] = "prepare"
        /\ phase = "prepare" => After[phase] = "runtests"
        /\ phase = "runtests" => After[phase] = "merge"
    BY DEF After
  <2>6. pc' \in {"build", "install", "prepare", "runtests"} => AllFine'
    BY <1>1, <2>1, <2>2, <2>3, <2>4, <2>5 DEF AllFine, Aborts
  <2>7. pc' \notin {"wait", "list"}
    BY <2>3, <2>4, <2>5
  <2>8. QED
    BY <1>1, <2>1, <2>2, <2>6, <2>7
<1>11. CASE CreateAgain
  BY <1>2, <1>11 DEF CreateAgain, GoOn, Crash
<1>12. CASE Build
  BY <1>1, <1>2, <1>12 DEF Build, GoOn, Crash, work, AllFine
<1>13. CASE StartPhase
  <2>1. left' \in Seq(Machines) /\ Waiting' = Machines /\ at' \in Nat /\ pc' = "wait"
    BY <1>13, AllWaited DEF StartPhase, StartAll, GoOn
  <2>2. QED
    BY <1>1, <2>1
<1>14. CASE Merge
  BY <1>1, <1>2, <1>14 DEF Merge, Crash, work
<1>15. CASE Tell
  BY <1>2, <1>15 DEF Tell
<1>16. CASE Exit
  BY <1>2, <1>16 DEF Exit
<1>17. CASE Finally
  BY <1>2, <1>17 DEF Finally
<1>18. CASE Stop
  BY <1>1, <1>18, EmptySeq DEF Stop
<1>19. CASE \E m \in Machines : ChildStep(m)
  <2>1. PICK m \in Machines : ChildStep(m)
    BY <1>19
  <2>2. /\ Elsewhere /\ mach[m].proc = "running" /\ mach[m].last = "none"
        /\ \A k \in Machines : k # m => mach'[k] = mach[k]
    BY <2>1, ChildMoves DEF Only
  <2>3. UNCHANGED <<left, at, phase, pc>>
    BY <2>2 DEF Elsewhere
  <2>4. pc = "wait" => m \in Waiting
    BY <2>2
  <2>5. pc \notin {"build", "install", "prepare", "runtests", "merge", "tell"}
    BY <2>2 DEF AllFine
  <2>6. Waiting' = Waiting /\ Aborts' = Aborts
    BY <2>3 DEF Waiting, Aborts
  <2>7. QED
    BY <1>1, <2>2, <2>3, <2>4, <2>5, <2>6
<1>20. CASE UNCHANGED vars
  BY <1>2, <1>20 DEF vars
<1>21. CASE TooFewNodes
  BY <1>2, <1>21 DEF TooFewNodes, Crash
<1>22. CASE CopyLogs
  BY <1>2, <1>22 DEF CopyLogs, GoOn, Crash
<1>23. CASE Abort
  BY <1>2, <1>23 DEF Abort
<1>24. QED
  BY <1>3, <1>4, <1>5, <1>6, <1>7, <1>8, <1>9, <1>10, <1>11, <1>12, <1>13, <1>14, <1>15, <1>16,
     <1>17, <1>18, <1>19, <1>20, <1>21, <1>22, <1>23 DEF Next, RunnerStep

(* A phase begins where the one before has succeeded on every node.        *)
LEMMA PreparedKept ==
  ASSUME Typed, OneCommand, Truthful, Copies, InPhase, Heard, TestsOnPrepared, [Next]_vars
  PROVE  TestsOnPrepared'
<1>1. Machines' = Machines
  BY SetupDefs
<1>2. CASE phase' = phase /\ ~ StartMachines /\ ~ StartPhase /\ ~ Stop
  <2>1. ASSUME NEW m \in Machines PROVE mach[m].ready \subseteq mach'[m].ready
    <3> DEFINE r == mach[m]
               u == mach'[m]
    <3> HIDE DEF r, u
    <3>1. u = r \/ Seen(m, r, u) \/ Behaves(m, r, u)
      BY <1>2, MachineSteps DEF r, u
    <3>2. r.ready \subseteq u.ready
      BY <3>1 DEF Seen, Behaves
    <3>3. QED
      BY <3>2 DEF r, u
  <2>2. died' = "" => died = ""
    BY <1>2 DEF InPhase, GoOn, Crash, StartAll, Next, RunnerStep, vars, InstallTmt, Create,
       GetNodes, TooFewNodes, ListSession, LookAt, WaitAgain, Waited, CreateAgain, Build, CopyLogs,
       Merge, Tell, Abort, Exit, Finally, ChildStep, CommandEnds, ChildDies, ReportBegins, TestEnds,
       TmtEnds, CopyEnds, Elsewhere
  <2>3. QED
    BY <1>1, <1>2, <2>1, <2>2 DEF TestsOnPrepared
<1>3. CASE StartMachines
  <2>1. phase' = "create"
    BY <1>3 DEF StartMachines, InPhase
  <2>2. QED
    BY <2>1 DEF TestsOnPrepared
<1>4. CASE StartPhase
  <2>1. phase' = pc /\ pc \in {"install", "prepare", "runtests"} /\ died' = died
    BY <1>4 DEF StartPhase, StartAll, GoOn
  <2>2. \A m \in Machines : mach'[m].ready = mach[m].ready
    BY <1>4, Starting
  <2>3. \A m \in Machines : mach[m].last = "ok"
    BY <2>1 DEF Heard, AllFine
  <2>4. /\ pc = "install" => phase = "create"
        /\ pc = "prepare" => phase = "install"
        /\ pc = "runtests" => phase = "prepare"
    BY <2>1 DEF InPhase
  <2>5. \A m \in Machines : phase \in mach[m].ready
    BY <2>1, <2>3, <2>4 DEF Truthful, Good
  <2>6. QED
    BY <1>1, <2>1, <2>2, <2>4, <2>5 DEF TestsOnPrepared
<1>5. CASE Stop
  <2>1. died' # ""
    BY <1>5 DEF Stop, InPhase
  <2>2. QED
    BY <2>1 DEF TestsOnPrepared
<1>6. CASE phase = "" /\ phase' = "create"
  BY <1>6 DEF TestsOnPrepared
<1>7. QED
  BY <1>2, <1>3, <1>4, <1>5, <1>6, PhaseChanges

(* Only the last session may not have been returned, and it is on the list *)
(* from where it is noted on.                                              *)
LEMMA HeldKept ==
  ASSUME Held, InPhase, [Next]_vars
  PROVE  Held'
<1> DEFINE a == sessions.asked
           l == sessions.listed
           t == sessions.retired
<1>1. Retries \in Nat
  BY Constants
<1>2. ASSUME UNCHANGED <<retry, sessions>>,
             \/ died' = died /\ (pc \in {"start", "list"} => pc' \in {"start", "list"})
             \/ died' = pc /\ pc \notin {"exiting", "exited", "over"},
             pc' \in {"tmt", "create", "reserve"} => pc \in {"tmt", "create", "reserve"},
             pc' = "over" => pc = "over",
             pc \in {"tmt", "create", "reserve", "abort", "exiting", "exited", "over"} =>
               pc' \in {"tmt", "create", "reserve", "abort", "exiting", "exited", "over"}
      PROVE  Held'
  <2>1. died' \notin {"start", "list"} =>
          died \notin {"start", "list"} /\ (pc \in {"start", "list"} => pc' \in {"start", "list"})
    BY <1>2 DEF InPhase
  <2>2. QED
    BY <1>2, <2>1 DEF Held
<1>3. CASE GetNodes
  <2>1. CASE UNCHANGED sessions
    BY <1>2, <1>3, <2>1 DEF Held, GetNodes, GoOn, Crash
  <2>2. CASE sessions' = [sessions EXCEPT !.asked = @ + 1] /\ pc' = "start" /\ died' = died
    <3>1. sessions' = [asked |-> a + 1, listed |-> l, retired |-> t]
      BY <2>2 DEF Held
    <3>2. pc = "reserve" /\ UNCHANGED <<retry, died>>
      BY <1>3, <2>2 DEF GetNodes
    <3>3. /\ a \in Nat /\ retry \in 0 .. Retries /\ a <= Retries - retry
          /\ 1 .. a \subseteq t /\ l \subseteq 1 .. a /\ t \subseteq 1 .. a
      BY <3>2 DEF Held
    <3> HIDE DEF a, l, t
    <3>4. /\ a + 1 \in Nat /\ a + 1 <= Retries - retry + 1 /\ 1 <= a + 1
          /\ l \subseteq 1 .. (a + 1) /\ t \subseteq 1 .. (a + 1)
          /\ 1 .. (a + 1) \subseteq t \cup {a + 1}
      BY <1>1, <3>3
    <3>5. QED
      BY <2>2, <3>1, <3>2, <3>3, <3>4 DEF Held
  <2>3. QED
    BY <1>3, <2>1, <2>2 DEF GetNodes, GoOn
<1>4. CASE ListSession
  <2>1. sessions' = [asked |-> a, listed |-> l \cup {a}, retired |-> t]
    BY <1>4 DEF ListSession, Held
  <2>2. pc = "list" /\ pc' = "wait" /\ UNCHANGED <<retry, died>>
    BY <1>4 DEF ListSession, GoOn
  <2>3. a \in Nat /\ 1 <= a /\ l \subseteq 1 .. a /\ 1 .. a \subseteq t \cup {a}
    BY <2>2 DEF Held
  <2> HIDE DEF a, l, t
  <2>4. l \cup {a} \subseteq 1 .. a /\ 1 .. a \subseteq t \cup (l \cup {a})
    BY <2>3
  <2>5. QED
    BY <2>1, <2>2, <2>3, <2>4 DEF Held, a, l, t
<1>5. CASE CreateAgain
  <2>1. CASE UNCHANGED <<retry, sessions>> /\ pc' = "exiting" /\ died' = pc
    BY <1>2, <1>5, <2>1 DEF CreateAgain
  <2>2. CASE /\ sessions' = [sessions EXCEPT !.retired = @ \cup {sessions.asked}]
             /\ retry' = IF retry = 0 THEN 0 ELSE retry - 1
             /\ IF retry = 0 THEN pc' = "abort" ELSE pc' = "create"
             /\ UNCHANGED died
    <3>1. sessions' = [asked |-> a, listed |-> l, retired |-> t \cup {a}]
      BY <2>2 DEF Held
    <3>2. pc = "again" /\ UNCHANGED died
      BY <1>5, <2>2 DEF CreateAgain
    <3>3. /\ a \in Nat /\ 1 <= a /\ retry \in 0 .. Retries /\ a <= Retries - retry + 1
          /\ 1 .. a \subseteq t \cup {a} /\ l \subseteq 1 .. a /\ t \subseteq 1 .. a
      BY <3>2 DEF Held
    <3> HIDE DEF a, l, t
    <3>4. 1 .. a \subseteq t \cup {a} /\ t \cup {a} \subseteq 1 .. a
      BY <3>3
    <3>5. /\ retry' \in 0 .. Retries /\ a <= Retries - retry' + 1
          /\ pc' = "create" => a <= Retries - retry'
          /\ pc' \in {"abort", "create"}
      BY <1>1, <2>2, <3>3
    <3>6. QED
      BY <3>1, <3>2, <3>3, <3>4, <3>5 DEF Held
  <2>3. QED
    BY <1>5, <2>1, <2>2 DEF CreateAgain, Crash, GoOn
<1>6. CASE Finally
  <2>1. sessions' = [asked |-> a, listed |-> l, retired |-> t \cup l]
    BY <1>6 DEF Finally, Held
  <2>2. pc = "exited" /\ pc' = "over" /\ UNCHANGED <<retry, died>>
    BY <1>6 DEF Finally
  <2>3. QED
    BY <2>1, <2>2 DEF Held
<1>7. CASE Stop
  <2>1. /\ died' = IF died = "" THEN pc ELSE died
        /\ pc' = "exited" /\ UNCHANGED <<retry, sessions>>
    BY <1>7 DEF Stop
  <2>2. died' \notin {"start", "list"} => pc \notin {"start", "list"} /\ died \notin {"start", "list"}
    BY <2>1 DEF InPhase
  <2>3. QED
    BY <2>1, <2>2 DEF Held
<1>8. CASE InstallTmt
  BY <1>2, <1>8 DEF InstallTmt, GoOn
<1>9. CASE Create
  BY <1>2, <1>9 DEF Create
<1>10. CASE StartMachines
  BY <1>2, <1>10 DEF StartMachines, GoOn
<1>11. CASE LookAt
  BY <1>2, <1>11 DEF LookAt, GoOn
<1>12. CASE WaitAgain
  BY <1>2, <1>12 DEF WaitAgain
<1>13. CASE Waited
  <2>1. phase \in {"create", "install", "prepare", "runtests"}
    BY <1>13 DEF Waited, InPhase
  <2>2. pc' \in {"again", "build", "prepare", "runtests", "merge"}
    BY <1>13, <2>1 DEF Waited, GoOn, After
  <2>3. QED
    BY <1>2, <1>13, <2>2 DEF Waited, GoOn
<1>14. CASE Build
  BY <1>2, <1>14 DEF Build, GoOn, Crash
<1>15. CASE StartPhase
  BY <1>2, <1>15 DEF StartPhase, StartAll, GoOn
<1>16. CASE Merge
  BY <1>2, <1>16 DEF Merge, Crash
<1>17. CASE Tell
  BY <1>2, <1>17 DEF Tell
<1>18. CASE Exit
  BY <1>2, <1>18 DEF Exit
<1>19. CASE \E m \in Machines : ChildStep(m)
  BY <1>2, <1>19 DEF ChildStep, CommandEnds, ChildDies, ReportBegins, TestEnds, TmtEnds, CopyEnds,
     Elsewhere
<1>20. CASE UNCHANGED vars
  BY <1>2, <1>20 DEF vars
<1>21. CASE TooFewNodes
  BY <1>2, <1>21 DEF TooFewNodes, Crash
<1>22. CASE CopyLogs
  BY <1>2, <1>22 DEF CopyLogs, GoOn, Crash
<1>23. CASE Abort
  BY <1>2, <1>23 DEF Abort
<1>24. QED
  BY <1>3, <1>4, <1>5, <1>6, <1>7, <1>8, <1>9, <1>10, <1>11, <1>12, <1>13, <1>14, <1>15, <1>16,
     <1>17, <1>18, <1>19, <1>20, <1>21, <1>22, <1>23 DEF Next, RunnerStep

(* What was written and told.                                              *)
LEMMA SettledKept ==
  ASSUME Settled, InPhase, [Next]_vars
  PROVE  Settled'
<1> USE DEF Settled
<1>1. MaxTries \in Nat /\ 1 <= MaxTries
  BY Constants
<1>2. opts' = opts
  BY SetupStays
<1>3. ASSUME UNCHANGED <<tries, files, exit, gl, died>>,
             pc' = "reserve" => pc = "reserve", pc' = "over" => pc = "over",
             pc' = "tell" <=> pc = "tell",
             pc \in {"exiting", "exited", "over"} => pc' \in {"exiting", "exited", "over"},
             pc \in {"logs", "abort"} => pc' \in {"logs", "abort"}
      PROVE  Settled'
  BY <1>2, <1>3
<1>4. ASSUME UNCHANGED <<files, tries>>, Crash, pc \notin {"exiting", "exited", "over", "tell", "abort"}
      PROVE  Settled'
  BY <1>2, <1>4 DEF Crash
<1>5. ASSUME NEW next, GoOn(next), UNCHANGED <<files, tries>>, next \notin {"reserve", "tell", "over"},
             pc \notin {"logs", "abort", "tell", "exiting", "exited", "over"}
      PROVE  Settled'
  BY <1>2, <1>3, <1>5 DEF GoOn
<1>6. CASE InstallTmt
  BY <1>5, <1>6 DEF InstallTmt
<1>7. CASE Create
  <2>1. gl' = [pipeline |-> gl'.pipeline, message |-> gl'.message]
    BY <1>7 DEF Create, Told
  <2>2. QED
    BY <1>1, <1>2, <1>7, <2>1 DEF Create
<1>8. CASE GetNodes
  <2>1. pc = "reserve" /\ tries \in 0 .. MaxTries /\ tries < MaxTries /\ files = {} /\ UNCHANGED files
    BY <1>8 DEF GetNodes
  <2>2. tries' \in 0 .. MaxTries
    BY <1>1, <1>8, <2>1 DEF GetNodes
  <2>3. CASE Crash
    BY <1>2, <2>1, <2>2, <2>3 DEF Crash
  <2>4. CASE GoOn("start") \/ (GoOn("reserve") /\ tries' < MaxTries)
    BY <1>2, <2>1, <2>2, <2>4 DEF GoOn
  <2>5. QED
    BY <1>1, <1>8, <2>1, <2>2, <2>3, <2>4 DEF GetNodes
<1>9. CASE StartMachines
  BY <1>5, <1>9 DEF StartMachines
<1>10. CASE ListSession
  BY <1>5, <1>10 DEF ListSession
<1>11. CASE LookAt
  <2>1. GoOn("abort") \/ GoOn("wait")
    BY <1>11 DEF LookAt
  <2>2. QED
    BY <1>5, <1>11, <2>1 DEF LookAt
<1>12. CASE WaitAgain
  BY <1>3, <1>12 DEF WaitAgain
<1>13. CASE Waited
  <2>1. phase \in {"create", "install", "prepare", "runtests"}
    BY <1>13 DEF Waited, InPhase
  <2>2. /\ phase = "create" => After[phase] = "build"
        /\ phase = "install" => After[phase] = "prepare"
        /\ phase = "prepare" => After[phase] = "runtests"
        /\ phase = "runtests" => After[phase] = "merge"
    BY DEF After
  <2>3. GoOn(IF phase = "create" /\ ~AllFine THEN "again" ELSE After[phase])
    BY <1>13 DEF Waited
  <2>4. QED
    BY <1>5, <1>13, <2>1, <2>2, <2>3 DEF Waited
<1>14. CASE CreateAgain
  BY <1>4, <1>5, <1>14 DEF CreateAgain
<1>15. CASE Build
  <2>1. pc = "build" /\ files = {} /\ UNCHANGED tries
    BY <1>15 DEF Build
  <2>2. CASE GoOn("install") /\ files' = files
    BY <1>5, <2>1, <2>2
  <2>3. CASE Crash /\ files' = files
    BY <1>4, <2>1, <2>3
  <2>4. CASE GoOn("logs") /\ files' \in {files, files \cup {"config.log"}}
    BY <1>2, <2>1, <2>4 DEF GoOn
  <2>5. QED
    BY <1>15, <2>2, <2>3, <2>4 DEF Build
<1>16. CASE StartPhase
  BY <1>5, <1>16 DEF StartPhase, StartAll
<1>17. CASE Merge
  <2>1. pc = "merge" /\ files = {} /\ UNCHANGED tries
    BY <1>17 DEF Merge
  <2>2. CASE Crash /\ UNCHANGED files
    BY <1>4, <2>1, <2>2
  <2>3. CASE /\ gl' = [gl EXCEPT !.message = IF SummaryExit = 0 THEN "STABLE" ELSE "UNSTABLE"]
             /\ files' = files \cup {"junit.xml"} /\ exit' = JunitExit /\ pc' = "tell"
    <3>1. gl' = [pipeline |-> gl'.pipeline, message |-> gl'.message] /\ exit' \in {0, 1}
      BY <2>3 DEF JunitExit
    <3>2. QED
      BY <1>2, <2>1, <2>3, <3>1
  <2>4. QED
    BY <1>17, <2>2, <2>3 DEF Merge
<1>18. CASE Tell
  <2>1. /\ gl' = [pipeline |-> gl'.pipeline, message |-> gl'.message]
        /\ opts.gitlab => gl'.pipeline \in {"success", "failed"}
    BY <1>18 DEF Tell, Told
  <2>2. QED
    BY <1>2, <1>18, <2>1 DEF Tell
<1>19. CASE Exit
  BY <1>3, <1>19 DEF Exit
<1>20. CASE Finally
  <2>1. /\ gl' = [pipeline |-> gl'.pipeline, message |-> gl'.message]
        /\ files = {} /\ opts.gitlab => gl'.pipeline = "canceled"
        /\ files # {} => gl' = gl
    BY <1>20 DEF Finally, Told
  <2>2. QED
    BY <1>2, <1>20, <2>1 DEF Finally
<1>21. CASE Stop
  <2>1. /\ died' = IF died = "" THEN pc ELSE died
        /\ pc' = "exited" /\ pc \notin {"exited", "over"} /\ UNCHANGED <<tries, exit, gl, files>>
    BY <1>21 DEF Stop
  <2>2. CASE pc = "exiting"
    BY <1>2, <2>1, <2>2
  <2>3. CASE pc # "exiting"
    BY <1>2, <2>1, <2>3 DEF InPhase
  <2>4. QED
    BY <2>2, <2>3
<1>22. CASE \E m \in Machines : ChildStep(m)
  BY <1>3, <1>22 DEF ChildStep, CommandEnds, ChildDies, ReportBegins, TestEnds, TmtEnds, CopyEnds,
     Elsewhere
<1>23. CASE TooFewNodes
  BY <1>4, <1>23 DEF TooFewNodes
<1>24. CASE CopyLogs
  <2>1. pc = "logs" /\ UNCHANGED <<files, tries>>
    BY <1>24 DEF CopyLogs
  <2>2. CASE GoOn("abort")
    BY <1>3, <2>1, <2>2 DEF GoOn
  <2>3. CASE Crash
    BY <1>4, <2>1, <2>3
  <2>4. QED
    BY <1>24, <2>2, <2>3 DEF CopyLogs
<1>25. CASE Abort
  <2>1. /\ gl' = [pipeline |-> gl'.pipeline, message |-> gl'.message] /\ exit' \in {1, 2}
        /\ opts.gitlab => gl'.pipeline = "canceled"
    BY <1>25 DEF Abort, Told
  <2>2. QED
    BY <1>2, <1>25, <2>1 DEF Abort
<1>26. CASE UNCHANGED vars
  BY <1>3, <1>26 DEF vars
<1>27. QED
  BY <1>6, <1>7, <1>8, <1>9, <1>10, <1>11, <1>12, <1>13, <1>14, <1>15, <1>16, <1>17, <1>18,
     <1>19, <1>20, <1>21, <1>22, <1>23, <1>24, <1>25, <1>26 DEF Next, RunnerStep

(* No report of a failed test is left out of a result that is all good.    *)
LEMMA StableIsClean ==
  ASSUME SummaryExit = 0
  PROVE  FailReports = {}
BY DEF SummaryExit, FailedTests, FailReports

LEMMA ReportedKept ==
  ASSUME Typed, OneCommand, Copies, InPhase, Heard, Settled, Reported, [Next]_vars
  PROVE  Reported'
<1>1. Machines' = Machines /\ (\A m : TestsOf(m)' = TestsOf(m)) /\ fails' = fails /\ opts' = opts
  BY SetupStays, SetupDefs
<1>2. mach' = mach => FailReports' = FailReports
  BY <1>1 DEF FailReports
<1>3. CASE Merge
  <2>1. pc = "merge" /\ "junit.xml" \notin files /\ mach' = mach
    BY <1>3 DEF Merge, work, Settled
  <2>2. CASE files' = files
    BY <2>1, <2>2 DEF Reported
  <2>3. CASE /\ gl' = [gl EXCEPT !.message = IF SummaryExit = 0 THEN "STABLE" ELSE "UNSTABLE"]
             /\ exit' = JunitExit /\ pc' = "tell"
    <3>1. gl'.message = "STABLE" => FailReports = {}
      BY <2>3, StableIsClean DEF Settled
    <3>2. exit' \in {0, 1} /\ (FailReports # {} => exit' = 1)
      BY <2>3 DEF JunitExit
    <3>3. \A m \in Machines : mach'[m].proc = "none"
      BY <2>1 DEF Heard
    <3>4. QED
      BY <1>1, <1>2, <2>1, <2>3, <3>1, <3>2, <3>3 DEF Reported
  <2>4. QED
    BY <1>3, <2>2, <2>3 DEF Merge
<1>4. CASE Build \/ CopyLogs \/ Abort
  <2>1. "junit.xml" \notin files'
    BY <1>4 DEF Build, CopyLogs, Abort, Settled
  <2>2. QED
    BY <2>1 DEF Reported
<1>5. CASE "junit.xml" \in files /\ ~ Merge /\ ~ Build /\ ~ CopyLogs /\ ~ Abort
  <2>1. /\ pc \in {"tell", "exiting", "exited", "over"} /\ files # {}
        /\ exit \in {0, 1} /\ \A m \in Machines : mach[m].proc = "none"
        /\ FailReports # {} => exit = 1
        /\ gl.message = "STABLE" => FailReports = {}
        /\ pc = "exiting" /\ opts.gitlab /\ FailReports # {} => gl.pipeline = "failed"
    BY <1>5 DEF Settled, Reported
  <2>2. CASE Tell
    <3>1. /\ mach' = mach /\ gl'.message = gl.message /\ pc' = "exiting"
          /\ opts.gitlab /\ exit = 1 => gl'.pipeline = "failed"
          /\ exit' \in {exit, 1}
      BY <2>2 DEF Tell, work, Told, Settled
    <3>2. QED
      BY <1>1, <1>2, <2>1, <3>1 DEF Reported
  <2>3. CASE Exit \/ Finally
    BY <1>1, <1>2, <2>1, <2>3 DEF Exit, Finally, work, Reported
  <2>4. CASE Stop
    <3>1. FailReports' = {}
      BY <1>1, <2>4, Stopping DEF FailReports
    <3>2. \A m \in Machines : mach'[m].proc = "none"
      BY <2>4, Stopping
    <3>3. pc' = "exited" /\ exit' = exit
      BY <2>4 DEF Stop
    <3>4. QED
      BY <1>1, <2>1, <3>1, <3>2, <3>3 DEF Reported
  <2>5. CASE \E m \in Machines : ChildStep(m)
    BY <2>1, <2>5, ChildMoves
  <2>6. CASE UNCHANGED vars
    BY <1>1, <1>2, <2>1, <2>6 DEF vars, work, Reported
  <2>7. QED
    BY <1>5, <2>1, <2>2, <2>3, <2>4, <2>5, <2>6 DEF Next, RunnerStep, InstallTmt, Create, GetNodes,
       TooFewNodes, StartMachines, ListSession, LookAt, WaitAgain, Waited, CreateAgain, StartPhase
<1>6. CASE "junit.xml" \notin files /\ ~ Merge /\ ~ Build /\ ~ CopyLogs /\ ~ Abort
  <2>1. files' = files
    BY <1>6 DEF Next, RunnerStep, vars, InstallTmt, Create, GetNodes, TooFewNodes, StartMachines,
       ListSession, LookAt, WaitAgain, Waited, CreateAgain, StartPhase, Tell, Abort, Exit, Finally,
       Stop, ChildStep, CommandEnds, ChildDies, ReportBegins, TestEnds, TmtEnds, CopyEnds, Elsewhere
  <2>2. QED
    BY <1>6, <2>1 DEF Reported
<1>7. QED
  BY <1>3, <1>4, <1>5, <1>6

-----------------------------------------------------------------------------
(* The invariant holds at the start and in every state. *)

LEMMA IInvAtFirst ==
  ASSUME Init
  PROVE  IInv
<1>1. suite \in Suites /\ mach = [m \in Machines |-> Fresh(TestsOf(m))]
  BY DEF Init
<1>2. ASSUME NEW m \in Machines
      PROVE  /\ mach[m] \in Mach(m)
             /\ mach[m].proc = "none" /\ mach[m].pipe = "" /\ mach[m].last = "none"
             /\ \A t \in TestsOf(m) : mach[m].copied[t] = "none"
  <2> DEFINE r == Fresh(TestsOf(m))
  <2>1. /\ r \in Mach(m) /\ r.proc = "none" /\ r.pipe = "" /\ r.last = "none"
        /\ \A t \in TestsOf(m) : r.copied[t] = "none"
    BY <1>1, <1>2, FreshFields
  <2>2. mach[m] = r
    BY <1>1, <1>2
  <2> HIDE DEF r
  <2>3. QED
    BY <2>1, <2>2
<1>3. Typed
  BY <1>1, <1>2 DEF Typed
<1>4. OneCommand /\ Truthful /\ Copies
  BY <1>2 DEF OneCommand, Truthful, Good, Copies
<1>5. InPhase /\ TestsOnPrepared
  BY DEF Init, InPhase, TestsOnPrepared
<1>6. Heard
  BY EmptySeq DEF Init, Heard
<1>7. Held
  <2>1. sessions = [asked |-> 0, listed |-> {}, retired |-> {}] /\ retry = Retries /\ pc = "tmt"
    BY DEF Init
  <2>2. sessions.asked = 0 /\ sessions.listed = {} /\ sessions.retired = {}
    BY <2>1
  <2>3. /\ retry \in 0 .. Retries /\ 0 <= Retries - retry /\ 0 <= Retries - retry + 1
        /\ 1 .. 0 = {}
    BY <2>1, Constants
  <2>4. QED
    BY <2>1, <2>2, <2>3 DEF Held
<1>8. Settled /\ Reported
  <2>1. /\ tries = 0 /\ files = {} /\ pc = "tmt" /\ exit = -1
        /\ gl = [pipeline |-> "pending", message |-> ""]
    BY DEF Init
  <2>2. 0 \in 0 .. MaxTries
    BY Constants
  <2>3. QED
    BY <2>1, <2>2 DEF Settled, Reported
<1>9. QED
  BY <1>3, <1>4, <1>5, <1>6, <1>7, <1>8 DEF IInv

LEMMA IInvAlways == Spec => []IInv
<1>1. Init => IInv
  BY IInvAtFirst
<1>2. IInv /\ [Next]_vars => IInv'
  <2> SUFFICES ASSUME IInv, [Next]_vars PROVE IInv'
    OBVIOUS
  <2>1. Typed' /\ OneCommand' /\ Truthful' /\ Copies'
    BY TypedKept, OneCommandKept, TruthfulKept, CopiesKept DEF IInv
  <2>2. InPhase' /\ Heard' /\ TestsOnPrepared'
    BY InPhaseKept, HeardKept, PreparedKept DEF IInv
  <2>3. Held' /\ Settled' /\ Reported'
    BY HeldKept, SettledKept, ReportedKept DEF IInv
  <2>4. QED
    BY <2>1, <2>2, <2>3 DEF IInv
<1>3. QED
  BY <1>1, <1>2, PTL DEF Spec

-----------------------------------------------------------------------------
(* What the runs check *)

(* The variables have their types, whatever the children send: the         *)
(* sessions are at most one more than the retries of create_machines, and  *)
(* something is in a pipe only when its child has ended.                   *)
THEOREM RunnerTypeCorrect == Spec => []TypeOK
<1>1. IInv => TypeOK
  <2> SUFFICES ASSUME IInv PROVE TypeOK
    OBVIOUS
  <2>1. /\ exit \in {-1, 0, 1, 2} /\ tries \in 0 .. MaxTries
        /\ files \subseteq {"junit.xml", "config.log"}
    BY DEF IInv, Settled
  <2>2. /\ retry \in 0 .. Retries /\ sessions.asked <= Retries + 1
        /\ sessions.listed \cup sessions.retired \subseteq 1 .. sessions.asked
    <3> DEFINE a == sessions.asked
    <3>1. /\ retry \in 0 .. Retries /\ a \in Nat /\ a <= Retries - retry + 1
          /\ sessions.listed \cup sessions.retired \subseteq 1 .. a
      BY DEF IInv, Held
    <3> HIDE DEF a
    <3>2. a <= Retries + 1
      BY <3>1, Constants
    <3>3. QED
      BY <3>1, <3>2 DEF a
  <2>3. ASSUME NEW m \in Machines
        PROVE  /\ mach[m].proc \in {"none", "running", "blocked", "ended"}
               /\ mach[m].pipe \in {"", "ok", "bad", "eof"}
               /\ mach[m].pipe # "" => mach[m].proc = "ended"
               /\ mach[m].last \in {"none", "ok", "bad"}
               /\ \A t \in TestsOf(m) : mach[m].tmt[t] \in Results /\ mach[m].copied[t] \in Results
               /\ mach[m].ran \in 0 .. Len(suite[m])
    <3>1. mach[m] \in Mach(m)
      BY <2>3 DEF IInv, Typed
    <3>2. mach[m].pipe # "" => mach[m].proc = "ended"
      BY <2>3 DEF IInv, OneCommand
    <3>3. mach[m].ran \in 0 .. Len(suite[m])
      BY <3>1 DEF Mach, Counts
    <3>4. QED
      BY <3>1, <3>2, <3>3 DEF Mach, Tables
  <2>4. QED
    BY <2>1, <2>2, <2>3 DEF TypeOK
<1>2. QED
  BY <1>1, IInvAlways, PTL

(* However many machines there are and however their children end: tests   *)
(* begin only when every machine is created, has NetworkManager installed  *)
(* and is prepared (wait_for_machines, main).                              *)
THEOREM TestsAreOnPrepared == Spec => []TestsOnPrepared
<1>1. IInv => TestsOnPrepared
  BY DEF IInv
<1>2. QED
  BY <1>1, IInvAlways, PTL

(* A report that was polled while it was written is replaced before the    *)
(* results are merged (poll_tmt_results, _copy_tmt_results).               *)
THEOREM ReportsAreWhole == Spec => []ReportsWhole
<1>1. IInv => ReportsWhole
  BY DEF IInv, ReportsWhole, Truthful, Good, InPhase
<1>2. QED
  BY <1>1, IInvAlways, PTL

(* A failed test whose report is among the artifacts fails the pipeline,   *)
(* whatever became of its machine (merge_machines_results).                *)
THEOREM FailuresAreTold == Spec => []FailureTold
<1>1. IInv => FailureTold
  BY DEF IInv, FailureTold, Reported
<1>2. QED
  BY <1>1, IInvAlways, PTL

(* Never are two sessions held, however often machines are asked for, and  *)
(* the end of the job gives all of them back but for the one gap of the    *)
(* statement (create_machines, the finally block of runner.groovy).        *)
THEOREM SessionsAreReturned == Spec => []SessionsReturned
<1>1. IInv => SessionsReturned
  <2> SUFFICES ASSUME IInv PROVE SessionsReturned
    OBVIOUS
  <2> DEFINE a == sessions.asked
             t == sessions.retired
  <2>1. /\ 1 .. a \subseteq t \cup {a} /\ t \subseteq 1 .. a
        /\ pc = "over" /\ died \notin {"start", "list"} => 1 .. a \subseteq t
    BY DEF IInv, Held
  <2>2. (1 .. a) \ t \subseteq {a}
    BY <2>1
  <2>3. Cardinality((1 .. a) \ t) <= 1
    <3>1. (1 .. a) \ t = {} \/ (1 .. a) \ t = {a}
      BY <2>2
    <3>2. Cardinality({}) = 0 /\ Cardinality({a}) = 1
      BY FS_EmptySet, FS_Singleton
    <3> HIDE DEF a, t
    <3>3. QED
      BY <3>1, <3>2
  <2>4. QED
    BY <2>1, <2>3 DEF SessionsReturned
<1>2. QED
  BY <1>1, IInvAlways, PTL

(* Aborted, crashed or stopped, a job that is over has settled its         *)
(* pipeline, but for the two gaps of the statement (build, _abort, the     *)
(* finally block of runner.groovy).                                        *)
THEOREM PipelinesAreSettled == Spec => []PipelineSettled
<1>1. IInv => PipelineSettled
  BY DEF IInv, PipelineSettled, Settled
<1>2. QED
  BY <1>1, IInvAlways, PTL
=============================================================================
