------------------------- MODULE MergeRequestProofs -------------------------
(***************************************************************************)
(* What holds of the builds that the events of merge requests start, and   *)
(* of their jobs, for every set of processes, every sequence of events and *)
(* every mapper.yaml.                                                      *)
(***************************************************************************)
EXTENDS MergeRequest, MapperProofs, SequenceTheorems, FiniteSetTheorems

-----------------------------------------------------------------------------
(* The processes of the trigger.                                           *)

Pcs == {"idle", "nothing", "check", "create", "echo", "look", "build", "recorded"}
Shas == {Events[k].commit : k \in DOMAIN Events}
AllParams == {Trigger!Params(Events[k]) : k \in DOMAIN Events} \cup {Trigger!Defaults}
AllReleases == UNION {Trigger!Releases(r) : r \in AllParams}

TriggerTyped ==
  /\ proc \in [Procs -> [pc : Pcs, event : {0} \cup DOMAIN Events, todo : SUBSET AllReleases,
                         params : AllParams, beside : SUBSET Procs]]
  /\ \A p \in Procs : proc[p].pc # "idle" => proc[p].event \in DOMAIN Events
  /\ builds \in Seq([by : Procs, release : AllReleases, commit : Shas \cup {"None"}])
  /\ head \in Shas \cup {""}

Sha(p) == Events[proc[p].event].commit
CommitNow(p) == Trigger!Commit(Events[proc[p].event])
Pc(p) == proc[p].pc

(* What a build was started for: by a process that had decided to, for the *)
(* commit of its event, or for none if that was the head of main already.  *)
Genuine ==
  \A i \in DOMAIN builds :
    LET p == builds[i].by
    IN  /\ Pc(p) \in {"build", "recorded"}
        /\ \/ builds[i].commit = Sha(p)
           \/ builds[i].commit = "None" /\ head = Sha(p)

(* Of two processes that are both about to build the second to decide saw  *)
(* the first.                                                              *)
Seen ==
  \A p, q \in Procs :
    p # q /\ Pc(p) = "build" /\ Pc(q) = "build" =>
      p \in proc[q].beside \/ q \in proc[p].beside

(* What was built by a process that is done is on record, unless main has  *)
(* moved to it before or the file was emptied.                             *)
OnRecord ==
  \A i \in DOMAIN builds :
    Pc(builds[i].by) = "recorded" => builds[i].commit \in known \cup {head} \cup lost

(* A process that has looked and is going to build has nothing before it   *)
(* of its commit, but of processes beside it and what was lost.            *)
Fresh ==
  \A q \in Procs : \A i \in DOMAIN builds :
    LET p == builds[i].by
    IN  /\ p # q /\ Pc(q) = "build" /\ Trigger!Looks(q)
        /\ p \notin proc[q].beside /\ q \notin proc[p].beside
        /\ builds[i].commit \notin lost \cup {"None"}
        => builds[i].commit # CommitNow(q)

TriggerInv ==
  /\ TriggerTyped
  /\ Genuine
  /\ Seen
  /\ OnRecord
  /\ Fresh
  /\ AgainOnlyBeside

LEMMA NoSuchCommit == ASSUME NEW k \in DOMAIN Events PROVE Events[k].commit \notin {"", "None"}
BY MergeRequestAssumption DEF MergeRequestAssumption

LEMMA Verdicts ==
  ASSUME NEW e
  PROVE  /\ Trigger!Verdict(e) \in {"nothing", "check", "build"}
         /\ e.kind = "merge_request" /\ e.action \in {"update", "approved"}
              => Trigger!Verdict(e) # "build"
BY DEF Trigger!Verdict

(* The process of each build is one. *)
LEMMA BuiltBy ==
  ASSUME TriggerTyped, NEW i \in DOMAIN builds
  PROVE  /\ builds[i].by \in Procs
         /\ builds[i].commit \in Shas \cup {"None"}
<1> DEFINE R == [by : Procs, release : AllReleases, commit : Shas \cup {"None"}]
<1>1. builds \in Seq(R)
  BY DEF TriggerTyped
<1> HIDE DEF R
<1>2. builds[i] \in R
  BY <1>1, LenProperties, ElementOfSeq
<1>3. QED
  BY <1>2 DEF R

(* Of a step that touches one process that has built nothing. *)
LEMMA OthersKeep ==
  ASSUME TriggerInv, TriggerTyped', NEW p \in Procs,
         Pc(p) \notin {"build", "recorded"},
         UNCHANGED <<builds, head>>, known \cup lost \subseteq known' \cup lost', lost \subseteq lost',
         \A x \in Procs : x # p => proc'[x] = proc[x]
  PROVE  Genuine' /\ OnRecord' /\ AgainOnlyBeside'
<1>1. \A i \in DOMAIN builds : builds[i].by \in Procs /\ builds[i].by # p
  BY BuiltBy DEF TriggerInv, Genuine
<1>2. \A i \in DOMAIN builds : proc'[builds[i].by] = proc[builds[i].by]
  BY <1>1
<1>3. Genuine'
  BY <1>1, <1>2 DEF TriggerInv, Genuine, Pc, Sha
<1>4. OnRecord'
  BY <1>1, <1>2 DEF TriggerInv, OnRecord, Pc
<1>5. AgainOnlyBeside'
  BY <1>1, <1>2 DEF TriggerInv, AgainOnlyBeside, Trigger!AgainOnlyBeside, Trigger!Looks
<1>6. QED
  BY <1>3, <1>4, <1>5

LEMMA ReceiveKeeps ==
  ASSUME TriggerInv, NEW p \in Procs, NEW k \in DOMAIN Events, Trigger!Receive(p, k)
  PROVE  TriggerInv'
<1> DEFINE e == Events[k]
           r == [pc |-> Trigger!Verdict(e), event |-> k,
                 todo |-> Trigger!Releases(Trigger!Params(e)), params |-> Trigger!Params(e),
                 beside |-> Trigger!Building]
<1>0. TriggerTyped
  BY DEF TriggerInv
<1>1. /\ Pc(p) = "idle"
      /\ proc' = [proc EXCEPT ![p] = r]
      /\ UNCHANGED <<known, lost, builds, head>>
  BY DEF Trigger!Receive, Trigger!file, Pc
<1>2. r \in [pc : Pcs, event : {0} \cup DOMAIN Events, todo : SUBSET AllReleases,
             params : AllParams, beside : SUBSET Procs]
  <2>1. r.pc \in Pcs
    BY Verdicts DEF Pcs
  <2>2. Trigger!Params(e) \in AllParams
    BY DEF AllParams
  <2>3. Trigger!Releases(Trigger!Params(e)) \subseteq AllReleases
    BY <2>2 DEF AllReleases
  <2>4. Trigger!Building \in SUBSET Procs
    BY DEF Trigger!Building
  <2>5. QED
    BY <2>1, <2>2, <2>3, <2>4
<1>3. /\ r.event = k /\ r.pc = Trigger!Verdict(e) /\ r.beside = {q \in Procs : Pc(q) = "build"}
  BY DEF Trigger!Building, Pc
<1> HIDE DEF r
<1>4. proc'[p] = r /\ \A x \in Procs : x # p => proc'[x] = proc[x]
  BY <1>0, <1>1 DEF TriggerTyped
<1>5. TriggerTyped'
  BY <1>0, <1>1, <1>2, <1>3, <1>4 DEF TriggerTyped
<1>6. Genuine' /\ OnRecord' /\ AgainOnlyBeside'
  BY <1>1, <1>4, <1>5, OthersKeep
<1>7. Seen'
  BY <1>1, <1>3, <1>4 DEF TriggerInv, Seen, Pc
<1>8. Fresh'
  <2> SUFFICES ASSUME NEW q \in Procs, NEW i \in DOMAIN builds,
                      builds[i].by # q, Pc(q)' = "build", Trigger!Looks(q)',
                      builds[i].by \notin proc'[q].beside, q \notin proc'[builds[i].by].beside,
                      builds[i].commit \notin lost \cup {"None"}
               PROVE  builds[i].commit # CommitNow(q)'
    BY <1>1 DEF Fresh
  <2>1. builds[i].by \in Procs /\ builds[i].by # p
    BY <1>0, <1>1, BuiltBy DEF TriggerInv, Genuine
  <2>2. q # p
    BY <1>3, <1>4, Verdicts DEF Trigger!Looks, Pc
  <2>3. proc'[q] = proc[q] /\ proc'[builds[i].by] = proc[builds[i].by]
    BY <1>4, <2>1, <2>2
  <2>4. Trigger!Looks(q) /\ CommitNow(q)' = CommitNow(q) /\ Pc(q) = "build"
    BY <1>1, <2>3 DEF Trigger!Looks, CommitNow, Trigger!Commit, Pc
  <2>5. QED
    BY <2>1, <2>3, <2>4 DEF TriggerInv, Fresh
<1>9. QED
  BY <1>5, <1>6, <1>7, <1>8 DEF TriggerInv

(* Until it has looked a process builds nothing, whatever becomes of the   *)
(* file.                                                                   *)
LEMMA BeforeLook ==
  ASSUME TriggerInv, NEW p \in Procs, NEW w \in {"create", "echo", "look"},
         Pc(p) \in {"check", "create", "echo"}, proc' = [proc EXCEPT ![p].pc = w],
         UNCHANGED <<builds, head>>, known \cup lost \subseteq known' \cup lost', lost \subseteq lost'
  PROVE  TriggerInv'
<1> DEFINE R == [pc : Pcs, event : {0} \cup DOMAIN Events, todo : SUBSET AllReleases,
                 params : AllParams, beside : SUBSET Procs]
           r == [proc[p] EXCEPT !.pc = w]
<1>1. TriggerTyped /\ proc \in [Procs -> R] /\ proc[p] \in R
  BY DEF TriggerInv, TriggerTyped
<1>2. w \in Pcs /\ w \notin {"idle", "build", "recorded"}
  BY DEF Pcs
<1>3. r \in R /\ r.pc = w /\ r.event = proc[p].event /\ r.beside = proc[p].beside
  BY <1>1, <1>2
<1> HIDE DEF r
<1>4. /\ proc' \in [Procs -> R]
      /\ proc'[p] = r /\ \A x \in Procs : x # p => proc'[x] = proc[x]
  BY <1>1, <1>3 DEF r
<1>5. proc[p].event \in DOMAIN Events
  BY <1>1 DEF TriggerTyped, Pc
<1>6. TriggerTyped'
  BY <1>1, <1>3, <1>4, <1>5 DEF TriggerTyped
<1>7. Genuine' /\ OnRecord' /\ AgainOnlyBeside'
  BY <1>4, <1>6, OthersKeep
<1>8. Seen'
  BY <1>2, <1>3, <1>4 DEF TriggerInv, Seen, Pc
<1>9. Fresh'
  <2> SUFFICES ASSUME NEW q \in Procs, NEW i \in DOMAIN builds,
                      builds[i].by # q, Pc(q)' = "build", Trigger!Looks(q)',
                      builds[i].by \notin proc'[q].beside, q \notin proc'[builds[i].by].beside,
                      builds[i].commit \notin lost' \cup {"None"}
               PROVE  builds[i].commit # CommitNow(q)'
    BY DEF Fresh
  <2>1. builds[i].by \in Procs /\ builds[i].by # p
    BY <1>1, BuiltBy DEF TriggerInv, Genuine
  <2>2. q # p
    BY <1>2, <1>3, <1>4 DEF Pc
  <2>3. proc'[q] = proc[q] /\ proc'[builds[i].by] = proc[builds[i].by]
    BY <1>4, <2>1, <2>2
  <2>4. Trigger!Looks(q) /\ CommitNow(q)' = CommitNow(q) /\ Pc(q) = "build"
    BY <2>3 DEF Trigger!Looks, CommitNow, Trigger!Commit, Pc
  <2>5. QED
    BY <2>1, <2>3, <2>4 DEF TriggerInv, Fresh
<1>10. QED
  BY <1>6, <1>7, <1>8, <1>9 DEF TriggerInv

(* Of the file nothing goes but what is noted as lost.                     *)
LEMMA FileKeeps ==
  ASSUME TriggerInv, NEW p \in Procs, Trigger!Check(p) \/ Trigger!Create(p) \/ Trigger!Echo(p)
  PROVE  TriggerInv'
<1>1. CASE Trigger!Check(p)
  <2>1. /\ \E w \in {"create", "look"} : proc' = [proc EXCEPT ![p].pc = w]
        /\ Pc(p) = "check" /\ UNCHANGED <<known, lost, builds, head>>
    BY <1>1 DEF Trigger!Check, Trigger!file, Pc
  <2>2. QED
    BY <2>1, BeforeLook
<1>2. CASE Trigger!Create(p)
  <2>1. /\ proc' = [proc EXCEPT ![p].pc = "echo"] /\ Pc(p) = "create"
        /\ lost' = lost \cup known /\ UNCHANGED <<builds, head>>
    BY <1>2 DEF Trigger!Create, Pc
  <2>2. QED
    BY <2>1, BeforeLook
<1>3. CASE Trigger!Echo(p)
  <2>1. PICK c : known' = known \ {c} /\ lost' = lost \cup (known \cap {c})
    BY <1>3 DEF Trigger!Echo
  <2>2. proc' = [proc EXCEPT ![p].pc = "look"] /\ Pc(p) = "echo" /\ UNCHANGED <<builds, head>>
    BY <1>3 DEF Trigger!Echo, Pc
  <2>3. known \cup lost \subseteq known' \cup lost' /\ lost \subseteq lost'
    BY <2>1
  <2>4. QED
    BY <2>2, <2>3, BeforeLook
<1>4. QED
  BY <1>1, <1>2, <1>3

LEMMA LookKeeps ==
  ASSUME TriggerInv, NEW p \in Procs, Trigger!Look(p)
  PROVE  TriggerInv'
<1> DEFINE r == [proc[p] EXCEPT !.pc = IF CommitNow(p) \in known \ {"None"} THEN "nothing" ELSE "build",
                                !.beside = Trigger!Building]
<1>0. TriggerTyped
  BY DEF TriggerInv
<1>1. /\ Pc(p) = "look"
      /\ proc' = [proc EXCEPT ![p] = r]
      /\ UNCHANGED <<known, lost, builds, head>>
  BY <1>0 DEF Trigger!Look, Trigger!file, Pc, CommitNow, TriggerTyped
<1>2. r \in [pc : Pcs, event : {0} \cup DOMAIN Events, todo : SUBSET AllReleases,
             params : AllParams, beside : SUBSET Procs]
  <2>1. proc[p] \in [pc : Pcs, event : {0} \cup DOMAIN Events, todo : SUBSET AllReleases,
                     params : AllParams, beside : SUBSET Procs]
    BY <1>0 DEF TriggerTyped
  <2>2. (IF CommitNow(p) \in known \ {"None"} THEN "nothing" ELSE "build") \in Pcs /\ Trigger!Building \in SUBSET Procs
    BY DEF Pcs, Trigger!Building
  <2>3. QED
    BY <2>1, <2>2
<1>3. /\ r.event = proc[p].event /\ r.beside = {q \in Procs : Pc(q) = "build"}
      /\ r.pc = IF CommitNow(p) \in known \ {"None"} THEN "nothing" ELSE "build"
  <2>1. proc[p] \in [pc : Pcs, event : {0} \cup DOMAIN Events, todo : SUBSET AllReleases,
                     params : AllParams, beside : SUBSET Procs]
    BY <1>0 DEF TriggerTyped
  <2>2. Trigger!Building = {q \in Procs : Pc(q) = "build"}
    BY DEF Trigger!Building, Pc
  <2> DEFINE w == IF CommitNow(p) \in known \ {"None"} THEN "nothing" ELSE "build"
             z == Trigger!Building
  <2> HIDE DEF w, z
  <2>3. /\ [proc[p] EXCEPT !.pc = w, !.beside = z].event = proc[p].event
        /\ [proc[p] EXCEPT !.pc = w, !.beside = z].beside = z
        /\ [proc[p] EXCEPT !.pc = w, !.beside = z].pc = w
    BY <2>1
  <2>4. QED
    BY <2>2, <2>3 DEF w, z
<1> HIDE DEF r
<1>4. proc'[p] = r /\ \A x \in Procs : x # p => proc'[x] = proc[x]
  BY <1>0, <1>1 DEF TriggerTyped
<1>5. TriggerTyped'
  BY <1>0, <1>1, <1>2, <1>3, <1>4 DEF TriggerTyped, Pc
<1>6. Genuine' /\ OnRecord' /\ AgainOnlyBeside'
  BY <1>1, <1>4, <1>5, OthersKeep
<1>7. Seen'
  BY <1>1, <1>3, <1>4 DEF TriggerInv, Seen, Pc
<1>8. Fresh'
  <2> SUFFICES ASSUME NEW q \in Procs, NEW i \in DOMAIN builds,
                      builds[i].by # q, Pc(q)' = "build", Trigger!Looks(q)',
                      builds[i].by \notin proc'[q].beside, q \notin proc'[builds[i].by].beside,
                      builds[i].commit \notin lost \cup {"None"}
               PROVE  builds[i].commit # CommitNow(q)'
    BY <1>1 DEF Fresh
  <2>1. builds[i].by \in Procs /\ builds[i].by # p /\ Pc(builds[i].by) \in {"build", "recorded"}
    BY <1>0, <1>1, BuiltBy DEF TriggerInv, Genuine
  <2>2. CommitNow(q)' = CommitNow(q)
    BY <1>1, <1>3, <1>4 DEF CommitNow, Trigger!Commit
  <2>3. CASE q # p
    <3>1. proc'[q] = proc[q] /\ proc'[builds[i].by] = proc[builds[i].by]
      BY <1>4, <2>1, <2>3
    <3>2. Trigger!Looks(q) /\ Pc(q) = "build"
      BY <3>1 DEF Trigger!Looks, Pc
    <3>3. QED
      BY <2>1, <2>2, <3>1, <3>2 DEF TriggerInv, Fresh
  <2>4. CASE q = p
    <3>1. CommitNow(p) \notin known \ {"None"}
      BY <1>3, <1>4, <2>4 DEF Pc
    <3>2. Pc(builds[i].by) = "recorded"
      BY <1>3, <1>4, <2>1, <2>4
    <3>3. builds[i].commit \in known \cup {head}
      BY <3>2 DEF TriggerInv, OnRecord
    <3>4. CommitNow(p) # head
      <4>1. proc[p].event \in DOMAIN Events
        BY <1>0, <1>1 DEF TriggerTyped, Pc
      <4>2. head # "None"
        BY <1>0, NoSuchCommit DEF TriggerTyped, Shas
      <4>3. QED
        BY <4>2 DEF CommitNow, Trigger!Commit
    <3>5. QED
      BY <2>2, <2>4, <3>1, <3>3, <3>4
  <2>5. QED
    BY <2>3, <2>4
<1>9. QED
  BY <1>5, <1>6, <1>7, <1>8 DEF TriggerInv

LEMMA RecordKeeps ==
  ASSUME TriggerInv, NEW p \in Procs, Trigger!Record(p)
  PROVE  TriggerInv'
<1> DEFINE r == [proc[p] EXCEPT !.pc = "recorded"]
<1>0. TriggerTyped
  BY DEF TriggerInv
<1>1. /\ Pc(p) = "build"
      /\ proc' = [proc EXCEPT ![p] = r]
      /\ known' = known \cup {CommitNow(p)}
      /\ UNCHANGED <<lost, builds, head>>
  BY <1>0 DEF Trigger!Record, Pc, CommitNow, TriggerTyped
<1>2. r \in [pc : Pcs, event : {0} \cup DOMAIN Events, todo : SUBSET AllReleases,
             params : AllParams, beside : SUBSET Procs]
  <2>1. proc[p] \in [pc : Pcs, event : {0} \cup DOMAIN Events, todo : SUBSET AllReleases,
                     params : AllParams, beside : SUBSET Procs]
    BY <1>0 DEF TriggerTyped
  <2>2. "recorded" \in Pcs
    BY DEF Pcs
  <2>3. QED
    BY <2>1, <2>2
<1>3. r.event = proc[p].event /\ r.beside = proc[p].beside /\ r.pc = "recorded"
  <2>1. proc[p] \in [pc : Pcs, event : {0} \cup DOMAIN Events, todo : SUBSET AllReleases,
                     params : AllParams, beside : SUBSET Procs]
    BY <1>0 DEF TriggerTyped
  <2>2. QED
    BY <2>1
<1> HIDE DEF r
<1>4. proc'[p] = r /\ \A x \in Procs : x # p => proc'[x] = proc[x]
  BY <1>0, <1>1 DEF TriggerTyped
<1>5. TriggerTyped'
  BY <1>0, <1>1, <1>2, <1>3, <1>4 DEF TriggerTyped, Pc
<1>6. \A x \in Procs : proc'[x].event = proc[x].event /\ proc'[x].beside = proc[x].beside
  BY <1>3, <1>4
<1>7. \A i \in DOMAIN builds : builds[i].by \in Procs
  BY <1>0, BuiltBy
<1>8. \A x \in Procs :
        /\ Sha(x)' = Sha(x) /\ CommitNow(x)' = CommitNow(x)
        /\ Trigger!Looks(x)' <=> Trigger!Looks(x)
        /\ Pc(x)' = IF x = p THEN "recorded" ELSE Pc(x)
  BY <1>1, <1>3, <1>4 DEF Sha, CommitNow, Trigger!Commit, Trigger!Looks, Pc
<1>9. Genuine'
  BY <1>1, <1>7, <1>8 DEF TriggerInv, Genuine
<1>10. Seen'
  BY <1>6, <1>8 DEF TriggerInv, Seen
<1>11. OnRecord'
  <2> SUFFICES ASSUME NEW i \in DOMAIN builds, Pc(builds[i].by)' = "recorded"
               PROVE  builds[i].commit \in known' \cup {head} \cup lost
    BY <1>1 DEF OnRecord
  <2>1. CASE builds[i].by # p
    BY <1>1, <1>7, <1>8, <2>1 DEF TriggerInv, OnRecord
  <2>2. CASE builds[i].by = p
    <3>1. builds[i].commit = Sha(p) \/ (builds[i].commit = "None" /\ head = Sha(p))
      BY <2>2 DEF TriggerInv, Genuine
    <3>2. CommitNow(p) = IF head = Sha(p) THEN "None" ELSE Sha(p)
      BY DEF CommitNow, Trigger!Commit, Sha
    <3>3. QED
      BY <1>1, <3>1, <3>2
  <2>3. QED
    BY <2>1, <2>2
<1>12. Fresh'
  BY <1>1, <1>6, <1>7, <1>8 DEF TriggerInv, Fresh
<1>13. AgainOnlyBeside'
  BY <1>1, <1>6, <1>7, <1>8 DEF TriggerInv, AgainOnlyBeside, Trigger!AgainOnlyBeside
<1>14. QED
  BY <1>5, <1>9, <1>10, <1>11, <1>12, <1>13 DEF TriggerInv

LEMMA MainMovesKeeps ==
  ASSUME TriggerInv, NEW k \in DOMAIN Events, Trigger!MainMoves(k)
  PROVE  TriggerInv'
<1>0. TriggerTyped
  BY DEF TriggerInv
<1>1. head = "" /\ head' = Events[k].commit /\ UNCHANGED <<proc, known, lost, builds>>
  BY DEF Trigger!MainMoves, Trigger!file
<1>2. TriggerTyped'
  BY <1>0, <1>1 DEF TriggerTyped, Shas
<1>3. \A i \in DOMAIN builds :
        LET p == builds[i].by
        IN  /\ Pc(p) \in {"build", "recorded"} /\ p \in Procs
            /\ builds[i].commit = Sha(p) /\ builds[i].commit \notin {"", "None"}
  <2> TAKE i \in DOMAIN builds
  <2> DEFINE p == builds[i].by
  <2>1. p \in Procs /\ Pc(p) \in {"build", "recorded"}
    BY <1>0, BuiltBy DEF TriggerInv, Genuine
  <2>2. proc[p].event \in DOMAIN Events
    BY <1>0, <2>1 DEF TriggerTyped, Pc
  <2>3. Sha(p) \notin {"", "None"}
    BY <2>2, NoSuchCommit DEF Sha
  <2>4. QED
    BY <1>1, <2>1, <2>3 DEF TriggerInv, Genuine
<1>4. Genuine'
  BY <1>1, <1>3 DEF Genuine, Sha, Pc
<1>5. Seen'
  BY <1>1 DEF TriggerInv, Seen, Pc
<1>6. OnRecord'
  BY <1>1, <1>3 DEF TriggerInv, OnRecord, Pc
<1>7. Fresh'
  <2>1. ASSUME NEW q \in Procs, Pc(q) = "build"
        PROVE  /\ CommitNow(q)' \in {"None", CommitNow(q)}
               /\ Trigger!Looks(q)' <=> Trigger!Looks(q)
    <3>1. proc[q].event \in DOMAIN Events
      BY <1>0, <2>1 DEF TriggerTyped, Pc
    <3>2. Sha(q) # ""
      BY <3>1, NoSuchCommit DEF Sha
    <3>3. QED
      BY <1>1, <3>2 DEF CommitNow, Trigger!Commit, Trigger!Looks, Sha
  <2>2. QED
    BY <1>1, <1>3, <2>1 DEF TriggerInv, Fresh, Pc
<1>8. AgainOnlyBeside'
  BY <1>1 DEF TriggerInv, AgainOnlyBeside, Trigger!AgainOnlyBeside, Trigger!Looks
<1>9. QED
  BY <1>2, <1>4, <1>5, <1>6, <1>7, <1>8 DEF TriggerInv

LEMMA StartBuildKeeps ==
  ASSUME TriggerInv, NEW p \in Procs, Trigger!StartBuild(p)
  PROVE  TriggerInv'
<1>0. TriggerTyped
  BY DEF TriggerInv
<1>1. PICK v \in proc[p].todo :
        /\ proc' = [proc EXCEPT ![p] = [proc[p] EXCEPT !.todo = @ \ {v}]]
        /\ builds' = IF v = "unknown" THEN builds
                     ELSE Append(builds, [by |-> p, release |-> v, commit |-> CommitNow(p)])
  BY <1>0 DEF Trigger!StartBuild, CommitNow, TriggerTyped
<1>2. Pc(p) = "build" /\ UNCHANGED <<known, lost, head>>
  BY DEF Trigger!StartBuild, Trigger!file, Pc
<1> DEFINE R == [pc : Pcs, event : {0} \cup DOMAIN Events, todo : SUBSET AllReleases,
                 params : AllParams, beside : SUBSET Procs]
           B == [by : Procs, release : AllReleases, commit : Shas \cup {"None"}]
           r == [proc[p] EXCEPT !.todo = @ \ {v}]
           b == [by |-> p, release |-> v, commit |-> CommitNow(p)]
<1>3. proc[p] \in R /\ v \in AllReleases /\ proc[p].event \in DOMAIN Events
  BY <1>0, <1>2 DEF TriggerTyped, Pc
<1>4. /\ r \in R
      /\ r.pc = proc[p].pc /\ r.event = proc[p].event /\ r.beside = proc[p].beside
  BY <1>3
<1>5. CommitNow(p) = IF head = Sha(p) THEN "None" ELSE Sha(p)
  BY DEF CommitNow, Trigger!Commit, Sha
<1>6. b \in B /\ b.by = p /\ b.commit = CommitNow(p)
  BY <1>3, <1>5 DEF Shas, Sha
<1>7. builds \in Seq(B) /\ proc \in [Procs -> R]
  BY <1>0 DEF TriggerTyped
<1> HIDE DEF r, R, B, b
<1>8. proc' \in [Procs -> R] /\ proc'[p] = r /\ \A x \in Procs : x # p => proc'[x] = proc[x]
  BY <1>1, <1>4, <1>7 DEF r
<1>9. /\ builds' \in Seq(B)
      /\ Len(builds') \in Nat /\ Len(builds) \in Nat
      /\ Len(builds) <= Len(builds')
      /\ \A i \in 1 .. Len(builds) : builds'[i] = builds[i]
      /\ \A i \in 1 .. Len(builds') : i \notin 1 .. Len(builds) => i = Len(builds') /\ builds'[i] = b
  <2>1. CASE v = "unknown"
    BY <1>1, <1>7, <2>1, LenProperties
  <2>2. CASE v # "unknown"
    <3>1. builds' = Append(builds, b)
      BY <1>1, <2>2 DEF b
    <3>2. QED
      BY <1>6, <1>7, <3>1, AppendProperties, LenProperties
  <2>3. QED
    BY <2>1, <2>2
<1>10. DOMAIN builds = 1 .. Len(builds) /\ DOMAIN builds' = 1 .. Len(builds')
  BY <1>7, <1>9, LenProperties
<1>11. \A i \in DOMAIN builds : i \in DOMAIN builds' /\ builds'[i] = builds[i]
  <2>1. \A i \in 1 .. Len(builds) : i \in 1 .. Len(builds')
    BY <1>9
  <2>2. QED
    BY <1>9, <1>10, <2>1
<1>12. \A i \in DOMAIN builds' : i \notin DOMAIN builds =>
         /\ builds'[i].by = p /\ builds'[i].commit = CommitNow(p)
         /\ \A j \in DOMAIN builds' : i >= j
  <2>1. \A i \in 1 .. Len(builds'), j \in 1 .. Len(builds') : i = Len(builds') => i >= j
    BY <1>9
  <2>2. QED
    BY <1>6, <1>9, <1>10, <2>1
<1>13. \A x \in Procs :
        /\ Sha(x)' = Sha(x) /\ CommitNow(x)' = CommitNow(x) /\ Pc(x)' = Pc(x)
        /\ Trigger!Looks(x)' <=> Trigger!Looks(x)
        /\ proc'[x].beside = proc[x].beside /\ proc'[x].event = proc[x].event
  BY <1>2, <1>4, <1>8 DEF Sha, CommitNow, Trigger!Commit, Trigger!Looks, Pc
<1>14. /\ \A i \in DOMAIN builds : builds[i].by \in Procs
       /\ \A i \in DOMAIN builds' : builds'[i].by \in Procs
  BY <1>0, <1>11, <1>12, BuiltBy
<1> USE <1>2
<1>15. TriggerTyped'
  BY <1>0, <1>8, <1>9, <1>13 DEF TriggerTyped, R, B, Pc
<1>16. Genuine'
  <2>1. ASSUME NEW i \in DOMAIN builds', NEW x \in Procs, builds'[i].by = x
        PROVE  /\ Pc(x)' \in {"build", "recorded"}
               /\ \/ builds'[i].commit = Sha(x)'
                  \/ builds'[i].commit = "None" /\ head' = Sha(x)'
    <3>1. CASE i \in DOMAIN builds
      BY <1>11, <1>13, <2>1, <3>1 DEF TriggerInv, Genuine
    <3>2. CASE i \notin DOMAIN builds
      <4>1. x = p /\ builds'[i].commit = CommitNow(p)
        BY <1>12, <2>1, <3>2
      <4>2. QED
        BY <1>5, <1>13, <4>1
    <3>3. QED
      BY <3>1, <3>2
  <2>2. QED
    BY <1>14, <2>1 DEF Genuine, Pc, Sha
<1>17. Seen'
  BY <1>13 DEF TriggerInv, Seen
<1>18. OnRecord'
  <2>1. ASSUME NEW i \in DOMAIN builds', NEW x \in Procs, builds'[i].by = x, Pc(x)' = "recorded"
        PROVE  builds'[i].commit \in known \cup {head} \cup lost
    <3>1. i \in DOMAIN builds
      BY <1>12, <1>13, <2>1
    <3>2. QED
      BY <1>11, <1>13, <2>1, <3>1 DEF TriggerInv, OnRecord
  <2>2. QED
    BY <1>14, <2>1 DEF OnRecord, Pc
<1>19. Fresh'
  <2>1. ASSUME NEW q \in Procs, NEW i \in DOMAIN builds', NEW x \in Procs, builds'[i].by = x,
               x # q, Pc(q)' = "build", Trigger!Looks(q)', x \notin proc'[q].beside, q \notin proc'[x].beside,
               builds'[i].commit \notin lost \cup {"None"}
        PROVE  builds'[i].commit # CommitNow(q)'
    <3>1. i \in DOMAIN builds
      <4> SUFFICES ASSUME i \notin DOMAIN builds PROVE FALSE
        OBVIOUS
      <4>1. x = p
        BY <1>12, <2>1
      <4>2. QED
        BY <1>13, <2>1, <4>1 DEF TriggerInv, Seen
    <3>2. QED
      BY <1>11, <1>13, <2>1, <3>1 DEF TriggerInv, Fresh
  <2>2. QED
    BY <1>14, <2>1 DEF Fresh, Pc
<1>20. AgainOnlyBeside'
  <2>1. ASSUME NEW i \in DOMAIN builds', NEW j \in DOMAIN builds', NEW x \in Procs, NEW q \in Procs,
               i < j, builds'[i].by = x, builds'[j].by = q, x # q, Trigger!Looks(q)',
               builds'[i].commit = builds'[j].commit, builds'[i].commit \notin lost \cup {"None"}
        PROVE  x \in proc'[q].beside \/ q \in proc'[x].beside
    <3>1. i \in DOMAIN builds
      <4>1. i \in 1 .. Len(builds') /\ j \in 1 .. Len(builds') /\ Len(builds') \in Nat
        BY <1>9, <1>10
      <4>2. i < j
        BY <2>1
      <4>3. ~ (i >= j)
        BY ONLY <4>1, <4>2
      <4>4. QED
        BY <1>12, <4>3
    <3>2. builds'[i] = builds[i]
      BY <1>11, <3>1
    <3>3. CASE j \in DOMAIN builds
      <4>1. builds'[j] = builds[j]
        BY <1>11, <3>3
      <4>2. QED
        BY <1>13, <2>1, <3>1, <3>2, <3>3, <4>1 DEF TriggerInv, AgainOnlyBeside, Trigger!AgainOnlyBeside
    <3>4. CASE j \notin DOMAIN builds
      <4>1. q = p /\ builds'[j].commit = CommitNow(p)
        BY <1>12, <2>1, <3>4
      <4>2. QED
        BY <1>13, <2>1, <3>1, <3>2, <4>1 DEF TriggerInv, Fresh
    <3>5. QED
      BY <3>3, <3>4
  <2>2. QED
    BY <1>14, <2>1 DEF AgainOnlyBeside, Trigger!AgainOnlyBeside, Trigger!Looks
<1>21. QED
  BY <1>15, <1>16, <1>17, <1>18, <1>19, <1>20 DEF TriggerInv

LEMMA TriggerInit == Init => TriggerInv
<1> SUFFICES ASSUME Init PROVE TriggerInv
  OBVIOUS
<1>1. /\ proc = [p \in Procs |-> Trigger!Idle]
      /\ builds = <<>> /\ head = ""
  BY DEF Init, Trigger!TriggerInit
<1>2. TriggerTyped
  <2>1. Trigger!Idle \in [pc : Pcs, event : {0} \cup DOMAIN Events, todo : SUBSET AllReleases,
                          params : AllParams, beside : SUBSET Procs]
    BY DEF Trigger!Idle, Pcs, AllParams
  <2>2. Trigger!Idle.pc = "idle"
    BY DEF Trigger!Idle
  <2>3. builds \in Seq([by : Procs, release : AllReleases, commit : Shas \cup {"None"}])
    BY <1>1, EmptySeq
  <2>4. QED
    BY <1>1, <2>1, <2>2, <2>3 DEF TriggerTyped
<1>3. DOMAIN builds = {} /\ \A p \in Procs : Pc(p) = "idle"
  <2>1. Trigger!Idle.pc = "idle"
    BY DEF Trigger!Idle
  <2>2. DOMAIN builds = {}
    <3>1. DOMAIN <<>> = {}
      OBVIOUS
    <3>2. QED
      BY <1>1, <3>1
  <2>3. QED
    BY <1>1, <2>1, <2>2 DEF Pc
<1>4. QED
  BY <1>2, <1>3 DEF TriggerInv, Genuine, Seen, OnRecord, Fresh, AgainOnlyBeside,
                    Trigger!AgainOnlyBeside

LEMMA TriggerNext == ASSUME TriggerInv, [Next]_vars PROVE TriggerInv'
<1>1. Trigger!TriggerStep \/ UNCHANGED trigger
  BY DEF Next, Map, Triggers, Job, Kills, DoStop, Stops, Maps, Runs, Crashes, Ends, Same, vars
<1>2. CASE Trigger!TriggerStep
  BY <1>2, ReceiveKeeps, FileKeeps, LookKeeps, StartBuildKeeps, RecordKeeps, MainMovesKeeps, MergeRequestAssumption
     DEF Trigger!TriggerStep, MergeRequestAssumption
<1>3. CASE UNCHANGED trigger
  <2>1. UNCHANGED <<proc, known, lost, builds, head>>
    BY <1>3 DEF trigger
  <2>2. TriggerTyped' /\ Genuine'
    BY <2>1 DEF TriggerInv, TriggerTyped, Genuine, Pc, Sha
  <2>3. Seen' /\ OnRecord'
    BY <2>1 DEF TriggerInv, Seen, OnRecord, Pc
  <2>4. Fresh'
    BY <2>1 DEF TriggerInv, Fresh, Trigger!Looks, Pc, CommitNow, Trigger!Commit
  <2>5. AgainOnlyBeside'
    BY <2>1 DEF TriggerInv, AgainOnlyBeside, Trigger!AgainOnlyBeside, Trigger!Looks
  <2>6. QED
    BY <2>2, <2>3, <2>4, <2>5 DEF TriggerInv
<1>4. QED
  BY <1>1, <1>2, <1>3

LEMMA TriggerAlways == Spec => []TriggerInv
<1>1. Init => TriggerInv
  BY TriggerInit
<1>2. TriggerInv /\ [Next]_vars => TriggerInv'
  BY TriggerNext
<1>3. QED
  BY <1>1, <1>2, PTL DEF Spec

(* However many events are handled beside each other and however main      *)
(* moves: an update builds a commit for the second time only beside the    *)
(* process that built it for the first time, or when the record of it was  *)
(* lost.                                                                   *)
THEOREM BuiltAgainOnlyBeside == Spec => []AgainOnlyBeside
<1>1. TriggerInv => AgainOnlyBeside
  BY DEF TriggerInv
<1>2. QED
  BY <1>1, TriggerAlways, PTL

-----------------------------------------------------------------------------
(* The jobs.                                                               *)

Shape(r) == r = [state |-> r.state, todo |-> r.todo, by |-> r.by, tests |-> r.tests]

JobsListed ==
  /\ jobs \in Seq(Elements(jobs)) /\ Len(jobs) = Len(builds)
  /\ \A b \in Jobs : Shape(jobs[b])

Past == {"kills", "maps", "runs"}

(* A job that has stopped the others has none left to stop. *)
Thorough == \A b \in Jobs : jobs[b].state \in {"maps", "runs"} => jobs[b].todo = {}

(* Of two jobs of one name the second to look for others found the first;  *)
(* it has still to stop it, or has.                                        *)
Caught ==
  \A b, c \in Jobs :
    b # c /\ NameOf(b) = NameOf(c) /\ jobs[b].state \in Past /\ jobs[c].state \in Past =>
      c \in jobs[b].todo \/ b \in jobs[c].todo \/ jobs[b].by # 0 \/ jobs[c].by # 0

JobInv == JobsListed /\ Thorough /\ Caught

(* One component of a job changes, the others do not.                      *)
LEMMA Only ==
  ASSUME NEW r, Shape(r), NEW w
  PROVE  /\ [r EXCEPT !.state = w] = [state |-> w, todo |-> r.todo, by |-> r.by, tests |-> r.tests]
         /\ [r EXCEPT !.todo = w] = [state |-> r.state, todo |-> w, by |-> r.by, tests |-> r.tests]
         /\ [r EXCEPT !.by = w] = [state |-> r.state, todo |-> r.todo, by |-> w, tests |-> r.tests]
         /\ [r EXCEPT !.tests = w] = [state |-> r.state, todo |-> r.todo, by |-> r.by, tests |-> w]
<1> DEFINE s == r.state
           t == r.todo
           y == r.by
           u == r.tests
<1>1. r = [state |-> s, todo |-> t, by |-> y, tests |-> u]
  BY DEF Shape
<1> HIDE DEF s, t, y, u
<1>2. /\ [r EXCEPT !.state = w] = [state |-> w, todo |-> t, by |-> y, tests |-> u]
      /\ [r EXCEPT !.todo = w] = [state |-> s, todo |-> w, by |-> y, tests |-> u]
      /\ [r EXCEPT !.by = w] = [state |-> s, todo |-> t, by |-> w, tests |-> u]
      /\ [r EXCEPT !.tests = w] = [state |-> s, todo |-> t, by |-> y, tests |-> w]
  BY <1>1
<1> QED
  BY <1>2 DEF s, t, y, u

LEMMA JobsAre == ASSUME JobsListed PROVE Jobs = 1 .. Len(jobs) /\ Len(jobs) \in Nat
BY LenProperties DEF JobsListed, Jobs

(* A step that changes jobs one by one and no build.                       *)
LEMMA ListedStays ==
  ASSUME JobsListed, UNCHANGED builds,
         jobs' = [b \in Jobs |-> jobs'[b]], \A b \in Jobs : Shape(jobs'[b])
  PROVE  JobsListed' /\ Jobs' = Jobs
<1>1. Jobs = 1 .. Len(jobs) /\ Len(jobs) \in Nat
  BY JobsAre
<1>2. DOMAIN jobs' = 1 .. Len(jobs)
  BY <1>1
<1>3. jobs' \in [1 .. Len(jobs) -> Elements(jobs)']
  BY <1>1, <1>2 DEF Elements
<1>4. jobs' \in Seq(Elements(jobs)')
  BY <1>1, <1>3, SeqDef
<1>5. Len(jobs') = Len(jobs)
  BY <1>1, <1>2, <1>4, LenProperties
<1>6. Jobs' = Jobs
  BY <1>1, <1>2 DEF Jobs
<1>7. QED
  BY <1>4, <1>5, <1>6 DEF JobsListed

(* Such a step of one job.                                                 *)
LEMMA OneChanges ==
  ASSUME JobsListed, UNCHANGED builds, NEW b \in Jobs, NEW r, Shape(r), jobs' = [jobs EXCEPT ![b] = r]
  PROVE  /\ JobsListed' /\ Jobs' = Jobs
         /\ jobs'[b] = r /\ \A c \in Jobs : c # b => jobs'[c] = jobs[c]
<1>1. jobs'[b] = r /\ \A c \in Jobs : c # b => jobs'[c] = jobs[c]
  BY DEF Jobs
<1>2. jobs' = [c \in Jobs |-> jobs'[c]]
  BY DEF Jobs
<1>3. \A c \in Jobs : Shape(jobs'[c])
  <2>1. \A c \in Jobs : Shape(jobs[c])
    BY DEF JobsListed
  <2>2. TAKE c \in Jobs
  <2>3. CASE c = b
    BY <1>1, <2>3
  <2>4. CASE c # b
    BY <1>1, <2>1, <2>4
  <2>5. QED
    BY <2>3, <2>4
<1>4. QED
  BY <1>1, <1>2, <1>3, ListedStays

(* A process keeps its event and what the event asks for.                  *)
Keeps(x) ==
  /\ proc'[x].event = proc[x].event /\ proc'[x].params = proc[x].params
  /\ Pc(x) = "idle" => proc'[x].pc = "idle"

Receives(x) ==
  \E k \in DOMAIN Events : proc'[x].event = k /\ proc'[x].params = Trigger!Params(Events[k])

LEMMA EventsStay ==
  ASSUME TriggerTyped, Trigger!TriggerStep \/ UNCHANGED trigger
  PROVE  \A x \in Procs : Keeps(x) \/ (Pc(x) = "idle" /\ Receives(x))
<1> DEFINE R == [pc : Pcs, event : {0} \cup DOMAIN Events, todo : SUBSET AllReleases,
                 params : AllParams, beside : SUBSET Procs]
<1>1. proc \in [Procs -> R]
  BY DEF TriggerTyped
<1>2. ASSUME NEW p \in Procs,
             \/ Trigger!Check(p) \/ Trigger!Create(p) \/ Trigger!Echo(p)
             \/ Trigger!Look(p) \/ Trigger!StartBuild(p) \/ Trigger!Record(p)
      PROVE  \A x \in Procs : Keeps(x)
  <2>1. proc[p] \in R
    BY <1>1
  <2>2. PICK r : proc' = [proc EXCEPT ![p] = r] /\ r.event = proc[p].event /\ r.params = proc[p].params
    <3>1. CASE Trigger!Look(p)
      <4>1. PICK w : proc' = [proc EXCEPT ![p] = [[proc[p] EXCEPT !.pc = w] EXCEPT !.beside = Trigger!Building]]
        BY <1>1, <3>1 DEF Trigger!Look
      <4> DEFINE q == [[proc[p] EXCEPT !.pc = w] EXCEPT !.beside = Trigger!Building]
      <4>2. q.event = proc[p].event /\ q.params = proc[p].params
        BY <2>1
      <4> QED
        BY <4>1, <4>2
    <3>2. CASE Trigger!StartBuild(p)
      <4>1. PICK w : proc' = [proc EXCEPT ![p] = [proc[p] EXCEPT !.todo = w]]
        BY <1>1, <3>2 DEF Trigger!StartBuild
      <4>2. [proc[p] EXCEPT !.todo = w].event = proc[p].event /\ [proc[p] EXCEPT !.todo = w].params = proc[p].params
        BY <2>1
      <4> QED
        BY <4>1, <4>2
    <3>3. CASE Trigger!Record(p)
      <4>1. proc' = [proc EXCEPT ![p] = [proc[p] EXCEPT !.pc = "recorded"]]
        BY <3>3 DEF Trigger!Record
      <4> DEFINE q == [proc[p] EXCEPT !.pc = "recorded"]
      <4>2. q.event = proc[p].event /\ q.params = proc[p].params
        BY <2>1
      <4> QED
        BY <4>1, <4>2
    <3>4. CASE Trigger!Check(p) \/ Trigger!Create(p) \/ Trigger!Echo(p)
      <4>1. PICK w : proc' = [proc EXCEPT ![p] = [proc[p] EXCEPT !.pc = w]]
        BY <1>1, <3>4 DEF Trigger!Check, Trigger!Create, Trigger!Echo
      <4>2. [proc[p] EXCEPT !.pc = w].event = proc[p].event /\ [proc[p] EXCEPT !.pc = w].params = proc[p].params
        BY <2>1
      <4> QED
        BY <4>1, <4>2
    <3> QED
      BY <1>2, <3>1, <3>2, <3>3, <3>4
  <2>3. Pc(p) # "idle"
    BY <1>2 DEF Trigger!Check, Trigger!Create, Trigger!Echo, Trigger!Look, Trigger!StartBuild, Trigger!Record, Pc
  <2> HIDE DEF R
  <2> QED
    BY <1>1, <2>2, <2>3 DEF Keeps, Pc
<1>3. ASSUME NEW p \in Procs, NEW k \in DOMAIN Events, Trigger!Receive(p, k)
      PROVE  \A x \in Procs : Keeps(x) \/ (Pc(x) = "idle" /\ Receives(x))
  <2> DEFINE e == Events[k]
             r == [pc |-> Trigger!Verdict(e), event |-> k, todo |-> Trigger!Releases(Trigger!Params(e)),
                   params |-> Trigger!Params(e), beside |-> Trigger!Building]
  <2>1. proc' = [proc EXCEPT ![p] = r] /\ r.event = k /\ r.params = Trigger!Params(Events[k])
    BY <1>3 DEF Trigger!Receive
  <2>2. Pc(p) = "idle"
    BY <1>3 DEF Trigger!Receive, Pc
  <2> HIDE DEF R, r
  <2>3. proc'[p] = r /\ \A x \in Procs : x # p => proc'[x] = proc[x]
    BY <1>1, <2>1
  <2>4. Receives(p)
    BY <2>1, <2>3 DEF Receives
  <2> QED
    BY <2>2, <2>3, <2>4 DEF Keeps, Pc
<1>4. ASSUME UNCHANGED proc PROVE \A x \in Procs : Keeps(x)
  BY <1>4 DEF Keeps, Pc
<1> QED
  BY <1>2, <1>3, <1>4 DEF Trigger!TriggerStep, Trigger!MainMoves, trigger

(* A build stays the one of its event.                                     *)
LEMMA NamesStay ==
  ASSUME TriggerInv, JobsListed, JobsListed', Trigger!TriggerStep \/ UNCHANGED trigger
  PROVE  \A b \in Jobs : b \in Jobs' => NameOf(b)' = NameOf(b) /\ EventOf(b)' = EventOf(b)
<1>1. TriggerTyped
  BY DEF TriggerInv
<1>2. \A x \in Procs : Pc(x) # "idle" => proc'[x].event = proc[x].event
  BY <1>1, EventsStay DEF Keeps
<1>3. \A i \in DOMAIN builds : builds'[i] = builds[i]
  <2>1. ASSUME NEW p \in Procs, Trigger!StartBuild(p)
        PROVE  \A i \in DOMAIN builds : builds'[i] = builds[i]
    <3>1. PICK e : builds' = builds \/ builds' = Append(builds, e)
      BY <2>1 DEF Trigger!StartBuild
    <3> DEFINE B == [by : Procs, release : AllReleases, commit : Shas \cup {"None"}]
    <3>2. builds \in Seq(B)
      BY <1>1 DEF TriggerTyped
    <3> HIDE DEF B
    <3>3. builds \in Seq(B \cup {e}) /\ e \in B \cup {e}
      BY <3>2, SeqDef
    <3>4. QED
      BY <3>1, <3>3, AppendProperties, LenProperties
  <2>2. ASSUME NEW p \in Procs,
               \/ Trigger!Check(p) \/ Trigger!Create(p) \/ Trigger!Echo(p)
               \/ Trigger!Look(p) \/ Trigger!Record(p) \/ \E k \in DOMAIN Events : Trigger!Receive(p, k)
        PROVE  builds' = builds
    BY <2>2 DEF Trigger!Check, Trigger!Create, Trigger!Echo, Trigger!Look, Trigger!Record, Trigger!Receive
  <2>3. QED
    BY <2>1, <2>2 DEF Trigger!TriggerStep, Trigger!MainMoves, trigger
<1>4. DOMAIN builds = Jobs
  BY <1>1, JobsAre, LenProperties DEF JobsListed, TriggerTyped
<1>5. \A b \in Jobs : builds[b].by \in Procs /\ Pc(builds[b].by) # "idle"
  BY <1>1, <1>4, BuiltBy DEF TriggerInv, Genuine
<1>6. QED
  BY <1>2, <1>3, <1>4, <1>5 DEF NameOf, EventOf

(* The jobs of the others keep their names while a job takes a step.       *)
LEMMA NamesOfJobs ==
  ASSUME UNCHANGED trigger
  PROVE  \A b : NameOf(b)' = NameOf(b)
BY DEF trigger, NameOf, EventOf

LEMMA KillsKeeps ==
  ASSUME JobInv, NEW b \in Jobs, Kills(b), UNCHANGED trigger
  PROVE  JobInv'
<1> DEFINE T == Jobs \ {b}
           r == [state |-> "kills", todo |-> T, by |-> jobs[b].by, tests |-> jobs[b].tests]
<1>1. JobsListed /\ Shape(jobs[b]) /\ UNCHANGED builds
  BY DEF JobInv, JobsListed, trigger
<1>2. /\ jobs[b].state = "queued"
      /\ jobs' = [jobs EXCEPT ![b] = [[jobs[b] EXCEPT !.state = "kills"] EXCEPT !.todo = T]]
  BY DEF Kills, Jobs
<1>3. [[jobs[b] EXCEPT !.state = "kills"] EXCEPT !.todo = T] = r
  <2> DEFINE s == jobs[b].state
             t == jobs[b].todo
             y == jobs[b].by
             u == jobs[b].tests
             q == [jobs[b] EXCEPT !.state = "kills"]
  <2>1. jobs[b] = [state |-> s, todo |-> t, by |-> y, tests |-> u]
    BY <1>1 DEF Shape
  <2> HIDE DEF s, t, y, u, T
  <2>2. q = [state |-> "kills", todo |-> t, by |-> y, tests |-> u]
    BY <2>1
  <2> HIDE DEF q
  <2>3. [q EXCEPT !.todo = T] = [state |-> "kills", todo |-> T, by |-> y, tests |-> u]
    BY <2>2
  <2>4. QED
    BY <2>3 DEF q, y, u
<1>4. jobs' = [jobs EXCEPT ![b] = r] /\ Shape(r)
  BY <1>2, <1>3 DEF Shape
<1>5. r.state = "kills" /\ r.by = jobs[b].by /\ r.todo = T
  OBVIOUS
<1> HIDE DEF r
<1>6. JobsListed' /\ Jobs' = Jobs /\ jobs'[b] = r /\ \A c \in Jobs : c # b => jobs'[c] = jobs[c]
  BY <1>1, <1>4, OneChanges
<1>7. Thorough'
  BY <1>5, <1>6 DEF JobInv, Thorough
<1>8. Caught'
  <2>1. ASSUME NEW c \in Jobs, c # b, NameOf(c) = NameOf(b), jobs'[c].state \in Past
        PROVE  c \in jobs'[b].todo
    BY <1>5, <1>6, <2>1
  <2>2. QED
    BY <1>6, <2>1, NamesOfJobs DEF JobInv, Caught
<1>9. QED
  BY <1>6, <1>7, <1>8 DEF JobInv

(* A job leaves the stopping of the others when none is left, or for good. *)
LEMMA MovesKeep ==
  ASSUME JobInv, UNCHANGED trigger, NEW b \in Jobs, NEW r, Shape(r), jobs' = [jobs EXCEPT ![b] = r],
         \/ r.state \notin Past
         \/ jobs[b].state \in Past /\ r.todo = {} /\ jobs[b].todo = {} /\ r.by = jobs[b].by
  PROVE  JobInv'
<1>1. JobsListed /\ UNCHANGED builds
  BY DEF JobInv, trigger
<1>2. JobsListed' /\ Jobs' = Jobs /\ jobs'[b] = r /\ \A c \in Jobs : c # b => jobs'[c] = jobs[c]
  BY <1>1, OneChanges
<1>3. Thorough'
  BY <1>2 DEF JobInv, Thorough, Past
<1>4. Caught'
  BY <1>2, NamesOfJobs DEF JobInv, Caught
<1>5. QED
  BY <1>2, <1>3, <1>4 DEF JobInv

LEMMA StopsKeeps ==
  ASSUME JobInv, NEW b \in Jobs, Stops(b)
  PROVE  JobInv'
<1> DEFINE r == [state |-> "stopped", todo |-> {}, by |-> 0, tests |-> <<>>]
<1>1. [Queued EXCEPT !.state = "stopped"] = r
  <2> DEFINE s == "queued"
             t == {}
             y == 0
             u == <<>>
  <2>1. Queued = [state |-> s, todo |-> t, by |-> y, tests |-> u]
    BY DEF Queued
  <2> HIDE DEF s, t, y, u
  <2>2. [Queued EXCEPT !.state = "stopped"] = [state |-> "stopped", todo |-> t, by |-> y, tests |-> u]
    BY <2>1
  <2>3. QED
    BY <2>2 DEF t, y, u
<1>2. jobs' = [jobs EXCEPT ![b] = r] /\ Shape(r) /\ r.state \notin Past /\ UNCHANGED trigger
  BY <1>1 DEF Stops, Shape, Past
<1> HIDE DEF r
<1>3. QED
  BY <1>2, MovesKeep

LEMMA GoesOn ==
  ASSUME JobInv, NEW b \in Jobs, Maps(b) \/ Runs(b) \/ Crashes(b) \/ Ends(b)
  PROVE  JobInv'
<1> DEFINE s == jobs[b].state
           t == jobs[b].todo
           y == jobs[b].by
           u == jobs[b].tests
<1>1. jobs[b] = [state |-> s, todo |-> t, by |-> y, tests |-> u]
  BY DEF JobInv, JobsListed, Shape
<1>2. s \in {"maps", "runs"} => t = {}
  BY DEF JobInv, Thorough
<1>3. UNCHANGED trigger
  BY DEF Maps, Runs, Crashes, Ends, Same
<1>4. \E w, z : /\ jobs' = [jobs EXCEPT ![b] = [state |-> w, todo |-> t, by |-> y, tests |-> z]]
                /\ w \notin Past \/ (s \in Past /\ t = {})
  <2>1. CASE Maps(b)
    <3>1. s = "kills" /\ t = {} /\ jobs' = [jobs EXCEPT ![b] = [jobs[b] EXCEPT !.state = "maps"]]
      BY <2>1 DEF Maps
    <3> HIDE DEF s, t, y, u
    <3>2. [jobs[b] EXCEPT !.state = "maps"] = [state |-> "maps", todo |-> t, by |-> y, tests |-> u]
      BY <1>1
    <3>3. QED
      BY <3>1, <3>2 DEF Past
  <2>2. CASE Runs(b)
    <3>1. /\ s = "maps"
          /\ jobs' = [jobs EXCEPT ![b] = [[jobs[b] EXCEPT !.state = "runs"] EXCEPT !.tests = Distribution]]
      BY <2>2 DEF Runs, Jobs
    <3> DEFINE q == [jobs[b] EXCEPT !.state = "runs"]
               d == Distribution
    <3> HIDE DEF s, t, y, u, d
    <3>2. q = [state |-> "runs", todo |-> t, by |-> y, tests |-> u]
      BY <1>1
    <3> HIDE DEF q
    <3>3. [q EXCEPT !.tests = d] = [state |-> "runs", todo |-> t, by |-> y, tests |-> d]
      BY <3>2
    <3>4. jobs' = [jobs EXCEPT ![b] = [q EXCEPT !.tests = d]]
      BY <3>1 DEF q, d
    <3>5. jobs' = [jobs EXCEPT ![b] = [state |-> "runs", todo |-> t, by |-> y, tests |-> d]]
      BY <3>3, <3>4
    <3>6. s \in Past /\ t = {}
      BY <1>2, <3>1 DEF Past
    <3>7. QED
      BY <3>5, <3>6, Zenon
  <2>3. CASE Crashes(b)
    <3>1. jobs' = [jobs EXCEPT ![b] = [jobs[b] EXCEPT !.state = "over"]]
      BY <2>3 DEF Crashes
    <3> HIDE DEF s, t, y, u
    <3>2. [jobs[b] EXCEPT !.state = "over"] = [state |-> "over", todo |-> t, by |-> y, tests |-> u]
      BY <1>1
    <3>3. QED
      BY <3>1, <3>2 DEF Past
  <2>4. CASE Ends(b)
    <3>1. jobs' = [jobs EXCEPT ![b] = [[jobs[b] EXCEPT !.state = "over"] EXCEPT !.tests = <<>>]]
      BY <2>4 DEF Ends, Jobs
    <3> DEFINE q == [jobs[b] EXCEPT !.state = "over"]
               d == <<>>
    <3> HIDE DEF s, t, y, u, d
    <3>2. q = [state |-> "over", todo |-> t, by |-> y, tests |-> u]
      BY <1>1
    <3> HIDE DEF q
    <3>3. [q EXCEPT !.tests = d] = [state |-> "over", todo |-> t, by |-> y, tests |-> d]
      BY <3>2
    <3>4. jobs' = [jobs EXCEPT ![b] = [q EXCEPT !.tests = d]]
      BY <3>1 DEF q, d
    <3>5. jobs' = [jobs EXCEPT ![b] = [state |-> "over", todo |-> t, by |-> y, tests |-> d]]
      BY <3>3, <3>4
    <3>6. "over" \notin Past
      BY DEF Past
    <3>7. QED
      BY <3>5, <3>6, Zenon
  <2>5. QED
    BY <2>1, <2>2, <2>3, <2>4
<1>5. PICK w, z : /\ jobs' = [jobs EXCEPT ![b] = [state |-> w, todo |-> t, by |-> y, tests |-> z]]
                  /\ w \notin Past \/ (s \in Past /\ t = {})
  BY <1>4
<1> DEFINE r == [state |-> w, todo |-> t, by |-> y, tests |-> z]
<1>6. Shape(r) /\ r.state = w /\ r.todo = t /\ r.by = y
  BY DEF Shape
<1>7. jobs' = [jobs EXCEPT ![b] = r]
  BY <1>5
<1> HIDE DEF r
<1>8. QED
  BY <1>3, <1>5, <1>6, <1>7, MovesKeep

LEMMA DoStopKeeps ==
  ASSUME JobInv, NEW b \in Jobs, DoStop(b)
  PROVE  JobInv'
<1>1. JobsListed /\ UNCHANGED trigger /\ UNCHANGED builds
  BY DEF JobInv, DoStop, Same, trigger
<1>2. PICK c \in jobs[b].todo :
        jobs' = [jobs EXCEPT ![b].todo = @ \ {c},
                             ![c].by = IF Shows(c) /\ NameOf(c) = NameOf(b) /\ @ = 0 THEN b ELSE @]
  BY DEF DoStop
<1>3. b # 0
  BY <1>1, JobsAre
<1>4. jobs[b].state = "kills"
  BY DEF DoStop
<1> DEFINE T == jobs[b].todo \ {c}
           j == [jobs EXCEPT ![b] = [jobs[b] EXCEPT !.todo = T]]
           y == IF Shows(c) /\ NameOf(c) = NameOf(b) /\ j[c].by = 0 THEN b ELSE j[c].by
<1>5. jobs' = IF c \in Jobs THEN [j EXCEPT ![c] = [j[c] EXCEPT !.by = y]] ELSE j
  BY <1>2 DEF Jobs
<1>6. /\ j = [x \in Jobs |-> j[x]]
      /\ \A x \in Jobs : /\ Shape(j[x]) /\ j[x].state = jobs[x].state /\ j[x].by = jobs[x].by
                        /\ j[x].todo = IF x = b THEN T ELSE jobs[x].todo
  <2>1. j[b] = [jobs[b] EXCEPT !.todo = T] /\ \A x \in Jobs : x # b => j[x] = jobs[x]
    BY DEF Jobs
  <2>2. \A x \in Jobs : Shape(jobs[x])
    BY <1>1 DEF JobsListed
  <2>3. j[b] = [state |-> jobs[b].state, todo |-> T, by |-> jobs[b].by, tests |-> jobs[b].tests]
    <3> DEFINE s == jobs[b].state
               t == jobs[b].todo
               z == jobs[b].by
               u == jobs[b].tests
    <3>1. jobs[b] = [state |-> s, todo |-> t, by |-> z, tests |-> u]
      BY <2>2 DEF Shape
    <3> HIDE DEF s, t, z, u, T
    <3>2. [jobs[b] EXCEPT !.todo = T] = [state |-> s, todo |-> T, by |-> z, tests |-> u]
      BY <3>1
    <3>3. QED
      BY <2>1, <3>2 DEF s, z, u
  <2>4. Shape(j[b]) /\ j[b].state = jobs[b].state /\ j[b].by = jobs[b].by /\ j[b].todo = T
    BY ONLY <2>3 DEF Shape
  <2>5. j = [x \in Jobs |-> j[x]]
    BY DEF Jobs
  <2> HIDE DEF j, T
  <2>6. QED
    BY <2>1, <2>2, <2>4, <2>5
<1> HIDE DEF j, T, y
<1>7. /\ jobs' = [x \in Jobs |-> jobs'[x]]
      /\ \A x \in Jobs : /\ Shape(jobs'[x]) /\ jobs'[x].state = j[x].state /\ jobs'[x].todo = j[x].todo
                        /\ jobs'[x].by = IF x = c THEN y ELSE j[x].by
  <2>1. CASE c \notin Jobs
    BY <1>5, <1>6, <2>1
  <2>2. CASE c \in Jobs
    <3>1. jobs' = [j EXCEPT ![c] = [j[c] EXCEPT !.by = y]]
      BY <1>5, <2>2
    <3>2. jobs'[c] = [j[c] EXCEPT !.by = y] /\ \A x \in Jobs : x # c => jobs'[x] = j[x]
      BY <1>6, <2>2, <3>1
    <3>3. jobs'[c] = [state |-> j[c].state, todo |-> j[c].todo, by |-> y, tests |-> j[c].tests]
      BY <1>6, <2>2, <3>2 DEF Shape
    <3>4. Shape(jobs'[c]) /\ jobs'[c].state = j[c].state /\ jobs'[c].by = y /\ jobs'[c].todo = j[c].todo
      BY ONLY <3>3 DEF Shape
    <3>5. jobs' = [x \in Jobs |-> jobs'[x]]
      BY <1>6, <3>1
    <3>6. QED
      BY <1>6, <3>2, <3>4, <3>5
  <2>3. QED
    BY <2>1, <2>2
<1>8. JobsListed' /\ Jobs' = Jobs
  BY <1>1, <1>7, ListedStays
<1>9. \A x \in Jobs :
        /\ jobs'[x].state = jobs[x].state
        /\ x # b => jobs'[x].todo = jobs[x].todo
        /\ jobs[x].by # 0 => jobs'[x].by # 0
  BY <1>3, <1>6, <1>7 DEF y
<1>10. /\ jobs'[b].todo = jobs[b].todo \ {c}
       /\ c \in Jobs /\ jobs[c].state \in Past /\ NameOf(c) = NameOf(b) => jobs'[c].by # 0
  BY <1>3, <1>6, <1>7 DEF T, y, Shows, Past
<1>11. Thorough'
  BY <1>4, <1>8, <1>9 DEF JobInv, Thorough
<1>12. Caught'
  <2> SUFFICES ASSUME NEW x \in Jobs, NEW z \in Jobs, x # z, NameOf(x) = NameOf(z),
                      jobs[x].state \in Past, jobs[z].state \in Past
               PROVE  z \in jobs'[x].todo \/ x \in jobs'[z].todo \/ jobs'[x].by # 0 \/ jobs'[z].by # 0
    BY <1>1, <1>8, <1>9, NamesOfJobs DEF Caught
  <2>1. z \in jobs[x].todo \/ x \in jobs[z].todo \/ jobs[x].by # 0 \/ jobs[z].by # 0
    BY DEF JobInv, Caught
  <2>2. ASSUME NEW k \in Jobs, NEW l \in Jobs, l \in jobs[k].todo, jobs[l].state \in Past,
               NameOf(k) = NameOf(l)
        PROVE  l \in jobs'[k].todo \/ jobs'[l].by # 0
    BY <1>9, <1>10, <2>2
  <2>3. QED
    BY <1>9, <2>1, <2>2
<1>13. QED
  BY <1>8, <1>11, <1>12 DEF JobInv

(* A build more is a job more, which has not looked for others yet.        *)
LEMMA TriggersAdd ==
  ASSUME TriggerInv, JobsListed, Triggers
  PROVE  /\ JobsListed'
         /\ \A b \in Jobs : b \in Jobs' /\ jobs'[b] = jobs[b]
         /\ \A b \in Jobs' : b \notin Jobs => jobs'[b] = Queued
<1>1. /\ Trigger!TriggerStep /\ JobsListed
      /\ jobs' = IF Len(builds') > Len(builds) THEN Append(jobs, Queued) ELSE jobs
  BY DEF Triggers
<1>2. Len(builds) \in Nat /\ Len(builds') \in {Len(builds), Len(builds) + 1}
  <2> DEFINE B == [by : Procs, release : AllReleases, commit : Shas \cup {"None"}]
  <2>1. builds \in Seq(B)
    BY DEF TriggerInv, TriggerTyped
  <2> HIDE DEF B
  <2>2. Len(builds) \in Nat
    BY <2>1, LenProperties
  <2>3. \E e : builds' = builds \/ builds' = Append(builds, e)
    BY <1>1 DEF Trigger!TriggerStep, Trigger!Check, Trigger!Create, Trigger!Echo, Trigger!Look,
                Trigger!StartBuild, Trigger!Record, Trigger!Receive, Trigger!MainMoves
  <2>4. PICK e : builds' = builds \/ builds' = Append(builds, e)
    BY <2>3
  <2>5. builds \in Seq(B \cup {e}) /\ e \in B \cup {e}
    BY <2>1, SeqDef
  <2>6. QED
    BY <2>2, <2>4, <2>5, AppendProperties
<1>3. Jobs = 1 .. Len(jobs) /\ Len(jobs) \in Nat /\ Len(jobs) = Len(builds)
  BY <1>1, JobsAre DEF JobsListed
<1>4. Queued.state = "queued" /\ Shape(Queued)
  BY DEF Queued, Shape
<1>5. /\ JobsListed' /\ \A b \in Jobs : b \in Jobs' /\ jobs'[b] = jobs[b]
      /\ \A b \in Jobs' : b \notin Jobs => jobs'[b] = Queued
  <2>1. CASE Len(builds') = Len(builds)
    <3>1. jobs' = jobs
      BY <1>1, <1>2, <2>1
    <3>2. QED
      BY <1>1, <2>1, <3>1 DEF JobsListed, Elements, Jobs
  <2>2. CASE Len(builds') = Len(builds) + 1
    <3>1. jobs' = Append(jobs, Queued)
      BY <1>1, <1>2, <2>2
    <3> DEFINE E == Elements(jobs) \cup {Queued}
    <3>2. jobs \in Seq(E) /\ Queued \in E
      BY <1>1, SeqDef DEF JobsListed
    <3> HIDE DEF E
    <3>3. /\ jobs' \in Seq(E) /\ Len(jobs') = Len(jobs) + 1
          /\ \A b \in 1 .. Len(jobs) : jobs'[b] = jobs[b]
          /\ jobs'[Len(jobs) + 1] = Queued
      BY <1>3, <3>1, <3>2, AppendProperties
    <3>4. Jobs' = 1 .. Len(jobs) + 1
      BY <3>3, LenProperties DEF Jobs
    <3>5. \A b \in Jobs' : b \in Jobs \/ b = Len(jobs) + 1
      BY <1>3, <3>4
    <3>6. \A b \in Jobs : b \in Jobs' /\ jobs'[b] = jobs[b]
      BY <1>3, <3>3, <3>4
    <3>7. jobs' \in Seq(Elements(jobs)')
      <4>1. jobs' \in [1 .. Len(jobs) + 1 -> Elements(jobs)']
        BY <3>3, <3>4, LenProperties DEF Elements, Jobs
      <4>2. QED
        BY <1>3, <4>1, SeqDef
    <3>8. \A b \in Jobs' : Shape(jobs'[b])
      BY <1>1, <1>4, <3>3, <3>5, <3>6 DEF JobsListed
    <3>9. QED
      BY <1>3, <2>2, <3>3, <3>5, <3>6, <3>7, <3>8 DEF JobsListed
  <2>3. QED
    BY <1>2, <2>1, <2>2
<1> QED
  BY <1>5

LEMMA TriggersKeep ==
  ASSUME TriggerInv, JobInv, Triggers
  PROVE  JobInv'
<1>1. Trigger!TriggerStep /\ JobsListed
  BY DEF Triggers, JobInv
<1>4. Queued.state = "queued"
  BY DEF Queued
<1>5. /\ JobsListed' /\ \A b \in Jobs : b \in Jobs' /\ jobs'[b] = jobs[b]
      /\ \A b \in Jobs' : b \notin Jobs => jobs'[b] = Queued
  BY <1>1, TriggersAdd
<1>6. \A b \in Jobs : NameOf(b)' = NameOf(b)
  BY <1>1, <1>5, NamesStay
<1>7. \A b \in Jobs' : jobs'[b].state \in Past => b \in Jobs
  BY <1>4, <1>5 DEF Past
<1>8. Thorough'
  BY <1>5, <1>7 DEF JobInv, Thorough, Past
<1>9. Caught'
  BY <1>5, <1>6, <1>7 DEF JobInv, Caught
<1>10. QED
  BY <1>5, <1>8, <1>9 DEF JobInv

LEMMA JobInit == Init => JobInv
<1> SUFFICES ASSUME Init PROVE JobInv
  OBVIOUS
<1>1. jobs = <<>> /\ builds = <<>>
  BY DEF Init, Trigger!TriggerInit
<1>2. Jobs = {}
  <2>1. DOMAIN <<>> = {}
    OBVIOUS
  <2>2. QED
    BY <1>1, <2>1 DEF Jobs
<1>3. QED
  BY <1>1, <1>2, EmptySeq DEF JobInv, JobsListed, Thorough, Caught

LEMMA JobNext == ASSUME TriggerInv, JobInv, [Next]_vars PROVE JobInv'
<1>1. CASE Triggers
  BY <1>1, TriggersKeep
<1>2. ASSUME NEW b \in Jobs, Job(b) PROVE JobInv'
  <2>1. CASE Kills(b)
    BY <2>1, KillsKeeps DEF Kills, Same
  <2>2. QED
    BY <1>2, <2>1, DoStopKeeps, StopsKeeps, GoesOn DEF Job
<1>3. CASE UNCHANGED <<trigger, jobs>>
  <2>1. UNCHANGED <<jobs, builds, proc>>
    BY <1>3 DEF trigger
  <2>2. JobsListed' /\ Thorough'
    BY <2>1 DEF JobInv, JobsListed, Thorough, Jobs, Elements
  <2>3. Caught'
    BY <1>3, <2>1, NamesOfJobs DEF JobInv, Caught, Jobs
  <2>4. QED
    BY <2>2, <2>3 DEF JobInv
<1>4. QED
  BY <1>1, <1>2, <1>3 DEF Next, Map, vars

LEMMA JobsAlways == Spec => []JobInv
<1>1. Init => JobInv
  BY JobInit
<1>2. TriggerInv /\ JobInv /\ [Next]_vars => JobInv'
  BY JobNext
<1>3. QED
  BY <1>1, <1>2, TriggerAlways, PTL DEF Spec

(* "Kill old jobs" (runner.groovy): in whatever order the jobs of one name *)
(* get their nodes, of those that have gone through the others one at most *)
(* is not being stopped.                                                   *)
THEOREM OneJobAtATime == Spec => []OneJobRuns
<1>1. JobInv => OneJobRuns
  <2> SUFFICES ASSUME JobInv, NEW b \in Jobs, NEW c \in Jobs, b # c, NameOf(b) = NameOf(c),
                      jobs[b].state \in {"maps", "runs"}, jobs[c].state \in {"maps", "runs"}
               PROVE  jobs[b].by # 0 \/ jobs[c].by # 0
    BY DEF OneJobRuns
  <2>1. jobs[b].todo = {} /\ jobs[c].todo = {}
    BY DEF JobInv, Thorough
  <2>2. jobs[b].state \in Past /\ jobs[c].state \in Past
    BY DEF Past
  <2>3. QED
    BY <2>1, <2>2 DEF JobInv, Caught
<1>2. QED
  BY <1>1, JobsAlways, PTL

-----------------------------------------------------------------------------
(* What a text asks for: the directives are folded into the parameters in  *)
(* the order of the lines, and the last one about features or tests counts.*)

Naming == {"runtest", "runfeature"}

Asked(l) == IF l.tag = "runtest" THEN [form |-> "tests", names |-> l.value] ELSE l.value

Known == {Trigger!Release(v) : v \in STRING}

AllBuilds(Y) == [os : SUBSET Known, features : Requests, build : Y]

IsParams(r) == \E Y : r \in AllBuilds(Y)

LEMMA LineTypes ==
  ASSUME NEW l \in Lines
  PROVE  /\ l.tag \in {"os", "mr", "build", "runtest", "runfeature"}
         /\ l.tag \in {"os", "mr", "build"} => l.value \in STRING
         /\ l.tag \in Naming => Asked(l) \in Requests
<1>1. CASE l \in [tag : {"os", "mr", "build"}, value : STRING]
  BY <1>1 DEF Naming
<1>2. CASE l \in [tag : {"runtest"}, value : Seq(STRING)]
  BY <1>2 DEF Asked, Requests
<1>3. CASE l \in [tag : {"runfeature"}, value : Requests]
  BY <1>3 DEF Asked
<1> QED
  BY <1>1, <1>2, <1>3 DEF Lines

LEMMA OverrideDoes ==
  ASSUME NEW Y, STRING \subseteq Y, NEW r \in AllBuilds(Y), NEW l \in Lines
  PROVE  /\ Trigger!Override(r, l) \in AllBuilds(Y)
         /\ Trigger!Override(r, l).features = IF l.tag \in Naming THEN Asked(l) ELSE r.features
<1>0. r \in [os : SUBSET Known, features : Requests, build : Y]
  BY DEF AllBuilds
<1>1. CASE l.tag = "os"
  <2>1. Trigger!Release(l.value) \in Known
    BY <1>1, LineTypes DEF Known
  <2> DEFINE x == Trigger!Release(l.value)
  <2>2. Trigger!Override(r, l) = [r EXCEPT !.os = @ \cup {x}]
    BY <1>1 DEF Trigger!Override
  <2> HIDE DEF x
  <2>3. x \in Known
    BY <2>1 DEF x
  <2>4. [r EXCEPT !.os = @ \cup {x}] \in AllBuilds(Y) /\ [r EXCEPT !.os = @ \cup {x}].features = r.features
    BY <1>0, <2>3 DEF AllBuilds
  <2> QED
    BY <1>1, <2>2, <2>4 DEF Naming
<1>2. CASE l.tag = "build"
  <2>1. Trigger!Override(r, l) = [r EXCEPT !.build = l.value]
    BY <1>2 DEF Trigger!Override
  <2>2. l.value \in Y
    BY <1>2, LineTypes
  <2>3. [r EXCEPT !.build = l.value] \in AllBuilds(Y) /\ [r EXCEPT !.build = l.value].features = r.features
    BY <1>0, <2>2 DEF AllBuilds
  <2> QED
    BY <1>2, <2>1, <2>3 DEF Naming
<1>3. CASE l.tag \in Naming
  <2> DEFINE x == Asked(l)
  <2>1. Trigger!Override(r, l) = [r EXCEPT !.features = x]
    BY <1>3 DEF Trigger!Override, Asked, Naming
  <2>2. x \in Requests
    BY <1>3, LineTypes
  <2> HIDE DEF x
  <2>3. [r EXCEPT !.features = x] \in AllBuilds(Y) /\ [r EXCEPT !.features = x].features = x
    BY <1>0, <2>2 DEF AllBuilds
  <2> QED
    BY <1>3, <2>1, <2>3 DEF x
<1>4. CASE l.tag = "mr"
  <2>1. Trigger!Override(r, l) = r
    BY <1>4 DEF Trigger!Override
  <2> QED
    BY <1>4, <2>1 DEF Naming
<1> QED
  BY <1>1, <1>2, <1>3, <1>4, LineTypes DEF Naming

(* What is said about features and tests in the first lines.               *)
SaidOf(lines, n, before, f) ==
  /\ (\A k \in 1 .. n : lines[k].tag \notin Naming) => f = before
  /\ \A k \in 1 .. n :
       lines[k].tag \in Naming /\ (\A j \in 1 .. n : lines[j].tag \in Naming => j <= k) => f = Asked(lines[k])

LEMMA DetailSays ==
  ASSUME NEW lines \in Seq(Lines), NEW params, IsParams(params)
  PROVE  /\ IsParams(Trigger!Detail(lines, params))
         /\ SaidOf(lines, Len(lines), params.features, Trigger!Detail(lines, params).features)
<1> DEFINE n == Len(lines)
           p0 == Trigger!Sibling(lines, params)
<1>1. n \in Nat /\ DOMAIN lines = 1 .. n /\ \A k \in 1 .. n : lines[k] \in Lines
  BY LenProperties, ElementOfSeq
<1>2. PICK Y0 : params \in AllBuilds(Y0)
  BY DEF IsParams
<1>3. PICK Y : STRING \subseteq Y /\ p0 \in AllBuilds(Y) /\ p0.features = params.features
  <2>1. PICK x : p0 = params \/ p0 = [params EXCEPT !.build = x]
    BY DEF Trigger!Sibling
  <2> DEFINE Y == STRING \cup Y0 \cup {x}
  <2>2. params \in [os : SUBSET Known, features : Requests, build : Y]
    BY <1>2 DEF AllBuilds
  <2>3. x \in Y /\ STRING \subseteq Y
    OBVIOUS
  <2> HIDE DEF Y, p0
  <2>4. /\ [params EXCEPT !.build = x] \in [os : SUBSET Known, features : Requests, build : Y]
        /\ [params EXCEPT !.build = x].features = params.features
    BY <2>2, <2>3
  <2> QED
    BY <2>1, <2>2, <2>3, <2>4 DEF AllBuilds
<1> DEFINE A == AllBuilds(Y)
           st == [x \in A \X (1 .. n) |-> Trigger!Override(x[1], lines[x[2]])]
           Eqn(f) == f = [s \in SUBSET (1 .. n) |->
                            IF s = {} THEN p0
                            ELSE Trigger!Override(f[s \ {Largest(s)}], lines[Largest(s)])]
           it == CHOOSE f : Eqn(f)
<1>4. Trigger!Detail(lines, params) = it[1 .. n]
  BY <1>1 DEF Trigger!Detail, Trigger!FoldLeft, Trigger!MapThenFoldSet, Trigger!Max, Largest
<1>5. ASSUME NEW r \in A, NEW k \in 1 .. n
      PROVE  /\ Trigger!Override(r, lines[k]) \in A
             /\ Trigger!Override(r, lines[k]).features = IF lines[k].tag \in Naming THEN Asked(lines[k]) ELSE r.features
  BY <1>1, <1>3, OverrideDoes
<1>6. st \in [A \X (1 .. n) -> A] /\ p0 \in A
  BY <1>3, <1>5
<1> HIDE DEF A, p0
<1>7. \E f : Eqn(f)
  <2>1. PICK f \in [SUBSET (1 .. n) -> A] : Computes(f, n, p0, st)
    <3> HIDE DEF st
    <3> QED
      BY <1>1, <1>6, FoldIsDefined
  <2>2. ASSUME NEW s \in SUBSET (1 .. n), s # {}
        PROVE  f[s] = Trigger!Override(f[s \ {Largest(s)}], lines[Largest(s)])
    <3>1. Largest(s) \in 1 .. n /\ s \ {Largest(s)} \in SUBSET (1 .. n)
      BY <1>1, <2>2, LargestOf
    <3>2. f[s] = st[<<f[s \ {Largest(s)}], Largest(s)>>]
      BY <2>1, <2>2 DEF Computes
    <3> QED
      BY <2>1, <3>1, <3>2
  <2>3. f[{}] = p0
    BY <2>1 DEF Computes
  <2>4. Eqn(f)
    BY <2>1, <2>2, <2>3
  <2> QED
    BY <2>4
<1>8. Eqn(it)
  BY <1>7
<1> HIDE DEF it
<1>9. it[1 .. 0] = p0 /\ \A k \in 1 .. n : it[1 .. k] = Trigger!Override(it[1 .. k - 1], lines[k])
  <2>1. it[1 .. 0] = p0
    <3>1. 1 .. 0 = {} /\ 1 .. 0 \in SUBSET (1 .. n)
      OBVIOUS
    <3> QED
      BY <1>8, <3>1
  <2>2. ASSUME NEW k \in 1 .. n PROVE it[1 .. k] = Trigger!Override(it[1 .. k - 1], lines[k])
    <3>1. 1 .. k \in SUBSET (1 .. n) /\ 1 .. k # {} /\ Largest(1 .. k) = k /\ (1 .. k) \ {Largest(1 .. k)} = 1 .. k - 1
      BY <1>1, LastOfFirst
    <3> QED
      BY <1>8, <3>1
  <2> QED
    BY <2>1, <2>2
<1> DEFINE G == {k \in 0 .. n : it[1 .. k] \in A /\ SaidOf(lines, k, params.features, it[1 .. k].features)}
<1>10. 0 \in G
  BY <1>1, <1>3, <1>6, <1>9 DEF SaidOf, p0
<1>11. ASSUME NEW k \in 1 .. n, k - 1 \in G PROVE k \in G
  <2>1. /\ it[1 .. k] \in A
        /\ it[1 .. k].features = IF lines[k].tag \in Naming THEN Asked(lines[k]) ELSE it[1 .. k - 1].features
    BY <1>5, <1>9, <1>11
  <2>2. k \in 1 .. k /\ 1 .. k = (1 .. k - 1) \cup {k} /\ \A j \in 1 .. k : j <= k
    BY <1>1
  <2>3. SaidOf(lines, k, params.features, it[1 .. k].features)
    <3>1. CASE lines[k].tag \in Naming
      BY <2>1, <2>2, <3>1 DEF SaidOf
    <3>2. CASE lines[k].tag \notin Naming
      BY <1>11, <2>1, <2>2, <3>2 DEF SaidOf
    <3> QED
      BY <3>1, <3>2
  <2> QED
    BY <1>1, <2>1, <2>3
<1>12. n \in G
  <2> HIDE DEF G, n
  <2>1. \A k \in 1 .. n : k - 1 \in G => k \in G
    BY <1>11
  <2>2. 0 .. n \subseteq G
    BY <1>1, <1>10, <2>1, Upwards
  <2> QED
    BY <1>1, <2>2
<1> QED
  BY <1>4, <1>12 DEF A, IsParams

LEMMA SaidOfBoth ==
  ASSUME NEW a \in Seq(Lines), NEW b \in Seq(Lines), NEW f0, NEW f1, NEW f2,
         SaidOf(a, Len(a), f0, f1), SaidOf(b, Len(b), f1, f2)
  PROVE  SaidOf(a \o b, Len(a \o b), f0, f2)
<1>1. /\ Len(a) \in Nat /\ Len(b) \in Nat /\ Len(a \o b) = Len(a) + Len(b)
      /\ \A i \in 1 .. Len(a) + Len(b) : (a \o b)[i] = IF i <= Len(a) THEN a[i] ELSE b[i - Len(a)]
  BY ConcatProperties, LenProperties
<1> DEFINE m == Len(a)
           n == Len(b)
           c == a \o b
<1> HIDE DEF m, n, c
<1>2. \A i \in 1 .. m : i \in 1 .. m + n /\ c[i] = a[i]
  BY <1>1 DEF m, n, c
<1>3. \A i \in 1 .. n : m + i \in 1 .. m + n /\ c[m + i] = b[i]
  <2> TAKE i \in 1 .. n
  <2>1. m + i \in 1 .. m + n /\ ~ (m + i <= m) /\ (m + i) - m = i
    BY <1>1 DEF m, n
  <2> QED
    BY <1>1, <2>1 DEF m, n, c
<1>4. \A i \in 1 .. m + n : i \in 1 .. m \/ \E j \in 1 .. n : i = m + j
  <2> TAKE i \in 1 .. m + n
  <2>1. CASE i > m
    <3>1. i - m \in 1 .. n /\ i = m + (i - m)
      BY <1>1, <2>1 DEF m, n
    <3> QED
      BY <3>1
  <2>2. CASE ~ (i > m)
    BY <1>1, <2>2 DEF m, n
  <2> QED
    BY <2>1, <2>2
<1>5. (\A k \in 1 .. m : a[k].tag \notin Naming) => f1 = f0
  BY DEF SaidOf, m
<1>6. (\A k \in 1 .. n : b[k].tag \notin Naming) => f2 = f1
  BY DEF SaidOf, n
<1>7. (\A k \in 1 .. m + n : c[k].tag \notin Naming) => f2 = f0
  BY <1>2, <1>3, <1>5, <1>6
<1>8. ASSUME NEW k \in 1 .. m + n, c[k].tag \in Naming, \A j \in 1 .. m + n : c[j].tag \in Naming => j <= k
      PROVE  f2 = Asked(c[k])
  <2>1. CASE k \in 1 .. m
    <3>1. \A j \in 1 .. n : b[j].tag \notin Naming
      <4> SUFFICES ASSUME NEW j \in 1 .. n, b[j].tag \in Naming PROVE FALSE
        OBVIOUS
      <4>1. m + j <= k
        BY <1>3, <1>8
      <4>2. m \in Nat /\ n \in Nat
        BY <1>1 DEF m, n
      <4> QED
        BY <2>1, <4>1, <4>2
    <3>2. \A j \in 1 .. m : a[j].tag \in Naming => j <= k
      BY <1>2, <1>8
    <3>3. f1 = Asked(a[k])
      BY <1>2, <1>8, <2>1, <3>2 DEF SaidOf, m
    <3> QED
      BY <1>2, <1>6, <2>1, <3>1, <3>3
  <2>2. ASSUME NEW i \in 1 .. n, k = m + i PROVE f2 = Asked(c[k])
    <3>1. b[i].tag \in Naming /\ c[k] = b[i]
      BY <1>3, <1>8, <2>2
    <3>2. \A j \in 1 .. n : b[j].tag \in Naming => j <= i
      <4> TAKE j \in 1 .. n
      <4>1. b[j].tag \in Naming => m + j <= m + i
        BY <1>3, <1>8, <2>2
      <4>2. m \in Nat /\ n \in Nat
        BY <1>1 DEF m, n
      <4> QED
        BY <4>1, <4>2
    <3> QED
      BY <3>1, <3>2 DEF SaidOf, n
  <2> QED
    BY <1>4, <1>8, <2>1, <2>2
<1>9. Len(c) = m + n
  BY <1>1 DEF m, n, c
<1> QED
  BY <1>7, <1>8, <1>9 DEF SaidOf, c

(* The features or tests of a merge request.                               *)
Feat(e) == Trigger!Params(e).features

LEMMA ParamsSay ==
  ASSUME NEW k \in DOMAIN Events
  PROVE  /\ Feat(Events[k]) \in Requests
         /\ Directives(Events[k]) # {} =>
              Directives(Events[k]) \subseteq DOMAIN Text(Events[k])
              /\ Named(Events[k]) \in Lines /\ Named(Events[k]).tag \in Naming
              /\ Feat(Events[k]) = Asked(Named(Events[k]))
<1> DEFINE e == Events[k]
           d == Trigger!Defaults
           ofText == Trigger!Detail(e.text, d)
           last == IF e.kind = "note" THEN Trigger!Detail(e.comment, ofText) ELSE ofText
           t == Text(e)
<1>1. e.text \in Seq(Lines) /\ e.comment \in Seq(Lines)
  BY MergeRequestAssumption DEF MergeRequestAssumption
<1>2. IsParams(d)
  <2> DEFINE best == [form |-> "best", names |-> <<>>]
             no == {}
  <2>1. best \in Requests /\ no \in SUBSET Known
    BY DEF Requests
  <2> HIDE DEF best, no
  <2>2. [os |-> no, features |-> best, build |-> "main"] \in AllBuilds({"main"})
    BY <2>1 DEF AllBuilds
  <2>3. d = [os |-> no, features |-> best, build |-> "main"]
    BY DEF d, no, best, Trigger!Defaults
  <2> QED
    BY <2>2, <2>3 DEF IsParams
<1> HIDE DEF d
<1>3. IsParams(ofText) /\ SaidOf(e.text, Len(e.text), d.features, ofText.features)
  BY <1>1, <1>2, DetailSays
<1>4. Feat(e) = last.features /\ IsParams(last)
  <2>1. IsParams(last)
    BY <1>1, <1>3, DetailSays
  <2>2. Trigger!Params(e) = IF e.kind = "note" /\ e.command # "" THEN [last EXCEPT !.os = {e.command}] ELSE last
    BY DEF Trigger!Params, d
  <2> HIDE DEF last
  <2>3. PICK Y : last \in [os : SUBSET Known, features : Requests, build : Y]
    BY <2>1 DEF IsParams, AllBuilds
  <2>4. [last EXCEPT !.os = {e.command}].features = last.features
    BY <2>3
  <2> QED
    BY <2>1, <2>2, <2>4 DEF Feat
<1>5. t \in Seq(Lines) /\ SaidOf(t, Len(t), d.features, last.features)
  <2>1. CASE e.kind = "note"
    <3>1. SaidOf(e.comment, Len(e.comment), ofText.features, last.features)
      BY <1>1, <1>3, <2>1, DetailSays
    <3>2. t = e.text \o e.comment
      BY <2>1 DEF Text
    <3> HIDE DEF ofText, last, t
    <3> QED
      BY <1>1, <1>3, <3>1, <3>2, SaidOfBoth, ConcatProperties
  <2>2. CASE e.kind # "note"
    <3>1. t = e.text
      BY <1>1, <2>2, ConcatEmptySeq DEF Text
    <3> QED
      BY <1>1, <1>3, <2>2, <3>1
  <2> QED
    BY <2>1, <2>2
<1>6. Feat(e) \in Requests
  BY <1>4 DEF IsParams, AllBuilds
<1> HIDE DEF last, ofText
<1>7. ASSUME Directives(e) # {}
      PROVE  Named(e) \in Lines /\ Named(e).tag \in Naming /\ Feat(e) = Asked(Named(e))
  <2>1. DOMAIN t = 1 .. Len(t) /\ Len(t) \in Nat
    BY <1>5, LenProperties
  <2>2. Directives(e) = {j \in 1 .. Len(t) : t[j].tag \in Naming}
    BY <2>1 DEF Directives, Naming
  <2> DEFINE D == Directives(e)
             m == Largest(D)
  <2>3. m \in D /\ \A j \in D : m >= j
    BY <1>7, <2>1, <2>2, LargestOf
  <2>4. Named(e) = t[CHOOSE x \in D : \A j \in D : j <= x]
    BY DEF Named
  <2> HIDE DEF D, t, m
  <2>5. PICK x \in D : Named(e) = t[x] /\ \A j \in D : j <= x
    <3>1. \E x \in D : \A j \in D : j <= x
      <4>1. \A j \in D : j \in Nat /\ m \in Nat
        BY <2>2, <2>3 DEF D
      <4>2. \A j \in D : j <= m
        BY <2>3, <4>1
      <4> QED
        BY <2>3, <4>2
    <3> QED
      BY <2>4, <3>1
  <2>6. t[x] \in Lines
    BY <1>5, <2>2, <2>5, ElementOfSeq DEF D
  <2> QED
    BY <1>4, <1>5, <2>2, <2>5, <2>6 DEF D, SaidOf
<1> QED
  BY <1>6, <1>7 DEF Directives

-----------------------------------------------------------------------------
(* The features or tests of a merge request on the way to its machines.    *)

(* A process keeps what its event asks for.                                *)
Understood == \A p \in Procs : Pc(p) # "idle" => proc[p].params = Trigger!Params(Events[proc[p].event])

OneMaps == \A b, c \in Jobs : jobs[b].state = "maps" /\ jobs[c].state = "maps" => b = c

FeatOf(b) == Feat(EventOf(b))

AskIs == \A b \in Jobs : jobs[b].state = "maps" /\ ~SaysBest(FeatOf(b)) => ask = Parse(FeatOf(b), <<>>)

MeantBy(r, i) ==
  /\ r.form = "covering" => HasOneOf(Feature(i), r.names)
  /\ r.form = "tests" => Elements(r.names) \cap ({Entries[i].name} \cup Everything) # {}
  /\ r.form = "features" => r.names = <<>> \/ Elements(r.names) \cap ({Feature(i), "*"} \cup WithAll) # {}

WantedBy(r) == {i \in Tests : Feature(i) \notin Excluded /\ MeantBy(r, i)}

RightOnes(given, r) == given = IF WantedBy(r) = {} THEN {0} ELSE WantedBy(r)

RunsRight ==
  \A b \in Jobs : jobs[b].state = "runs" /\ ~SaysBest(FeatOf(b)) => RightOnes(UNION Elements(jobs[b].tests), FeatOf(b))

AskInv == Understood /\ OneMaps /\ AskIs /\ RunsRight

LEMMA ParsedAlike ==
  ASSUME NEW r, ~SaysBest(r), NEW c
  PROVE  Parse(r, c) = Parse(r, <<>>)
BY DEF Parse

LEMMA WantedIs ==
  ASSUME NEW r \in Requests, ~SaysBest(r), ask = Parse(r, <<>>)
  PROVE  Wanted = WantedBy(r)
<1>1. r.form \in {"covering", "tests", "features"}
  BY DEF SaysBest, Requests
<1>2. ASSUME NEW i \in Tests
      PROVE  Selected(i) /\ (ask.kind = "covering" => HasOneOf(Feature(i), ask.names)) <=>
               Feature(i) \notin Excluded /\ MeantBy(r, i)
  <2>1. CASE r.form \in {"covering", "tests"}
    <3>1. ask.kind = r.form /\ ask.names = r.names
      BY <2>1 DEF Parse
    <3> QED
      BY <2>1, <3>1 DEF Selected, MeantBy
  <2>2. CASE r.form = "features" /\ (r.names = <<>> \/ Elements(r.names) \cap WithAll # {})
    <3>1. ask.kind = "all"
      BY <2>2 DEF Parse, All
    <3> QED
      BY <2>2, <3>1 DEF Selected, MeantBy
  <2>3. CASE r.form = "features" /\ ~ (r.names = <<>> \/ Elements(r.names) \cap WithAll # {})
    <3>1. ask.kind = "features" /\ ask.names = r.names
      BY <2>3 DEF Parse
    <3> QED
      BY <2>3, <3>1 DEF Selected, MeantBy
  <2> QED
    BY <1>1, <2>1, <2>2, <2>3
<1> QED
  BY <1>2 DEF Wanted, WantedBy

(* What an event asks for is not forgotten.                                *)
LEMMA UnderstoodKeeps ==
  ASSUME TriggerInv, Understood, Trigger!TriggerStep \/ UNCHANGED trigger
  PROVE  Understood'
<1> SUFFICES ASSUME NEW p \in Procs, Pc(p)' # "idle" PROVE proc'[p].params = Trigger!Params(Events[proc'[p].event])
  BY DEF Understood
<1>1. Keeps(p) \/ (Pc(p) = "idle" /\ Receives(p))
  BY EventsStay DEF TriggerInv
<1>2. CASE Receives(p)
  BY <1>2 DEF Receives
<1>3. CASE Keeps(p) /\ Pc(p) # "idle"
  BY <1>3 DEF Keeps, Understood
<1>4. CASE Keeps(p) /\ Pc(p) = "idle"
  BY <1>4 DEF Keeps, Pc
<1> QED
  BY <1>1, <1>2, <1>3, <1>4

LEMMA UnderstoodAlways == Spec => []Understood
<1>1. Init => Understood
  <2>1. Trigger!Idle.pc = "idle"
    BY DEF Trigger!Idle
  <2> QED
    BY <2>1 DEF Init, Trigger!TriggerInit, Understood, Pc
<1>2. TriggerInv /\ Understood /\ [Next]_vars => Understood'
  <2>1. [Next]_vars => Trigger!TriggerStep \/ UNCHANGED trigger
    BY DEF Next, Map, Triggers, Job, Kills, DoStop, Stops, Maps, Runs, Crashes, Ends, Same, vars
  <2> QED
    BY <2>1, UnderstoodKeeps
<1> QED
  BY <1>1, <1>2, TriggerAlways, PTL DEF Spec

(* A build's process is one that has understood its event.                 *)
LEMMA BuiltFor ==
  ASSUME TriggerInv, JobsListed, Understood, NEW b \in Jobs
  PROVE  /\ proc[builds[b].by].params.features = FeatOf(b)
         /\ FeatOf(b) \in Requests
         /\ \E k \in DOMAIN Events : EventOf(b) = Events[k]
<1>1. TriggerTyped
  BY DEF TriggerInv
<1>2. DOMAIN builds = Jobs
  BY <1>1, JobsAre, LenProperties DEF JobsListed, TriggerTyped
<1>3. builds[b].by \in Procs /\ Pc(builds[b].by) # "idle"
  BY <1>1, <1>2, BuiltBy DEF TriggerInv, Genuine
<1>4. proc[builds[b].by].event \in DOMAIN Events
  BY <1>1, <1>3 DEF TriggerTyped, Pc
<1> QED
  BY <1>3, <1>4, ParamsSay DEF Understood, FeatOf, Feat, EventOf

LEMMA RunsRightNext ==
  ASSUME \A b \in Jobs' : jobs'[b].state = "runs" /\ ~ SaysBest(FeatOf(b)') =>
           RightOnes(UNION Elements(jobs'[b].tests), FeatOf(b)')
  PROVE  RunsRight'
BY DEF RunsRight, RightOnes, WantedBy, MeantBy, HasOneOf, Feature, SaysBest

(* A step of one job that does not begin to use the Mapper, or of none.    *)
LEMMA AskStays ==
  ASSUME AskInv, Understood', \A b \in Jobs' : jobs'[b].state \in {"maps", "runs"} =>
           /\ b \in Jobs /\ FeatOf(b)' = FeatOf(b)
           /\ jobs'[b].state = jobs[b].state /\ jobs'[b].tests = jobs[b].tests
           /\ jobs[b].state = "maps" => ask' = ask
  PROVE  AskInv'
<1>1. OneMaps'
  BY DEF AskInv, OneMaps
<1>2. AskIs'
  BY DEF AskInv, AskIs, Parse, SaysBest
<1>3. RunsRight'
  <2>1. ASSUME NEW b \in Jobs', jobs'[b].state = "runs", ~ SaysBest(FeatOf(b)')
        PROVE  RightOnes(UNION Elements(jobs'[b].tests), FeatOf(b)')
    BY <2>1 DEF AskInv, RunsRight
  <2> QED
    BY <2>1, RunsRightNext
<1> QED
  BY <1>1, <1>2, <1>3 DEF AskInv

LEMMA AskTriggers == ASSUME TriggerInv, JobInv, AskInv, Triggers PROVE AskInv'
<1>1. Trigger!TriggerStep /\ ask' = ask
  BY DEF Triggers, mapperVars, asked
<1>2. JobsListed /\ JobsListed'
  BY TriggersKeep DEF JobInv
<1>3. Understood'
  BY <1>1, UnderstoodKeeps DEF AskInv
<1>4. \A b \in Jobs' : (b \in Jobs /\ jobs'[b] = jobs[b]) \/ jobs'[b].state = "queued"
  BY <1>2, TriggersAdd DEF Queued
<1>5. \A b \in Jobs : b \in Jobs' => FeatOf(b)' = FeatOf(b)
  BY <1>1, <1>2, NamesStay DEF FeatOf
<1> QED
  BY <1>1, <1>3, <1>4, <1>5, AskStays

(* A job that is not to use the Mapper nor to run tests, or no more.       *)
LEMMA AskLeft ==
  ASSUME JobsListed, AskInv, Understood', UNCHANGED trigger, NEW b \in Jobs, NEW r,
         jobs' = [jobs EXCEPT ![b] = r], r.state \notin {"maps", "runs"},
         ask' = ask \/ jobs[b].state = "maps"
  PROVE  AskInv'
<1>1. Jobs' = Jobs /\ jobs'[b] = r /\ \A c \in Jobs : c # b => jobs'[c] = jobs[c]
  BY DEF Jobs
<1>2. \A c : FeatOf(c)' = FeatOf(c)
  BY DEF trigger, FeatOf, EventOf
<1>3. \A c \in Jobs : c # b /\ jobs[c].state = "maps" => ask' = ask
  BY DEF AskInv, OneMaps
<1> QED
  BY <1>1, <1>2, <1>3, AskStays

(* The tests of the machines are those the Mapper has given.               *)
LEMMA AskRuns ==
  ASSUME TriggerInv, JobsListed, AskInv, Understood', IInv, WantedIsGiven, NEW b \in Jobs, Runs(b)
  PROVE  AskInv'
<1> DEFINE r == [jobs[b] EXCEPT !.state = "runs"]
           d == Distribution
<1>1. Shape(jobs[b]) /\ jobs[b].state = "maps" /\ stage = "done" /\ UNCHANGED trigger
  BY DEF JobsListed, Runs
<1>2. jobs' = [jobs EXCEPT ![b] = [r EXCEPT !.tests = d]]
  BY DEF Runs, Jobs
<1>3. r = [state |-> "runs", todo |-> jobs[b].todo, by |-> jobs[b].by, tests |-> jobs[b].tests]
  BY <1>1, Only
<1>4. Shape(r) /\ r.state = "runs"
  BY <1>3 DEF Shape
<1> HIDE DEF r, d
<1>5. [r EXCEPT !.tests = d].state = "runs" /\ [r EXCEPT !.tests = d].tests = d
  BY <1>4, Only
<1>6. /\ Jobs' = Jobs /\ jobs'[b].state = "runs" /\ jobs'[b].tests = d
      /\ \A c \in Jobs : c # b => jobs'[c] = jobs[c]
  BY <1>2, <1>5 DEF Jobs
<1>7. \A c : FeatOf(c)' = FeatOf(c)
  BY <1>1 DEF trigger, FeatOf, EventOf
<1>8. \A c \in Jobs : c # b => jobs[c].state # "maps"
  BY <1>1 DEF AskInv, OneMaps
<1>9. OneMaps' /\ AskIs'
  BY <1>6, <1>8 DEF OneMaps, AskIs
<1>10. ~ SaysBest(FeatOf(b)) => RightOnes(UNION Elements(d), FeatOf(b))
  <2> SUFFICES ASSUME ~ SaysBest(FeatOf(b)) PROVE RightOnes(UNION Elements(d), FeatOf(b))
    OBVIOUS
  <2>1. ask = Parse(FeatOf(b), <<>>)
    BY <1>1 DEF AskInv, AskIs
  <2>2. FeatOf(b) \in Requests
    BY BuiltFor DEF AskInv
  <2>3. Wanted = WantedBy(FeatOf(b))
    BY <2>1, <2>2, WantedIs
  <2>4. AllGiven = Wanted
    BY <1>1 DEF WantedIsGiven
  <2>5. UNION Elements(d) = IF AllGiven = {} THEN {0} ELSE AllGiven
    BY WhatIsReturned DEF IInv, d
  <2> QED
    BY <2>3, <2>4, <2>5 DEF RightOnes
<1>11. ASSUME NEW c \in Jobs, jobs'[c].state = "runs", ~ SaysBest(FeatOf(c))
       PROVE  RightOnes(UNION Elements(jobs'[c].tests), FeatOf(c))
  BY <1>6, <1>10, <1>11 DEF AskInv, RunsRight
<1>12. RunsRight'
  BY <1>6, <1>7, <1>11, RunsRightNext
<1> QED
  BY <1>9, <1>12 DEF AskInv

(* The Mapper is asked for what the merge request asks for.                *)
LEMMA AskMaps ==
  ASSUME TriggerInv, JobsListed, AskInv, Understood', NEW b \in Jobs, Maps(b)
  PROVE  AskInv'
<1>1. /\ Shape(jobs[b]) /\ UNCHANGED trigger /\ (\A c \in Jobs : jobs[c].state # "maps")
      /\ jobs' = [jobs EXCEPT ![b] = [jobs[b] EXCEPT !.state = "maps"]]
  BY DEF JobsListed, Maps
<1>2. [jobs[b] EXCEPT !.state = "maps"].state = "maps"
  BY <1>1, Only
<1>3. Jobs' = Jobs /\ jobs'[b].state = "maps" /\ \A c \in Jobs : c # b => jobs'[c] = jobs[c]
  BY <1>1, <1>2 DEF Jobs
<1>4. \A c : FeatOf(c)' = FeatOf(c)
  BY <1>1 DEF trigger, FeatOf, EventOf
<1>5. PICK ch : ask' = Parse(FeatOf(b), ch)
  BY BuiltFor DEF AskInv, Maps, Ask
<1>6. ~ SaysBest(FeatOf(b)) => ask' = Parse(FeatOf(b), <<>>)
  BY <1>5, ParsedAlike
<1>7. OneMaps'
  BY <1>1, <1>3 DEF OneMaps
<1>8. AskIs'
  BY <1>1, <1>3, <1>4, <1>6 DEF AskIs, Parse, SaysBest
<1>9. ASSUME NEW c \in Jobs, jobs'[c].state = "runs", ~ SaysBest(FeatOf(c))
      PROVE  RightOnes(UNION Elements(jobs'[c].tests), FeatOf(c))
  BY <1>3, <1>9 DEF AskInv, RunsRight
<1>10. RunsRight'
  BY <1>3, <1>4, <1>9, RunsRightNext
<1> QED
  BY <1>7, <1>8, <1>10 DEF AskInv

LEMMA AskStops ==
  ASSUME JobsListed, AskInv, Understood', NEW b \in Jobs, DoStop(b)
  PROVE  AskInv'
<1>1. UNCHANGED trigger /\ ask' = ask /\ \A x \in Jobs : Shape(jobs[x])
  BY DEF DoStop, Same, mapperVars, asked, JobsListed
<1>2. PICK c \in jobs[b].todo :
        jobs' = [jobs EXCEPT ![b].todo = @ \ {c},
                             ![c].by = IF Shows(c) /\ NameOf(c) = NameOf(b) /\ @ = 0 THEN b ELSE @]
  BY DEF DoStop
<1> DEFINE T == jobs[b].todo \ {c}
           j == [jobs EXCEPT ![b] = [jobs[b] EXCEPT !.todo = T]]
           y == IF Shows(c) /\ NameOf(c) = NameOf(b) /\ j[c].by = 0 THEN b ELSE j[c].by
<1>3. jobs' = IF c \in Jobs THEN [j EXCEPT ![c] = [j[c] EXCEPT !.by = y]] ELSE j
  BY <1>2 DEF Jobs
<1> HIDE DEF T
<1>4. DOMAIN j = Jobs /\ \A x \in Jobs : j[x] = IF x = b THEN [jobs[b] EXCEPT !.todo = T] ELSE jobs[x]
  BY DEF Jobs
<1> HIDE DEF j, y
<1>5. \A x \in Jobs : Shape(j[x]) /\ j[x].state = jobs[x].state /\ j[x].tests = jobs[x].tests
  <2>1. [jobs[b] EXCEPT !.todo = T] = [state |-> jobs[b].state, todo |-> T, by |-> jobs[b].by, tests |-> jobs[b].tests]
    BY <1>1, Only
  <2>2. Shape(j[b]) /\ j[b].state = jobs[b].state /\ j[b].tests = jobs[b].tests
    BY <1>4, <2>1 DEF Shape
  <2> QED
    BY <1>1, <1>4, <2>2
<1>6. Jobs' = Jobs /\ \A x \in Jobs : jobs'[x].state = jobs[x].state /\ jobs'[x].tests = jobs[x].tests
  <2>1. CASE c \in Jobs
    <3>1. /\ Jobs' = Jobs
          /\ \A x \in Jobs : jobs'[x] = IF x = c THEN [j[c] EXCEPT !.by = y] ELSE j[x]
      BY <1>3, <1>4, <2>1 DEF Jobs
    <3>2. [j[c] EXCEPT !.by = y] = [state |-> j[c].state, todo |-> j[c].todo, by |-> y, tests |-> j[c].tests]
      BY <1>5, <2>1, Only
    <3>3. jobs'[c].state = j[c].state /\ jobs'[c].tests = j[c].tests
      BY <2>1, <3>1, <3>2
    <3> QED
      BY <1>5, <3>1, <3>3
  <2>2. CASE c \notin Jobs
    BY <1>3, <1>4, <1>5, <2>2 DEF Jobs
  <2> QED
    BY <2>1, <2>2
<1>7. \A x : FeatOf(x)' = FeatOf(x)
  BY <1>1 DEF trigger, FeatOf, EventOf
<1> QED
  BY <1>1, <1>6, <1>7, AskStays

LEMMA AskJob == ASSUME TriggerInv, JobInv, AskInv, IInv, WantedIsGiven, NEW b \in Jobs, Job(b) PROVE AskInv'
<1>1. UNCHANGED trigger /\ JobsListed /\ Shape(jobs[b])
  BY DEF Job, Kills, DoStop, Stops, Maps, Runs, Crashes, Ends, Same, JobInv, JobsListed
<1>2. Understood'
  BY <1>1, UnderstoodKeeps DEF AskInv
<1>3. CASE Kills(b)
  <2> DEFINE T == Jobs \ {b}
             q == [jobs[b] EXCEPT !.state = "kills"]
  <2>1. ask' = ask /\ jobs' = [jobs EXCEPT ![b] = [q EXCEPT !.todo = T]]
    BY <1>3 DEF Kills, Jobs, Same, mapperVars, asked
  <2>2. q = [state |-> "kills", todo |-> jobs[b].todo, by |-> jobs[b].by, tests |-> jobs[b].tests]
    BY <1>1, Only
  <2>3. Shape(q) /\ q.state = "kills"
    BY <2>2 DEF Shape
  <2> HIDE DEF q, T
  <2>4. [q EXCEPT !.todo = T].state = "kills"
    BY <2>3, Only
  <2> QED
    BY <1>1, <1>2, <2>1, <2>4, AskLeft
<1>4. CASE Stops(b)
  <2> DEFINE q == [Queued EXCEPT !.state = "stopped"]
  <2>1. jobs' = [jobs EXCEPT ![b] = q] /\ (ask' = ask \/ jobs[b].state = "maps")
    BY <1>4 DEF Stops, mapperVars, asked
  <2>2. q.state = "stopped"
    BY DEF Queued
  <2> HIDE DEF q
  <2> QED
    BY <1>1, <1>2, <2>1, <2>2, AskLeft
<1>5. CASE Crashes(b)
  <2> DEFINE q == [jobs[b] EXCEPT !.state = "over"]
  <2>1. jobs' = [jobs EXCEPT ![b] = q] /\ jobs[b].state = "maps"
    BY <1>5 DEF Crashes
  <2>2. q.state = "over"
    BY <1>1, Only
  <2> HIDE DEF q
  <2> QED
    BY <1>1, <1>2, <2>1, <2>2, AskLeft
<1>6. CASE Ends(b)
  <2> DEFINE q == [jobs[b] EXCEPT !.state = "over"]
             z == <<>>
  <2>1. ask' = ask /\ jobs' = [jobs EXCEPT ![b] = [q EXCEPT !.tests = z]]
    BY <1>6 DEF Ends, Jobs, Same, mapperVars, asked
  <2>2. q = [state |-> "over", todo |-> jobs[b].todo, by |-> jobs[b].by, tests |-> jobs[b].tests]
    BY <1>1, Only
  <2>3. Shape(q) /\ q.state = "over"
    BY <2>2 DEF Shape
  <2> HIDE DEF q, z
  <2>4. [q EXCEPT !.tests = z].state = "over"
    BY <2>3, Only
  <2> QED
    BY <1>1, <1>2, <2>1, <2>4, AskLeft
<1> QED
  BY <1>1, <1>2, <1>3, <1>4, <1>5, <1>6, AskRuns, AskMaps, AskStops DEF Job

LEMMA AskMap == ASSUME TriggerInv, AskInv, Map \/ UNCHANGED vars PROVE AskInv'
<1>1. UNCHANGED <<trigger, jobs, ask>>
  BY DEF Map, MapperStep, Collect, Collected, CoverTest, CoverFeature, Drop, Give, Gives, Given, asked, vars, mapperVars
<1>2. Understood'
  BY <1>1, UnderstoodKeeps DEF AskInv
<1>3. \A c : FeatOf(c)' = FeatOf(c)
  BY <1>1 DEF trigger, FeatOf, EventOf
<1> QED
  BY <1>1, <1>2, <1>3, AskStays DEF Jobs

-----------------------------------------------------------------------------
(* The times of the tests.                                                 *)

(* A table that has entries for some of the strings.                       *)
Tables(V) == UNION {[S -> V] : S \in SUBSET STRING}
Reads == [starts : Tables(Nat), durations : Tables(Int)]

LEMMA TableIs ==
  ASSUME NEW V, NEW f
  PROVE  f \in Tables(V) <=> f = [t \in DOMAIN f |-> f[t]] /\ DOMAIN f \subseteq STRING /\ \A t \in DOMAIN f : f[t] \in V
<1>1. ASSUME f \in Tables(V)
      PROVE  f = [t \in DOMAIN f |-> f[t]] /\ DOMAIN f \subseteq STRING /\ \A t \in DOMAIN f : f[t] \in V
  <2>1. PICK S \in SUBSET STRING : f \in [S -> V]
    BY <1>1 DEF Tables
  <2> QED
    BY <2>1
<1>2. ASSUME f = [t \in DOMAIN f |-> f[t]], DOMAIN f \subseteq STRING, \A t \in DOMAIN f : f[t] \in V
      PROVE  f \in Tables(V)
  <2>1. f \in [DOMAIN f -> V]
    BY <1>2
  <2> QED
    BY <1>2, <2>1 DEF Tables
<1> QED
  BY <1>1, <1>2

LEMMA WithoutHas ==
  ASSUME NEW f, NEW x
  PROVE  /\ DOMAIN Timing!Without(f, x) = DOMAIN f \ {x}
         /\ \A t \in DOMAIN f : t # x => Timing!Without(f, x)[t] = f[t]
BY DEF Timing!Without

LEMMA WithIs ==
  ASSUME NEW V, NEW f \in Tables(V), NEW x \in STRING, NEW v \in V
  PROVE  Timing!With(f, x, v) \in Tables(V) /\ Timing!Without(f, x) \in Tables(V)
<1>1. DOMAIN f \subseteq STRING /\ \A t \in DOMAIN f : f[t] \in V
  BY TableIs
<1> DEFINE g == Timing!With(f, x, v)
           h == Timing!Without(f, x)
<1>2. g = [t \in DOMAIN f \cup {x} |-> IF t = x THEN v ELSE f[t]] /\ h = [t \in DOMAIN f \ {x} |-> f[t]]
  BY DEF Timing!With, Timing!Without
<1> HIDE DEF g, h
<1>3. g \in [DOMAIN f \cup {x} -> V] /\ h \in [DOMAIN f \ {x} -> V]
  BY <1>1, <1>2
<1>4. g \in Tables(V) /\ h \in Tables(V)
  BY <1>1, <1>3 DEF Tables
<1> QED
  BY <1>4 DEF g, h

LEMMA BetweenInt ==
  ASSUME NEW a \in Nat, NEW b \in Nat
  PROVE  Timing!Between(a, b) \in Int /\ (a <= b + Timing!Day => Timing!Between(a, b) \in Nat)
BY DEF Timing!Between, Timing!Day

LEMMA LineDoes ==
  ASSUME NEW r \in Reads, NEW l \in Timing!LogLines
  PROVE  LET q == Timing!Line(r, l)
         IN  /\ q \in Reads
             /\ l.act = "START" =>
                  q = [starts |-> Timing!With(r.starts, l.test, l.at), durations |-> r.durations]
             /\ l.act = "END" /\ l.test \in DOMAIN r.starts =>
                  q = [starts    |-> Timing!Without(r.starts, l.test),
                       durations |-> Timing!With(r.durations, l.test, Timing!Between(r.starts[l.test], l.at))]
             /\ l.act = "END" /\ l.test \notin DOMAIN r.starts => q = r
<1>1. /\ l.act \in {"START", "END"} /\ l.test \in STRING /\ l.at \in Nat
      /\ r.starts \in Tables(Nat) /\ r.durations \in Tables(Int)
      /\ r = [starts |-> r.starts, durations |-> r.durations]
  BY DEF Timing!LogLines, Reads
<1> DEFINE s == r.starts
           d == r.durations
           w == Timing!With(s, l.test, l.at)
<1>2. CASE l.act = "START"
  <2>1. w \in Tables(Nat)
    BY <1>1, WithIs
  <2>2. Timing!Line(r, l) = [r EXCEPT !.starts = w]
    BY <1>2 DEF Timing!Line
  <2> HIDE DEF s, d, w
  <2>3. r = [starts |-> s, durations |-> d] /\ d \in Tables(Int)
    BY <1>1 DEF s, d
  <2>4. [r EXCEPT !.starts = w] = [starts |-> w, durations |-> d]
    BY <2>3
  <2>5. [starts |-> w, durations |-> d] \in Reads
    BY <2>1, <2>3 DEF Reads
  <2> QED
    BY <1>2, <2>2, <2>4, <2>5 DEF s, d, w
<1>3. CASE l.act = "END" /\ l.test \in DOMAIN s
  <2> DEFINE x == Timing!Without(s, l.test)
             y == Timing!With(d, l.test, Timing!Between(s[l.test], l.at))
  <2>1. Timing!Between(s[l.test], l.at) \in Int
    BY <1>1, <1>3, TableIs, BetweenInt
  <2>2. x \in Tables(Nat) /\ y \in Tables(Int)
    BY <1>1, <2>1, WithIs
  <2>3. Timing!Line(r, l) = [starts |-> x, durations |-> y]
    BY <1>3 DEF Timing!Line
  <2> HIDE DEF x, y
  <2>4. [starts |-> x, durations |-> y] \in Reads
    BY <2>2 DEF Reads
  <2> QED
    BY <1>3, <2>3, <2>4 DEF x, y
<1>4. CASE l.act = "END" /\ l.test \notin DOMAIN s
  BY <1>4 DEF Timing!Line
<1> QED
  BY <1>1, <1>2, <1>3, <1>4

(* What has been read of the first k lines: the test has begun and neither *)
(* begun anew nor ended, or it has run, and took the time of its last run. *)
Open(log, t, k) ==
  {i \in 1 .. k : log[i].test = t /\ log[i].act = "START" /\ \A j \in i + 1 .. k : log[j].test # t}

RunsTo(log, t, k) == {x \in Timing!Runs(log, t) : x[2] <= k}

TookIn(log, x) == Timing!Between(log[x[1]].at, log[x[2]].at)

ReadSoFar(log, k, r) ==
  /\ \A t : t \in DOMAIN r.starts <=> Open(log, t, k) # {}
  /\ \A t : \A i \in Open(log, t, k) : r.starts[t] = log[i].at
  /\ \A t : t \in DOMAIN r.durations <=> RunsTo(log, t, k) # {}
  /\ \A t : \A x \in RunsTo(log, t, k) :
       (\A y \in RunsTo(log, t, k) : y[2] <= x[2]) => r.durations[t] = TookIn(log, x)

LEMMA OpenNow ==
  ASSUME NEW log \in Seq(Timing!LogLines), NEW k \in 1 .. Len(log), NEW t
  PROVE  Open(log, t, k) = IF log[k].test # t THEN Open(log, t, k - 1)
                           ELSE IF log[k].act = "START" THEN {k} ELSE {}
<1>1. Len(log) \in Nat /\ k \in 1 .. k /\ 1 .. k = (1 .. k - 1) \cup {k}
  BY LenProperties
<1>2. \A i \in 1 .. k - 1 : i + 1 .. k = (i + 1 .. k - 1) \cup {k} /\ k \in i + 1 .. k
  BY <1>1
<1>3. k + 1 .. k = {}
  BY <1>1
<1>4. CASE log[k].test # t
  <2>1. k \notin Open(log, t, k)
    BY <1>4 DEF Open
  <2>2. ASSUME NEW i \in 1 .. k - 1 PROVE i \in Open(log, t, k) <=> i \in Open(log, t, k - 1)
    BY <1>1, <1>2, <1>4 DEF Open
  <2> QED
    BY <1>1, <1>4, <2>1, <2>2 DEF Open
<1>5. CASE log[k].test = t
  <2>1. \A i \in 1 .. k - 1 : i \notin Open(log, t, k)
    BY <1>2, <1>5 DEF Open
  <2>2. k \in Open(log, t, k) <=> log[k].act = "START"
    BY <1>1, <1>3, <1>5 DEF Open
  <2>3. Open(log, t, k) \subseteq (1 .. k - 1) \cup {k}
    BY <1>1 DEF Open
  <2> QED
    BY <1>5, <2>1, <2>2, <2>3
<1> QED
  BY <1>4, <1>5

LEMMA RunsNow ==
  ASSUME NEW log \in Seq(Timing!LogLines), NEW k \in 1 .. Len(log), NEW t
  PROVE  RunsTo(log, t, k) =
           RunsTo(log, t, k - 1)
             \cup {<<i, k>> : i \in IF log[k].test = t /\ log[k].act = "END" THEN Open(log, t, k - 1) ELSE {}}
<1>1. Len(log) \in Nat /\ DOMAIN log = 1 .. Len(log)
  BY LenProperties
<1>2. ASSUME NEW x \in (1 .. Len(log)) \X (1 .. Len(log))
      PROVE  x[2] <= k <=> x[2] <= k - 1 \/ x[2] = k
  BY <1>1
<1>3. ASSUME NEW i \in 1 .. Len(log)
      PROVE  <<i, k>> \in Timing!Runs(log, t) <=>
               i \in Open(log, t, k - 1) /\ log[k].test = t /\ log[k].act = "END"
  <2>1. i < k <=> i \in 1 .. k - 1
    BY <1>1
  <2> QED
    BY <1>1, <2>1 DEF Timing!Runs, Open
<1>4. Timing!Runs(log, t) \subseteq (1 .. Len(log)) \X (1 .. Len(log))
  BY <1>1 DEF Timing!Runs
<1>5. Open(log, t, k - 1) \subseteq 1 .. Len(log)
  BY <1>1 DEF Open
<1>6. ASSUME NEW x \in RunsTo(log, t, k)
      PROVE  \/ x \in RunsTo(log, t, k - 1)
             \/ x = <<x[1], k>> /\ x[1] \in Open(log, t, k - 1) /\ log[k].test = t /\ log[k].act = "END"
  <2>1. x \in Timing!Runs(log, t) /\ x \in (1 .. Len(log)) \X (1 .. Len(log)) /\ x[2] <= k
    BY <1>4 DEF RunsTo
  <2>2. CASE x[2] <= k - 1
    <3>1. x \in RunsTo(log, t, k - 1)
      BY <2>1, <2>2 DEF RunsTo
    <3> QED
      BY <3>1
  <2>3. CASE x[2] = k
    <3>1. x = <<x[1], k>> /\ x[1] \in 1 .. Len(log)
      BY <2>1, <2>3
    <3> QED
      BY <1>3, <2>1, <3>1
  <2> QED
    BY <1>2, <2>1, <2>2, <2>3
<1>7. ASSUME NEW x \in RunsTo(log, t, k - 1) PROVE x \in RunsTo(log, t, k)
  BY <1>2, <1>4 DEF RunsTo
<1>8. ASSUME NEW i \in Open(log, t, k - 1), log[k].test = t, log[k].act = "END" PROVE <<i, k>> \in RunsTo(log, t, k)
  BY <1>1, <1>3, <1>5, <1>8 DEF RunsTo
<1> QED
  BY <1>6, <1>7, <1>8

LEMMA OnlyOneOpen ==
  ASSUME NEW log \in Seq(Timing!LogLines), NEW k \in 0 .. Len(log), NEW t
  PROVE  \A i, j \in Open(log, t, k) : i = j
<1>1. Len(log) \in Nat
  BY LenProperties
<1>2. ASSUME NEW i \in Open(log, t, k), NEW j \in Open(log, t, k), i < j PROVE FALSE
  <2>1. i \in 1 .. k /\ j \in 1 .. k
    BY DEF Open
  <2>2. j \in i + 1 .. k
    BY <1>1, <1>2, <2>1
  <2> QED
    BY <2>2 DEF Open
<1>3. \A i \in Open(log, t, k) : i \in Int
  BY <1>1 DEF Open
<1> QED
  BY <1>2, <1>3


LEMMA ReadOn ==
  ASSUME NEW log \in Seq(Timing!LogLines), NEW k \in 1 .. Len(log), NEW r \in Reads, ReadSoFar(log, k - 1, r)
  PROVE  ReadSoFar(log, k, Timing!Line(r, log[k]))
<1> DEFINE l == log[k]
           q == Timing!Line(r, l)
<1>1. Len(log) \in Nat /\ DOMAIN log = 1 .. Len(log) /\ l \in Timing!LogLines /\ k - 1 \in 0 .. Len(log)
  BY LenProperties, ElementOfSeq
<1> DEFINE x == l.test
           a == l.at
           s == r.starts
           d0 == r.durations
<1>2. l.act \in {"START", "END"} /\ x \in STRING /\ a \in Nat
  BY <1>1 DEF Timing!LogLines
<1>3. s \in Tables(Nat) /\ d0 \in Tables(Int)
  BY DEF Reads
<1>4. \A t : Open(log, t, k) = IF l.test # t THEN Open(log, t, k - 1)
                                ELSE IF l.act = "START" THEN {k} ELSE {}
  BY OpenNow
<1>5. \A t : RunsTo(log, t, k) = RunsTo(log, t, k - 1)
             \cup {<<i, k>> : i \in IF l.test = t /\ l.act = "END" THEN Open(log, t, k - 1) ELSE {}}
  BY RunsNow
<1>6. CASE l.act = "START"
  <2>1. q = [starts |-> Timing!With(s, x, a), durations |-> d0]
    BY <1>1, <1>6, LineDoes
  <2> DEFINE w == Timing!With(s, x, a)
  <2>2. DOMAIN w = DOMAIN s \cup {x} /\ w[x] = a /\ \A t \in DOMAIN s : t # x => w[t] = s[t]
    <3> HIDE DEF x, a, s
    <3>1. DOMAIN w = DOMAIN s \cup {x} /\ w[x] = a
      BY DEF Timing!With
    <3>2. \A t \in DOMAIN s : t # x => w[t] = s[t]
      BY DEF Timing!With
    <3> QED
      BY <3>1, <3>2
  <2> HIDE DEF w, q, l
  <2>3. q.starts = w /\ q.durations = d0
    BY <2>1 DEF w
  <2>4. \A t : RunsTo(log, t, k) = RunsTo(log, t, k - 1)
    BY <1>5, <1>6
  <2>5. \A t : t \in DOMAIN w <=> Open(log, t, k) # {}
    BY <1>4, <1>6, <2>2 DEF ReadSoFar
  <2>6. ASSUME NEW t, NEW i \in Open(log, t, k) PROVE w[t] = log[i].at
    <3>1. CASE t = x
      BY <1>4, <1>6, <2>2, <2>6, <3>1 DEF l
    <3>2. CASE t # x
      BY <1>4, <2>2, <2>6, <3>2 DEF ReadSoFar
    <3> QED
      BY <3>1, <3>2
  <2> QED
    BY <2>3, <2>4, <2>5, <2>6 DEF ReadSoFar, q, l
<1>7. CASE l.act = "END" /\ x \in DOMAIN s
  <2> DEFINE w == Timing!Without(s, x)
             took == Timing!Between(s[x], a)
             d == Timing!With(d0, x, took)
  <2>1. q = [starts |-> w, durations |-> d]
    BY <1>1, <1>7, LineDoes
  <2>2. s[x] \in Nat /\ took \in Int
    BY <1>2, <1>3, <1>7, TableIs, BetweenInt
  <2>3. DOMAIN w = DOMAIN s \ {x} /\ \A t \in DOMAIN s : t # x => w[t] = s[t]
    BY WithoutHas
  <2>4. /\ DOMAIN d = DOMAIN d0 \cup {x} /\ d[x] = took
        /\ \A t \in DOMAIN d0 : t # x => d[t] = d0[t]
    <3> HIDE DEF x, took, d0
    <3>1. DOMAIN d = DOMAIN d0 \cup {x} /\ d[x] = took
      BY DEF Timing!With
    <3>2. \A t \in DOMAIN d0 : t # x => d[t] = d0[t]
      BY DEF Timing!With
    <3> QED
      BY <3>1, <3>2
  <2> HIDE DEF w, d, q
  <2>5. q.starts = w /\ q.durations = d
    BY <2>1
  <2>6. PICK i \in Open(log, x, k - 1) : s[x] = log[i].at
    BY <1>7 DEF ReadSoFar
  <2>7. \A j \in Open(log, x, k - 1) : j = i
    BY <1>1, <2>6, OnlyOneOpen
  <2>8. RunsTo(log, x, k) = RunsTo(log, x, k - 1) \cup {<<i, k>>}
    BY <1>5, <1>7, <2>6, <2>7
  <2>9. \A t : t # x => RunsTo(log, t, k) = RunsTo(log, t, k - 1)
    BY <1>5
  <2>10. \A t : t \in DOMAIN w <=> Open(log, t, k) # {}
    BY <1>4, <1>7, <2>3 DEF ReadSoFar
  <2>11. \A t : \A j \in Open(log, t, k) : w[t] = log[j].at
    BY <1>4, <1>7, <2>3 DEF ReadSoFar
  <2>12. \A t : t \in DOMAIN d <=> RunsTo(log, t, k) # {}
    BY <2>4, <2>8, <2>9 DEF ReadSoFar
  <2>13. ASSUME NEW t, NEW z \in RunsTo(log, t, k), \A y \in RunsTo(log, t, k) : y[2] <= z[2]
         PROVE  d[t] = TookIn(log, z)
    <3>1. CASE t = x
      <4>1. \A y \in RunsTo(log, t, k - 1) : y[2] \in Int /\ y[2] <= k - 1
        BY <1>1 DEF RunsTo, Timing!Runs
      <4>2. k <= z[2]
        <5>1. <<i, k>> \in RunsTo(log, t, k) /\ <<i, k>>[2] = k
          BY <2>8, <3>1
        <5> QED
          BY <2>13, <5>1
      <4>3. z = <<i, k>>
        BY <1>1, <2>8, <2>13, <3>1, <4>1, <4>2
      <4>4. TookIn(log, z) = took
        BY <2>6, <4>3 DEF TookIn
      <4> QED
        BY <2>4, <3>1, <4>4
    <3>2. CASE t # x
      BY <2>4, <2>9, <2>13, <3>2 DEF ReadSoFar
    <3> QED
      BY <3>1, <3>2
  <2> QED
    BY <2>5, <2>10, <2>11, <2>12, <2>13 DEF ReadSoFar, q
<1>8. CASE l.act = "END" /\ x \notin DOMAIN s
  <2>1. q = r
    BY <1>1, <1>8, LineDoes
  <2>2. Open(log, x, k - 1) = {}
    BY <1>8 DEF ReadSoFar
  <2>3. \A t : Open(log, t, k) = Open(log, t, k - 1) /\ RunsTo(log, t, k) = RunsTo(log, t, k - 1)
    <3> TAKE t
    <3>1. CASE t = x
      <4>1. Open(log, x, k) = {}
        BY <1>4, <1>8
      <4>2. RunsTo(log, x, k) = RunsTo(log, x, k - 1) \cup {<<i, k>> : i \in {}}
        BY <1>5, <1>8, <2>2
      <4> QED
        BY <2>2, <3>1, <4>1, <4>2
    <3>2. CASE t # x
      BY <1>4, <1>5, <3>2
    <3> QED
      BY <3>1, <3>2
  <2> HIDE DEF q
  <2>4. ReadSoFar(log, k, r)
    BY <2>3 DEF ReadSoFar
  <2> QED
    BY <2>1, <2>4 DEF q
<1> QED
  BY <1>2, <1>6, <1>7, <1>8


LEMMA LastRunIs ==
  ASSUME NEW log, Timing!IsLog(log), NEW t, Timing!Runs(log, t) # {}
  PROVE  LET x == Timing!LastRun(log, t)
         IN  /\ x \in Timing!Runs(log, t) /\ \A y \in Timing!Runs(log, t) : y[2] <= x[2]
             /\ TookIn(log, x) \in Nat
<1>1. Len(log) \in Nat /\ DOMAIN log = 1 .. Len(log) /\ \A k \in 1 .. Len(log) : log[k] \in Timing!LogLines
  BY LenProperties, ElementOfSeq DEF Timing!IsLog
<1>2. \A x \in Timing!Runs(log, t) : x[1] \in 1 .. Len(log) /\ x[2] \in 1 .. Len(log) /\ x[1] < x[2]
  BY <1>1 DEF Timing!Runs
<1> DEFINE S == {x[2] : x \in Timing!Runs(log, t)}
           n == Len(log)
<1>3. S \in SUBSET (1 .. n) /\ S # {}
  BY <1>2
<1>4. PICK x \in Timing!Runs(log, t) : \A y \in Timing!Runs(log, t) : y[2] <= x[2]
  <2>1. Largest(S) \in S /\ \A m \in S : Largest(S) >= m
    <3> HIDE DEF S, n
    <3> QED
      BY <1>1, <1>3, LargestOf DEF n
  <2>2. PICK x \in Timing!Runs(log, t) : x[2] = Largest(S)
    BY <2>1
  <2>3. \A y \in Timing!Runs(log, t) : y[2] \in S
    OBVIOUS
  <2> HIDE DEF S
  <2>4. \A y \in Timing!Runs(log, t) : x[2] >= y[2]
    BY <2>1, <2>2, <2>3
  <2> QED
    BY <1>2, <2>4
<1> DEFINE last == Timing!LastRun(log, t)
<1>5. last \in Timing!Runs(log, t) /\ \A y \in Timing!Runs(log, t) : y[2] <= last[2]
  BY <1>4 DEF Timing!LastRun
<1> HIDE DEF last
<1>6. TookIn(log, last) \in Nat
  <2>1. last[1] \in 1 .. n /\ last[2] \in 1 .. n /\ last[1] < last[2]
    BY <1>2, <1>5
  <2>2. log[last[1]].at \in Nat /\ log[last[2]].at \in Nat
    BY <1>1, <2>1 DEF Timing!LogLines
  <2>3. log[last[1]].at <= log[last[2]].at + Timing!Day
    BY <1>1, <2>1 DEF Timing!IsLog
  <2> QED
    BY <2>2, <2>3, BetweenInt DEF TookIn
<1> QED
  BY <1>5, <1>6 DEF last

LEMMA ParseSays ==
  ASSUME NEW log, Timing!IsLog(log)
  PROVE  LET d == Timing!ParseExecLog(log)
         IN  /\ d \in Tables(Int)
             /\ \A t : t \in DOMAIN d <=> Timing!Runs(log, t) # {}
             /\ \A t \in DOMAIN d : d[t] = TookIn(log, Timing!LastRun(log, t)) /\ d[t] \in Nat
<1> DEFINE n == Len(log)
           none == <<>>
           r0 == [starts |-> none, durations |-> none]
<1>0. log \in Seq(Timing!LogLines)
  BY DEF Timing!IsLog
<1>1. n \in Nat /\ DOMAIN log = 1 .. n /\ \A k \in 1 .. n : log[k] \in Timing!LogLines
  BY <1>0, LenProperties, ElementOfSeq
<1>2. DOMAIN none = {} /\ none \in Tables(Nat) /\ none \in Tables(Int)
  <2>1. none \in [{} -> Nat] /\ none \in [{} -> Int] /\ DOMAIN none = {}
    OBVIOUS
  <2> HIDE DEF none
  <2> QED
    BY <2>1 DEF Tables
<1> DEFINE st == [x \in Reads \X (1 .. n) |-> Timing!Line(x[1], log[x[2]])]
           Eqn(f) == f = [s \in SUBSET (1 .. n) |->
                            IF s = {} THEN r0
                            ELSE Timing!Line(f[s \ {Largest(s)}], log[Largest(s)])]
           it == CHOOSE f : Eqn(f)
<1>4. Timing!ParseExecLog(log) = it[1 .. n].durations
  BY <1>1 DEF Timing!ParseExecLog, Timing!FoldLeft, Timing!MapThenFoldSet, Timing!Max, Largest
<1> HIDE DEF none
<1>5. ASSUME NEW r \in Reads, NEW k \in 1 .. n PROVE Timing!Line(r, log[k]) \in Reads
  BY <1>1, LineDoes
<1>6. st \in [Reads \X (1 .. n) -> Reads] /\ r0 \in Reads
  <2>1. r0 \in Reads
    BY <1>2 DEF Reads
  <2> QED
    BY <1>5, <2>1
<1>60. r0.starts = none /\ r0.durations = none
  OBVIOUS
<1> HIDE DEF r0
<1>7. \E f : Eqn(f)
  <2>1. PICK f \in [SUBSET (1 .. n) -> Reads] : Computes(f, n, r0, st)
    <3> HIDE DEF st
    <3> QED
      BY <1>1, <1>6, FoldIsDefined
  <2>2. ASSUME NEW s \in SUBSET (1 .. n), s # {}
        PROVE  f[s] = Timing!Line(f[s \ {Largest(s)}], log[Largest(s)])
    <3>1. Largest(s) \in 1 .. n /\ s \ {Largest(s)} \in SUBSET (1 .. n)
      BY <1>1, <2>2, LargestOf
    <3>2. f[s] = st[<<f[s \ {Largest(s)}], Largest(s)>>]
      BY <2>1, <2>2 DEF Computes
    <3> QED
      BY <2>1, <3>1, <3>2
  <2>3. f[{}] = r0
    BY <2>1 DEF Computes
  <2>4. Eqn(f)
    BY <2>1, <2>2, <2>3
  <2> QED
    BY <2>4
<1>8. Eqn(it)
  BY <1>7
<1> HIDE DEF it
<1>9. it[1 .. 0] = r0 /\ \A k \in 1 .. n : it[1 .. k] = Timing!Line(it[1 .. k - 1], log[k])
  <2>1. it[1 .. 0] = r0
    <3>1. 1 .. 0 = {} /\ 1 .. 0 \in SUBSET (1 .. n)
      OBVIOUS
    <3> QED
      BY <1>8, <3>1
  <2>2. ASSUME NEW k \in 1 .. n PROVE it[1 .. k] = Timing!Line(it[1 .. k - 1], log[k])
    <3>1. 1 .. k \in SUBSET (1 .. n) /\ 1 .. k # {} /\ Largest(1 .. k) = k /\ (1 .. k) \ {Largest(1 .. k)} = 1 .. k - 1
      BY <1>1, LastOfFirst
    <3> QED
      BY <1>8, <3>1
  <2> QED
    BY <2>1, <2>2
<1> DEFINE G == {k \in 0 .. n : it[1 .. k] \in Reads /\ ReadSoFar(log, k, it[1 .. k])}
<1>10. 0 \in G
  <2>1. \A t : Open(log, t, 0) = {} /\ RunsTo(log, t, 0) = {}
    BY <1>1 DEF Open, RunsTo, Timing!Runs
  <2>2. ReadSoFar(log, 0, r0)
    BY <1>2, <1>60, <2>1 DEF ReadSoFar
  <2> QED
    BY <1>1, <1>6, <1>9, <2>2
<1>11. ASSUME NEW k \in 1 .. n, k - 1 \in G PROVE k \in G
  <2>1. it[1 .. k] \in Reads
    BY <1>5, <1>9, <1>11
  <2>2. ReadSoFar(log, k, it[1 .. k])
    BY <1>0, <1>9, <1>11, ReadOn
  <2> QED
    BY <1>1, <2>1, <2>2
<1>12. n \in G
  <2> HIDE DEF G, n
  <2>1. \A k \in 1 .. n : k - 1 \in G => k \in G
    BY <1>11
  <2>2. 0 .. n \subseteq G
    BY <1>1, <1>10, <2>1, Upwards
  <2> QED
    BY <1>1, <2>2
<1> DEFINE d == it[1 .. n].durations
<1>13. d \in Tables(Int)
  BY <1>12 DEF Reads
<1>14. \A t : RunsTo(log, t, n) = Timing!Runs(log, t)
  BY <1>1 DEF RunsTo, Timing!Runs
<1>15. \A t : t \in DOMAIN d <=> Timing!Runs(log, t) # {}
  BY <1>12, <1>14 DEF ReadSoFar
<1>16. ASSUME NEW t \in DOMAIN d PROVE d[t] = TookIn(log, Timing!LastRun(log, t)) /\ d[t] \in Nat
  <2> DEFINE x == Timing!LastRun(log, t)
  <2>1. x \in Timing!Runs(log, t) /\ (\A y \in Timing!Runs(log, t) : y[2] <= x[2]) /\ TookIn(log, x) \in Nat
    BY <1>15, LastRunIs
  <2> HIDE DEF x
  <2>2. d[t] = TookIn(log, x)
    BY <1>12, <1>14, <2>1 DEF ReadSoFar
  <2> QED
    BY <2>1, <2>2 DEF x
<1> QED
  BY <1>4, <1>13, <1>15, <1>16

(* The sum over a finite set of tests.  Which test comes first is not      *)
(* said, only that the sum of a set is that of the others and one.         *)
OneOf(s) == CHOOSE t \in s : TRUE

Adds(sum, d, S) == sum = [s \in SUBSET S |-> IF s = {} THEN 0 ELSE d[OneOf(s)] + sum[s \ {OneOf(s)}]]
SumOf(d, S) == (CHOOSE sum : Adds(sum, d, S))[S]

LEMMA SumIsNat ==
  ASSUME NEW S, IsFiniteSet(S), NEW d, \A t \in S : d[t] \in Nat
  PROVE  SumOf(d, S) \in Nat
<1> DEFINE n == Cardinality(S)
           Upto(m) == {s \in SUBSET S : Cardinality(s) <= m}
           Sums(it, m) == \A s \in Upto(m) : it[s] = IF s = {} THEN 0 ELSE d[OneOf(s)] + it[s \ {OneOf(s)}]
           G == {m \in 0 .. n : \E it \in [Upto(m) -> Nat] : Sums(it, m)}
           sum == CHOOSE f : Adds(f, d, S)
<1>1. SumOf(d, S) = sum[S]
  BY DEF SumOf
<1>2. n \in Nat /\ \A s \in SUBSET S : IsFiniteSet(s) /\ Cardinality(s) \in 0 .. n
  <2>1. n \in Nat
    BY FS_CardinalityType
  <2>2. ASSUME NEW s \in SUBSET S PROVE IsFiniteSet(s) /\ Cardinality(s) \in 0 .. n
    <3>1. IsFiniteSet(s) /\ Cardinality(s) <= n
      BY FS_Subset
    <3>2. Cardinality(s) \in Nat
      BY <3>1, FS_CardinalityType
    <3> QED
      BY <2>1, <3>1, <3>2
  <2> QED
    BY <2>1, <2>2
<1>3. ASSUME NEW s \in SUBSET S, s # {}
      PROVE  /\ OneOf(s) \in s /\ s \ {OneOf(s)} \in SUBSET S
             /\ Cardinality(s \ {OneOf(s)}) = Cardinality(s) - 1 /\ Cardinality(s) # 0
  <2>1. OneOf(s) \in s
    BY <1>3 DEF OneOf
  <2>2. IsFiniteSet(s)
    BY <1>2
  <2> QED
    BY <1>3, <2>1, <2>2, FS_RemoveElement, FS_EmptySet
<1>4. 0 \in G
  <2> DEFINE it == [s \in Upto(0) |-> 0]
  <2>1. \A s \in Upto(0) : s = {}
    BY <1>2, FS_EmptySet
  <2>2. it \in [Upto(0) -> Nat] /\ Sums(it, 0)
    BY <2>1
  <2> HIDE DEF it, Upto, Sums
  <2>3. \E f \in [Upto(0) -> Nat] : Sums(f, 0)
    BY <2>2
  <2> QED
    BY <1>2, <2>3
<1>5. ASSUME NEW m \in 1 .. n, m - 1 \in G PROVE m \in G
  <2>1. PICK it \in [Upto(m - 1) -> Nat] : Sums(it, m - 1)
    BY <1>5
  <2> DEFINE up == [s \in Upto(m) |-> IF s = {} THEN 0 ELSE d[OneOf(s)] + it[s \ {OneOf(s)}]]
  <2>2. ASSUME NEW s \in Upto(m), s # {}
        PROVE  OneOf(s) \in S /\ s \ {OneOf(s)} \in Upto(m - 1)
    BY <1>2, <1>3, <2>2
  <2>3. up \in [Upto(m) -> Nat]
    BY <2>2
  <2>4. ASSUME NEW s \in Upto(m - 1) PROVE s \in Upto(m) /\ up[s] = it[s]
    <3>1. s \in Upto(m)
      BY <1>2
    <3> QED
      BY <2>1, <3>1
  <2>5. Sums(up, m)
    BY <2>2, <2>4
  <2> HIDE DEF up, Upto, Sums
  <2>6. \E f \in [Upto(m) -> Nat] : Sums(f, m)
    BY <2>3, <2>5
  <2> QED
    BY <1>2, <2>6
<1>6. n \in G
  <2> HIDE DEF G, n
  <2>1. \A m \in 1 .. n : m - 1 \in G => m \in G
    BY <1>5
  <2> QED
    BY <1>2, <1>4, <2>1, Upwards
<1>7. PICK it \in [Upto(n) -> Nat] : Sums(it, n)
  BY <1>6
<1>8. Upto(n) = SUBSET S
  BY <1>2
<1>9. Adds(it, d, S)
  BY <1>7, <1>8 DEF Adds
<1>10. Adds(sum, d, S)
  BY <1>9
<1> HIDE DEF sum
<1> DEFINE H == {m \in 0 .. n : \A s \in Upto(m) : sum[s] \in Nat}
<1>11. 0 \in H
  <2>1. \A s \in Upto(0) : s = {}
    BY <1>2, FS_EmptySet
  <2>2. sum[{}] \in Nat
    <3>1. sum[{}] = 0
      BY <1>10 DEF Adds
    <3> QED
      BY <3>1
  <2> HIDE DEF Upto
  <2>3. \A s \in Upto(0) : sum[s] \in Nat
    BY <2>1, <2>2
  <2> QED
    BY <1>2, <2>3
<1>12. ASSUME NEW m \in 1 .. n, m - 1 \in H PROVE m \in H
  <2>1. ASSUME NEW s \in Upto(m), s # {} PROVE sum[s] \in Nat
    <3>1. s \ {OneOf(s)} \in Upto(m - 1) /\ OneOf(s) \in S
      BY <1>2, <1>3, <2>1
    <3>2. sum[s] = d[OneOf(s)] + sum[s \ {OneOf(s)}]
      BY <1>10, <2>1 DEF Adds
    <3> QED
      BY <1>12, <3>1, <3>2
  <2>2. sum[{}] \in Nat
    <3>1. sum[{}] = 0
      BY <1>10 DEF Adds
    <3> QED
      BY <3>1
  <2> HIDE DEF Upto
  <2>3. \A s \in Upto(m) : sum[s] \in Nat
    BY <2>1, <2>2
  <2> QED
    BY <1>2, <2>3
<1>13. n \in H
  <2> HIDE DEF H, n
  <2>1. \A m \in 1 .. n : m - 1 \in H => m \in H
    BY <1>12
  <2> QED
    BY <1>2, <1>11, <2>1, Upwards
<1>14. S \in Upto(n)
  BY <1>2
<1> QED
  BY <1>1, <1>13, <1>14

(* The two logs taken together: what each test took.                       *)
BothLogs(logs) ==
  LET first == Timing!ParseExecLog(logs[1])
      second == Timing!ParseExecLog(logs[2])
  IN  [t \in DOMAIN first \cup DOMAIN second |-> IF t \in DOMAIN second THEN second[t] ELSE first[t]]

LEMMA BothSay ==
  ASSUME NEW logs, Timing!IsLog(logs[1]), Timing!IsLog(logs[2])
  PROVE  LET d == BothLogs(logs)
         IN  /\ \A t : t \in DOMAIN d <=> Timing!Timed(logs, t)
             /\ \A t \in DOMAIN d : d[t] = Timing!Took(logs, t) /\ d[t] \in Nat
<1> DEFINE first == Timing!ParseExecLog(logs[1])
           second == Timing!ParseExecLog(logs[2])
           d == BothLogs(logs)
<1>1. /\ \A t : t \in DOMAIN first <=> Timing!Runs(logs[1], t) # {}
      /\ \A t \in DOMAIN first : first[t] = TookIn(logs[1], Timing!LastRun(logs[1], t)) /\ first[t] \in Nat
  BY ParseSays
<1>2. /\ \A t : t \in DOMAIN second <=> Timing!Runs(logs[2], t) # {}
      /\ \A t \in DOMAIN second : second[t] = TookIn(logs[2], Timing!LastRun(logs[2], t)) /\ second[t] \in Nat
  BY ParseSays
<1>3. d = [t \in DOMAIN first \cup DOMAIN second |-> IF t \in DOMAIN second THEN second[t] ELSE first[t]]
  BY DEF BothLogs
<1> HIDE DEF first, second, d
<1>4. \A t : t \in DOMAIN d <=> Timing!Timed(logs, t)
  BY <1>1, <1>2, <1>3 DEF Timing!Timed
<1>5. ASSUME NEW t \in DOMAIN d PROVE d[t] = Timing!Took(logs, t) /\ d[t] \in Nat
  <2>1. CASE t \in DOMAIN second
    <3>1. Timing!Took(logs, t) = TookIn(logs[2], Timing!LastRun(logs[2], t))
      BY <1>2, <2>1 DEF Timing!Took, TookIn
    <3> QED
      BY <1>2, <1>3, <2>1, <3>1
  <2>2. CASE t \notin DOMAIN second
    <3>1. Timing!Took(logs, t) = TookIn(logs[1], Timing!LastRun(logs[1], t))
      BY <1>2, <2>2 DEF Timing!Took, TookIn
    <3>2. t \in DOMAIN first
      BY <1>3, <2>2
    <3> QED
      BY <1>1, <1>3, <2>2, <3>1, <3>2
  <2> QED
    BY <2>1, <2>2
<1> QED
  BY <1>4, <1>5 DEF d

LEMMA SameCount == ASSUME NEW S PROVE Timing!Cardinality(S) = Cardinality(S)
BY DEF Timing!Cardinality, Timing!IsFiniteSet, Cardinality, IsFiniteSet

(* For any two logs whatever, and any finite table of the features of      *)
(* tests: what get_feature_times computes in one pass over the lines are   *)
(* the means over the tests of a feature of their last runs.  The two sums *)
(* add up the same numbers in the same order.                              *)
THEOREM FeatureTimesAreMeans ==
  ASSUME NEW logs, Timing!IsLog(logs[1]), Timing!IsLog(logs[2]), NEW featureOf, IsFiniteSet(DOMAIN featureOf)
  PROVE  LET found == Timing!GetFeatureTimes(logs, featureOf)
         IN  /\ Timing!AreMeans(found, logs, featureOf)
             /\ DOMAIN found \subseteq {featureOf[t] : t \in DOMAIN featureOf}
             /\ found \in [DOMAIN found -> Nat]
<1> DEFINE d == BothLogs(logs)
           found == Timing!GetFeatureTimes(logs, featureOf)
           told == DOMAIN d \cap DOMAIN featureOf
           timed(f) == {t \in told : featureOf[t] = f}
           meant(f) == {t \in DOMAIN featureOf : featureOf[t] = f /\ Timing!Timed(logs, t)}
           sum(f) == SumOf(d, timed(f))
           due(f) == (CHOOSE i : i = [s \in SUBSET meant(f) |->
                        IF s = {} THEN 0 ELSE Timing!Took(logs, OneOf(s)) + i[s \ {OneOf(s)}]])[meant(f)]
<1>1. /\ \A t : t \in DOMAIN d <=> Timing!Timed(logs, t)
      /\ \A t \in DOMAIN d : d[t] = Timing!Took(logs, t) /\ d[t] \in Nat
  BY BothSay
<1>2. found = [f \in {featureOf[t] : t \in told} |-> sum(f) \div Cardinality(timed(f))]
  <2>1. found = Timing!AggregateByFeature(d, featureOf)
    BY DEF BothLogs, Timing!GetFeatureTimes
  <2> HIDE DEF d, found
  <2>2. Timing!AggregateByFeature(d, featureOf) =
          [f \in {featureOf[t] : t \in told} |-> sum(f) \div Timing!Cardinality(timed(f))]
    BY DEF Timing!AggregateByFeature, Timing!MapThenSumSet, Timing!MapThenFoldSet, SumOf, Adds, OneOf
  <2> HIDE DEF sum, timed
  <2> QED
    BY <2>1, <2>2, SameCount
<1> HIDE DEF d, found
<1>3. \A f : timed(f) = meant(f)
  BY <1>1
<1>4. ASSUME NEW f PROVE sum(f) = due(f)
  <2> DEFINE S == meant(f)
             P(i) == Adds(i, d, S)
             Q(i) == i = [s \in SUBSET S |-> IF s = {} THEN 0 ELSE Timing!Took(logs, OneOf(s)) + i[s \ {OneOf(s)}]]
  <2>1. \A t \in S : d[t] = Timing!Took(logs, t)
    BY <1>1
  <2>2. \A s \in SUBSET S : s # {} => d[OneOf(s)] = Timing!Took(logs, OneOf(s))
    <3> HIDE DEF S
    <3> QED
      BY <2>1 DEF OneOf
  <2>3. sum(f) = (CHOOSE i : P(i))[S]
    BY <1>3 DEF SumOf
  <2> HIDE DEF S, sum, due
  <2>4. \A i : P(i) <=> Q(i)
    BY <2>2 DEF Adds
  <2>5. (CHOOSE i : P(i)) = (CHOOSE i : Q(i))
    <3> HIDE DEF P, Q
    <3> QED
      BY <2>4
  <2>6. due(f) = (CHOOSE i : Q(i))[S]
    BY DEF S, due
  <2> HIDE DEF P, Q
  <2> QED
    BY <2>3, <2>5, <2>6 DEF S
<1>5. ASSUME NEW f \in {featureOf[t] : t \in told}
      PROVE  sum(f) \div Cardinality(timed(f)) = Timing!Mean(logs, f, featureOf)
  <2>1. Timing!Mean(logs, f, featureOf) = due(f) \div Timing!Cardinality(meant(f))
    BY DEF Timing!Mean, Timing!MapThenSumSet, Timing!MapThenFoldSet, OneOf
  <2> HIDE DEF sum, due, timed, meant
  <2> QED
    BY <1>3, <1>4, <2>1, SameCount
<1>6. {featureOf[t] : t \in told} = {featureOf[t] : t \in {u \in DOMAIN featureOf : Timing!Timed(logs, u)}}
  BY <1>1
<1>7. Timing!AreMeans(found, logs, featureOf)
  <2> HIDE DEF sum, timed
  <2> QED
    BY <1>2, <1>5, <1>6 DEF Timing!AreMeans
<1>8. ASSUME NEW f \in {featureOf[t] : t \in told} PROVE sum(f) \div Cardinality(timed(f)) \in Nat
  <2>1. IsFiniteSet(timed(f)) /\ timed(f) # {}
    <3>1. timed(f) \in SUBSET DOMAIN featureOf
      OBVIOUS
    <3>2. timed(f) # {}
      OBVIOUS
    <3> HIDE DEF timed
    <3> QED
      BY <3>1, <3>2, FS_Subset
  <2>2. \A t \in timed(f) : d[t] \in Nat
    BY <1>1
  <2> DEFINE T == timed(f)
  <2> HIDE DEF T
  <2>3. SumOf(d, T) \in Nat
    BY <2>1, <2>2, SumIsNat DEF T
  <2>4. Cardinality(T) \in Nat \ {0}
    BY <2>1, FS_CardinalityType, FS_EmptySet DEF T
  <2>5. sum(f) = SumOf(d, T)
    BY DEF T
  <2> HIDE DEF sum
  <2>6. sum(f) \div Cardinality(T) \in Nat
    BY <2>3, <2>4, <2>5
  <2> QED
    BY <2>6 DEF T
<1>9. DOMAIN found = {featureOf[t] : t \in told} /\ found \in [DOMAIN found -> Nat]
  <2> HIDE DEF sum, timed, told
  <2> QED
    BY <1>2, <1>8
<1> QED
  BY <1>7, <1>9 DEF found

(* The features of the tests are those of mapper.yaml, and it has finitely *)
(* many tests.                                                             *)
LEMMA FeaturesOfTests ==
  IsFiniteSet(DOMAIN FeatureOf) /\ {FeatureOf[t] : t \in DOMAIN FeatureOf} \subseteq Features
<1> DEFINE names == {Entries[i].name : i \in Tests}
           f == [i \in Tests |-> Entries[i].name]
<1>1. Len(Entries) \in Nat /\ DOMAIN Entries = Tests
  BY MapperAssumption, LenProperties DEF MapperAssumption, Tests
<1>2. IsFiniteSet(Tests)
  BY <1>1, FS_Interval DEF Tests
<1>3. f \in Surjection(Tests, names)
  BY DEF Surjection
<1>4. IsFiniteSet(names)
  <2> HIDE DEF f, names
  <2> QED
    BY <1>2, <1>3, FS_Surjection
<1>5. DOMAIN FeatureOf = names
  BY DEF FeatureOf
<1>6. ASSUME NEW t \in names PROVE FeatureOf[t] \in Features
  <2> DEFINE i == CHOOSE j \in Tests : Entries[j].name = t
  <2>1. i \in Tests
    OBVIOUS
  <2>2. FeatureOf[t] = Feature(i)
    BY DEF FeatureOf
  <2> HIDE DEF i
  <2> QED
    BY <2>1, <2>2, EntryTypes
<1> QED
  BY <1>4, <1>5, <1>6

LEMMA Measured ==
  ASSUME NEW logs \in Logs
  PROVE  LET measured == Timing!GetFeatureTimes(logs, FeatureOf)
         IN  measured \in TimingTables /\ Timing!AreMeans(measured, logs, FeatureOf)
<1> DEFINE measured == Timing!GetFeatureTimes(logs, FeatureOf)
<1>1. Timing!IsLog(logs[1]) /\ Timing!IsLog(logs[2])
  BY LogsAssumption DEF LogsAssumption
<1>2. /\ Timing!AreMeans(measured, logs, FeatureOf)
      /\ DOMAIN measured \subseteq {FeatureOf[t] : t \in DOMAIN FeatureOf}
      /\ measured \in [DOMAIN measured -> Nat]
  BY <1>1, FeaturesOfTests, FeatureTimesAreMeans
<1> HIDE DEF measured
<1>3. DOMAIN measured \in SUBSET Features
  BY <1>2, FeaturesOfTests
<1> QED
  BY <1>2, <1>3 DEF TimingTables, measured

(* While the Mapper is in use it has the means of two of the logs.         *)
TimingIs == stage # "idle" => \E logs \in Logs : Timing!AreMeans(timing, logs, FeatureOf)

LEMMA TimingNext == ASSUME TimingIs, [Next]_vars PROVE TimingIs'
<1>1. CASE Map
  <2>1. timing' = timing /\ stage # "idle"
    BY <1>1 DEF Map, MapperStep, Collect, Collected, CoverTest, CoverFeature, Drop, Give, Gives, Given, asked
  <2> QED
    BY <2>1 DEF TimingIs
<1>2. CASE UNCHANGED mapperVars
  BY <1>2 DEF TimingIs, mapperVars, asked
<1>3. CASE Forget
  BY <1>3 DEF TimingIs, Forget
<1>4. ASSUME NEW b \in Jobs, Maps(b) PROVE TimingIs'
  <2>1. PICK logs \in Logs : timing' = Timing!GetFeatureTimes(logs, FeatureOf)
    BY <1>4 DEF Maps, Ask
  <2>2. Timing!AreMeans(timing', logs, FeatureOf)
    BY <2>1, Measured
  <2> QED
    BY <2>2 DEF TimingIs
<1>5. ASSUME NEW b \in Jobs, Job(b) PROVE TimingIs'
  <2>1. UNCHANGED mapperVars \/ Forget \/ Maps(b)
    BY <1>5 DEF Job, Kills, DoStop, Stops, Runs, Crashes, Ends, Same
  <2> QED
    BY <1>2, <1>3, <1>4, <2>1
<1>6. Triggers => UNCHANGED mapperVars
  BY DEF Triggers
<1>7. UNCHANGED vars => UNCHANGED mapperVars
  BY DEF vars
<1> QED
  BY <1>1, <1>2, <1>5, <1>6, <1>7 DEF Next

(* Whatever the logs hold, of runs that were cut off, lasted over midnight *)
(* or were on both machines: the Mapper works with the means of the last   *)
(* runs of the tests of a feature.                                         *)
THEOREM TimesAreOfLastRuns == Spec => []TimesAreMeans
<1>1. Init => TimingIs
  BY DEF Init, MapperInit, TimingIs
<1>2. TimingIs => TimesAreMeans
  BY DEF TimingIs, TimesAreMeans
<1> QED
  BY <1>1, <1>2, TimingNext, PTL DEF Spec


-----------------------------------------------------------------------------
(* The jobs and the Mapper.                                                *)

(* The jobs of merge requests use the Mapper as module MapperProofs        *)
(* assumes: whatever they do besides, and wherever one is stopped, is a    *)
(* step of the Mapper, a new request, its end, or nothing to it.           *)
THEOREM JobsUseTheMapper == Spec => MapperSpec
<1>1. Init => MapperInit
  BY DEF Init
<1>2. TriggerInv /\ JobInv /\ Understood /\ [Next]_vars => [MapperNext]_mapperVars
  <2> SUFFICES ASSUME TriggerInv, JobInv, Understood, [Next]_vars PROVE MapperNext \/ UNCHANGED mapperVars
    OBVIOUS
  <2>1. CASE Map
    BY <2>1 DEF Map, MapperNext
  <2>2. CASE Triggers
    BY <2>2 DEF Triggers
  <2>3. ASSUME NEW b \in Jobs, Job(b) PROVE MapperNext \/ UNCHANGED mapperVars
    <3>1. CASE Kills(b) \/ DoStop(b) \/ Ends(b)
      BY <3>1 DEF Kills, DoStop, Ends, Same
    <3>2. CASE Stops(b) \/ Runs(b) \/ Crashes(b)
      BY <3>2 DEF Stops, Runs, Crashes, MapperNext
    <3>3. CASE Maps(b)
      <4>1. PICK diff \in Diffs, logs \in Logs :
              Ask(proc[builds[b].by].params.features, diff, Timing!GetFeatureTimes(logs, FeatureOf),
                  IF builds[b].release = "9-stream" THEN 1 ELSE 0)
        BY <3>3 DEF Maps
      <4> DEFINE r == proc[builds[b].by].params.features
                 measured == Timing!GetFeatureTimes(logs, FeatureOf)
                 more == IF builds[b].release = "9-stream" THEN 1 ELSE 0
      <4>2. measured \in TimingTables /\ more \in Nat
        BY Measured
      <4>3. Ask(r, diff, measured, more)
        BY <4>1
      <4>4. r \in Requests
        BY BuiltFor DEF JobInv
      <4> HIDE DEF r, measured, more
      <4>5. QED
        BY <4>2, <4>3, <4>4 DEF MapperNext
    <3>4. QED
      BY <2>3, <3>1, <3>2, <3>3 DEF Job
  <2>4. CASE UNCHANGED vars
    BY <2>4 DEF vars
  <2>5. QED
    BY <2>1, <2>2, <2>3, <2>4 DEF Next
<1>3. QED
  BY <1>1, <1>2, TriggerAlways, JobsAlways, UnderstoodAlways, PTL DEF Spec, MapperSpec

(* So the machines of every job are given each test they are asked for     *)
(* once, and the last one only what fits on no other.                      *)
THEOREM JobsTestOnce == Spec => [](EachTestOnce /\ LastIsNeeded)
BY JobsUseTheMapper, EveryTestOnce, LastOnlyNeeded, PTL

LEMMA AskAlways == Spec => []AskInv
<1>1. Init => AskInv
  <2> SUFFICES ASSUME Init PROVE AskInv
    OBVIOUS
  <2>1. Jobs = {}
    <3>1. DOMAIN <<>> = {}
      OBVIOUS
    <3> QED
      BY <3>1 DEF Init, Jobs
  <2>2. Understood
    <3>1. Trigger!Idle.pc = "idle"
      BY DEF Trigger!Idle
    <3> QED
      BY <3>1 DEF Init, Trigger!TriggerInit, Understood, Pc
  <2> QED
    BY <2>1, <2>2 DEF AskInv, OneMaps, AskIs, RunsRight
<1>2. TriggerInv /\ JobInv /\ IInv /\ WantedIsGiven /\ AskInv /\ [Next]_vars => AskInv'
  BY AskTriggers, AskJob, AskMap DEF Next
<1>3. Spec => [](IInv /\ WantedIsGiven)
  BY JobsUseTheMapper, MapperInvariant, WhatIsGiven, PTL
<1> QED
  BY <1>1, <1>2, <1>3, TriggerAlways, JobsAlways, PTL DEF Spec

(* Whatever texts and comments say, in whatever order events are handled   *)
(* and jobs are stopped: the machines of a job run the tests that the last *)
(* directive about features or tests means.                                *)
THEOREM WhatIsAskedIsRun == Spec => []RunsWhatIsAsked
<1>1. TriggerInv /\ JobInv /\ AskInv => RunsWhatIsAsked
  <2> SUFFICES ASSUME TriggerInv, JobInv, AskInv, NEW b \in Jobs, jobs[b].state = "runs",
                      Directives(EventOf(b)) # {},
                      Named(EventOf(b)).tag = "runtest" => Elements(Named(EventOf(b)).value) \cap WithBest = {},
                      Named(EventOf(b)).tag = "runfeature" => ~ SaysBest(Named(EventOf(b)).value)
               PROVE  LET meant == {i \in Tests : Feature(i) \notin Excluded /\ Meant(i, Named(EventOf(b)))}
                      IN  Running(b) = IF meant = {} THEN {0} ELSE meant
    BY DEF RunsWhatIsAsked
  <2> DEFINE l == Named(EventOf(b))
             meant == {i \in Tests : Feature(i) \notin Excluded /\ Meant(i, l)}
  <2>1. FeatOf(b) = Asked(l) /\ l.tag \in Naming /\ FeatOf(b) \in Requests
    BY BuiltFor, ParamsSay DEF JobInv, AskInv, FeatOf
  <2> HIDE DEF l
  <2>2. ~ SaysBest(FeatOf(b))
    BY <2>1 DEF Asked, SaysBest, Naming, l
  <2>3. ASSUME NEW i \in Tests PROVE MeantBy(FeatOf(b), i) <=> Meant(i, l)
    <3>1. CASE l.tag = "runtest"
      BY <2>1, <3>1 DEF Asked, MeantBy, Meant, Everything
    <3>2. CASE l.tag = "runfeature"
      <4>1. FeatOf(b) = l.value /\ l.value.form \in {"covering", "tests", "features"}
        BY <2>1, <2>2, <3>2 DEF Asked, Requests, SaysBest
      <4> QED
        BY <3>2, <4>1 DEF MeantBy, Meant, Everything, HasOneOf
    <3> QED
      BY <2>1, <3>1, <3>2 DEF Naming
  <2>4. meant = WantedBy(FeatOf(b))
    BY <2>3 DEF WantedBy
  <2>5. Running(b) = UNION Elements(jobs[b].tests)
    BY DEF Running
  <2> QED
    BY <2>2, <2>4, <2>5 DEF AskInv, RunsRight, RightOnes, l
<1> QED
  BY <1>1, TriggerAlways, JobsAlways, AskAlways, PTL
=============================================================================
