--------------------------- MODULE GitlabTrigger ---------------------------
(***************************************************************************)
(* src/run/centos-ci/cico_gitlab_trigger.py: GitLab delivers an event of a *)
(* merge request, a process is started for it, decides whether it asks for *)
(* tests and of what, and starts a Jenkins build for each release.         *)
(*                                                                         *)
(* The processes share the file /tmp/gl_commits, which nobody locks: one   *)
(* that finds none creates it with an echo that empties the file if it has *)
(* come into being meanwhile.                                              *)
(* External: GitLab; the head of its main branch may become the commit of  *)
(* the merge request at any moment.                                        *)
(***************************************************************************)
EXTENDS Naturals, Sequences, Folds, SequencesExt

CONSTANTS
  Procs,   \* one for each event that is delivered
  Events,  \* [kind, action, member, wip, code, skipped, labels, text, comment,
           \*  command, commit, author, branch, mr]
  Merges   \* the events whose merge request may be merged

VARIABLES
  proc,    \* [pc, event, todo, params, beside] of each process; beside: those
           \* that were about to build when this one decided to
  exists,  \* whether there is a /tmp/gl_commits
  known,   \* what is in it
  lost,    \* what was in it before somebody else created it
  builds,  \* the builds that were started, oldest first
  head     \* the head of main, as far as it is a commit of interest

(* GitlabTrigger.commit asks for the head of main each time it is read.    *)
(* "None" is also what echo makes of having no commit.                     *)
Commit(e) == IF head = e.commit THEN "None" ELSE e.commit

-----------------------------------------------------------------------------
(* get_rebuild_detail.  A line is [tag, value].                            *)
Streams == [c8s |-> "8-stream", c9s |-> "9-stream", c10s |-> "10-stream"]

Release(alias) == IF alias \in DOMAIN Streams THEN Streams[alias] ELSE "unknown"

Override(params, line) ==
  CASE line.tag = "os"         -> [params EXCEPT !.os = @ \cup {Release(line.value)}]
    [] line.tag = "runfeature" -> [params EXCEPT !.features = line.value]
    [] line.tag = "runtest"    -> [params EXCEPT !.features = [form |-> "tests", names |-> line.value]]
    [] line.tag = "build"      -> [params EXCEPT !.build = line.value]
    [] OTHER                   -> params

(* The first merge request of the other project that is named, if open.    *)
Sibling(lines, params) ==
  LET named == SelectSeq(lines, LAMBDA l : l.tag = "mr")
  IN  IF named = <<>> \/ named[1].value = "closed" THEN params
      ELSE [params EXCEPT !.build = named[1].value]

Detail(lines, params) == FoldLeft(Override, Sibling(lines, params), lines)

Defaults == [os |-> {}, features |-> [form |-> "best", names |-> <<>>], build |-> "main"]

(* Mistaken variant: the directives of the comment come first.             *)
CommentFirst(e) ==
  LET params == Detail(e.text, IF e.kind = "note" THEN Detail(e.comment, Defaults) ELSE Defaults)
  IN  IF e.kind = "note" /\ e.command # "" THEN [params EXCEPT !.os = {e.command}] ELSE params

(* The description and the message of the commit, then the comment; what   *)
(* follows "rebuild" sets the release.                                     *)
Params(e) ==
  LET ofText == Detail(e.text, Defaults)
      params == IF e.kind = "note" THEN Detail(e.comment, ofText) ELSE ofText
  IN  IF e.kind = "note" /\ e.command # "" THEN [params EXCEPT !.os = {e.command}] ELSE params

(* process_request: what is done about an event.  The command of a comment *)
(* is "" for a bare "rebuild", a release, or "else".                       *)
Verdict(e) ==
  IF Commit(e) = "None" THEN "nothing"
  ELSE IF e.kind = "note"
  THEN IF e.member /\ e.command # "else" THEN "build" ELSE "nothing"
  ELSE IF e.action \in {"merge", "close", "unapproved"} THEN "nothing"
  ELSE IF e.action \in {"update", "approved"}
  THEN IF (~e.code /\ e.wip) \/ e.skipped \/ ~e.member \/ e.labels THEN "nothing" ELSE "check"
  ELSE IF e.wip THEN "nothing" ELSE "build"

(* execute_build: without a release the default one.                       *)
Releases(params) == IF params.os = {} THEN {"10-stream"} ELSE params.os

Looks(p) == Events[proc[p].event].kind = "merge_request" /\ Events[proc[p].event].action \in {"update", "approved"}

-----------------------------------------------------------------------------
Idle == [pc |-> "idle", event |-> 0, todo |-> {}, params |-> Defaults, beside |-> {}]

Building == {p \in Procs : proc[p].pc = "build"}

TriggerInit ==
  /\ proc = [p \in Procs |-> Idle]
  /\ exists \in BOOLEAN /\ known = {} /\ lost = {}
  /\ builds = <<>> /\ head = ""

file == <<exists, known, lost>>

Receive(p, k) ==
  /\ proc[p].pc = "idle"
  /\ LET e == Events[k]
     IN  proc' = [proc EXCEPT ![p] =
           [pc |-> Verdict(e), event |-> k, todo |-> Releases(Params(e)), params |-> Params(e),
            beside |-> Building]]
  /\ UNCHANGED <<file, builds, head>>

Check(p) ==
  /\ proc[p].pc = "check"
  /\ proc' = [proc EXCEPT ![p].pc = IF exists THEN "look" ELSE "create"]
  /\ UNCHANGED <<file, builds, head>>

(* The shell opens the file for the echo, which truncates it.              *)
Create(p) ==
  /\ proc[p].pc = "create"
  /\ proc' = [proc EXCEPT ![p].pc = "echo"]
  /\ exists' = TRUE /\ known' = {} /\ lost' = lost \cup known
  /\ UNCHANGED <<builds, head>>

(* The empty line is written at its start, over a commit that has been     *)
(* appended meanwhile.                                                     *)
Echo(p) ==
  /\ proc[p].pc = "echo"
  /\ proc' = [proc EXCEPT ![p].pc = "look"]
  /\ \E c \in (IF known = {} THEN {""} ELSE known) :
       known' = known \ {c} /\ lost' = lost \cup (known \cap {c})
  /\ UNCHANGED <<exists, builds, head>>

(* Mistaken variant: whether the commit is on record is not looked at.     *)
LookNot(p) ==
  /\ proc[p].pc = "look"
  /\ proc' = [proc EXCEPT ![p].pc = "build", ![p].beside = Building]
  /\ UNCHANGED <<file, builds, head>>

(* An update is not built when its commit is on record; no commit, which   *)
(* is what the head of main has by now, never is.                          *)
Look(p) ==
  /\ proc[p].pc = "look"
  /\ LET commit == Commit(Events[proc[p].event])
     IN  proc' = [proc EXCEPT ![p].pc = IF commit \in known \ {"None"} THEN "nothing" ELSE "build",
                              ![p].beside = Building]
  /\ UNCHANGED <<file, builds, head>>

StartBuild(p) ==
  /\ proc[p].pc = "build"
  /\ \E v \in proc[p].todo :
       /\ proc' = [proc EXCEPT ![p].todo = @ \ {v}]
       /\ builds' = IF v = "unknown" THEN builds
                    ELSE Append(builds, [by |-> p, release |-> v, commit |-> Commit(Events[proc[p].event])])
  /\ UNCHANGED <<file, head>>

Record(p) ==
  /\ proc[p].pc = "build" /\ proc[p].todo = {}
  /\ proc' = [proc EXCEPT ![p].pc = "recorded"]
  /\ exists' = TRUE /\ known' = known \cup {Commit(Events[proc[p].event])}
  /\ UNCHANGED <<lost, builds, head>>

(* The merge request is merged, fast forward.                              *)
MainMoves(k) ==
  /\ head = "" /\ head' = Events[k].commit
  /\ UNCHANGED <<proc, file, builds>>

TriggerStep ==
  \/ \E p \in Procs :
       \/ Check(p) \/ Create(p) \/ Echo(p) \/ Look(p) \/ StartBuild(p) \/ Record(p)
       \/ \E k \in DOMAIN Events : Receive(p, k)
  \/ \E k \in Merges : MainMoves(k)

-----------------------------------------------------------------------------
(* Properties *)

(* An update starts a second build of a commit for a release only beside   *)
(* the process that started the first one: once that has put the commit on *)
(* record, "Commit ... have already executed" (:538).  Two cases in which  *)
(* the code breaks that are excepted: the commit was on record and is lost *)
(* because a process that had found no file emptied it (:528); and it is   *)
(* none, because main has moved to it since the event was let through.     *)
AgainOnlyBeside ==
  \A i, j \in DOMAIN builds :
    LET p == builds[i].by
        q == builds[j].by
    IN  /\ i < j /\ p # q /\ Looks(q)
        /\ builds[i].commit = builds[j].commit /\ builds[i].commit \notin lost \cup {"None"}
        => p \in proc[q].beside \/ q \in proc[p].beside
=============================================================================
