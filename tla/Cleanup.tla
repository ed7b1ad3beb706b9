------------------------------ MODULE Cleanup ------------------------------
(***************************************************************************)
(* The cleanup registry of src/nmci/cleanup.py over the scenarios of one   *)
(* behave run: steps register cleanup actions while they change the host,  *)
(* after_scenario consumes the list, an action may fail or register        *)
(* further actions, and the SIGTERM handler of features/environment.py     *)
(* may raise at any point of the processing.                               *)
(*                                                                         *)
(* An element of Action stands for the arguments of one constructor call;  *)
(* `once` holds the actions built with UNIQ_TAG_DISTINCT, each of which is *)
(* a single instance.                                                      *)
(***************************************************************************)
EXTENDS CleanupList, FiniteSets

CONSTANTS
  Action,     \* the cleanup actions that steps and tags construct
  Tag,        \* their unique tags
  tag,        \* [Action -> Tag]
  prio,       \* [Action -> Int]
  need,       \* [Action -> Action \cup {None}]: what also_needs() constructs
  nested,     \* [Action -> SUBSET Action]: what do_cleanup may register
  once,       \* the actions whose tag is the identity of the instance
  None,
  MaxAdds,    \* bound: constructor calls in one run
  MaxKills    \* bound: signals delivered in one run

ASSUME CleanupAssumption ==
  /\ None \notin Action
  /\ tag \in [Action -> Tag]
  /\ prio \in [Action -> Int]
  /\ need \in [Action -> Action \cup {None}]
  /\ \A a \in Action : need[a] # None => need[need[a]] = None
  /\ nested \in [Action -> SUBSET Action]
  /\ once \subseteq Action
  /\ MaxAdds \in Nat
  /\ MaxKills \in Nat

VARIABLES
  lst,        \* _cleanup_lst
  phase,      \* where behave is: a scenario, its cleanup, or between two
  running,    \* the entry the loop popped and has not finished, or None
  failed,     \* the actions whose exception process_cleanup collected
  clock,      \* number of constructor calls so far; stamps the entries
  kills,      \* signals delivered so far
  owed,       \* history: tags registered and not executed since
  lost        \* history: tags of entries a signal took out of the list

vars == <<lst, phase, running, failed, clock, kills, owed, lost>>

(* "popped" and "running" are the two halves of a turn of the loop: before *)
(* and inside the try block.                                               *)
Phase == {"scenario", "cleanup", "popped", "running", "returned", "aborted", "refused"}

(* The tag of the entry the loop works on. *)
InHand == IF phase \in {"popped", "running"} THEN {running.tag} ELSE {}

(* Mistaken variant: the default priority is not filled in. *)
EntryWithoutPriority(a, n) == [act |-> a, tag |-> tag[a], prio |-> None, at |-> n]

Entry(a, n) == [act |-> a, tag |-> tag[a], prio |-> prio[a], at |-> n]

EntryType == [act : Action, tag : Tag, prio : Int, at : Nat]

(* _cleanup_add(Entry(a, n)), with the dependent it may ask for. *)
Add(l, a, n) ==
  IF need[a] = None
  THEN AddAlone(l, Entry(a, n))
  ELSE AddWithNeed(l, Entry(a, n), Entry(need[a], n))

(* Ascending priority, the later constructed first among equals. *)
RunsInOrder(l) ==
  \A i, j \in DOMAIN l :
    i < j => \/ l[i].prio < l[j].prio
             \/ l[i].prio = l[j].prio /\ l[i].at >= l[j].at

-----------------------------------------------------------------------------

Init ==
  /\ lst = <<>>
  /\ phase = "scenario"
  /\ running = None
  /\ failed = {}
  /\ clock = 0
  /\ kills = 0
  /\ owed = {}
  /\ lost = {}

(* The constructor of a cleanup action registers it: its restoration is    *)
(* owed, whatever becomes of it in the list.                               *)
Construct(a) ==
  /\ clock < MaxAdds
  /\ a \in once => \A i \in DOMAIN lst : lst[i].act # a
  /\ clock' = clock + 1
  /\ lst' = Add(lst, a, clock + 1)
  /\ owed' = owed \cup {tag[a]} \cup Listed(lst')

(* A step or a tag's before hook registers a cleanup action. *)
Register(a) ==
  /\ phase = "scenario"
  /\ Construct(a)
  /\ UNCHANGED <<phase, running, failed, kills, lost>>

(* after_scenario starts to process the list. *)
ProcessCleanup ==
  /\ phase = "scenario"
  /\ phase' = "cleanup"
  /\ failed' = {}
  /\ UNCHANGED <<lst, running, clock, kills, owed, lost>>

(* consume_list pops the first element. *)
Pop ==
  /\ phase = "cleanup"
  /\ lst # <<>>
  /\ phase' = "popped"
  /\ running' = Head(lst)
  /\ lst' = Tail(lst)
  /\ UNCHANGED <<failed, clock, kills, owed, lost>>

(* do_cleanup is called. *)
Try ==
  /\ phase = "popped"
  /\ phase' = "running"
  /\ UNCHANGED <<lst, running, failed, clock, kills, owed, lost>>

(* The action being run registers another one (stop_NM_service does). *)
RegisterNested(a) ==
  /\ phase = "running"
  /\ a \in nested[running.act]
  /\ Construct(a)
  /\ UNCHANGED <<phase, running, failed, kills, lost>>

(* Mistaken variant: an action that fails is put back to be tried again. *)
DoneOrRetry(broken) ==
  /\ phase = "running"
  /\ phase' = "cleanup"
  /\ failed' = IF broken THEN failed \cup {running.act} ELSE failed
  /\ lst' = IF broken THEN <<running>> \o lst ELSE lst
  /\ owed' = (owed \ {running.tag}) \cup Listed(lst')
  /\ running' = None
  /\ UNCHANGED <<clock, kills, lost>>

(* do_cleanup ends; an exception, its own or a signal's, is collected. *)
Done(broken) ==
  /\ phase = "running"
  /\ phase' = "cleanup"
  /\ failed' = IF broken THEN failed \cup {running.act} ELSE failed
  /\ owed' = (owed \ {running.tag}) \cup Listed(lst)
  /\ running' = None
  /\ UNCHANGED <<lst, clock, kills, lost>>

(* Mistaken variant: the first failure ends the loop. *)
ReturnAtFailure ==
  /\ phase = "cleanup"
  /\ lst = <<>> \/ failed # {}
  /\ phase' = "returned"
  /\ UNCHANGED <<lst, running, failed, clock, kills, owed, lost>>

(* process_cleanup returns the collected exceptions. *)
Return ==
  /\ phase = "cleanup"
  /\ lst = <<>>
  /\ phase' = "returned"
  /\ UNCHANGED <<lst, running, failed, clock, kills, owed, lost>>

(* The signal handler raises in after_scenario, before process_cleanup is  *)
(* called or between two actions, outside the try block: after_scenario is *)
(* left.  When the generator had already popped an entry, it is gone.      *)
Kill ==
  /\ phase \in {"scenario", "cleanup", "popped"}
  /\ kills < MaxKills
  /\ kills' = kills + 1
  /\ phase' = "aborted"
  /\ running' = None
  /\ lost' = lost \cup InHand
  /\ UNCHANGED <<lst, failed, clock, owed>>

(* before_scenario of the next scenario asserts that the list is empty.    *)
(* Where it is not, the hook raises before it has set the attributes of    *)
(* the context, and so does after_scenario, which reads them before it     *)
(* calls process_cleanup: the scenario fails and the list stays.           *)
BeforeScenario ==
  /\ phase \in {"returned", "aborted", "refused"}
  /\ phase' = IF lst = <<>> THEN "scenario" ELSE "refused"
  /\ UNCHANGED <<lst, running, failed, clock, kills, owed, lost>>

Next ==
  \/ \E a \in Action : Register(a)
  \/ ProcessCleanup
  \/ Pop
  \/ Try
  \/ \E a \in Action : RegisterNested(a)
  \/ \E broken \in BOOLEAN : Done(broken)
  \/ Return
  \/ Kill
  \/ BeforeScenario

Spec == Init /\ [][Next]_vars

(* behave runs one hook after the other and process_cleanup to its end,    *)
(* and every do_cleanup ends; signals and registrations are not owed.      *)
FairSpec ==
  /\ Spec
  /\ WF_vars(ProcessCleanup)
  /\ WF_vars(BeforeScenario)
  /\ WF_vars(Pop)
  /\ WF_vars(Try)
  /\ WF_vars(\E broken \in BOOLEAN : Done(broken))
  /\ WF_vars(Return)

-----------------------------------------------------------------------------

(* The type invariant. *)
TypeOK ==
  /\ lst \in Seq(EntryType)
  /\ phase \in Phase
  /\ running \in EntryType \cup {None}
  /\ failed \subseteq Action
  /\ clock \in 0 .. MaxAdds
  /\ kills \in 0 .. MaxKills
  /\ owed \subseteq Tag
  /\ lost \subseteq Tag

(* No two entries of the list compare equal: whatever the order of          *)
(* registrations, dependents and nested registrations, a restoration is    *)
(* scheduled once.                                                         *)
OnePerTag == TagsDiffer(lst)

(* The list runs in ascending priority, and among equal priorities what    *)
(* was registered later runs first (a dependent is registered after the    *)
(* action that needs it, hence <=).                                        *)
Ordered == RunsInOrder(lst)

(* Every restoration that was asked for and has not run is in the list or  *)
(* is running, unless a signal lost it: neither merging of duplicates nor  *)
(* a failing or registering action drops one.                              *)
NothingForgotten ==
  owed \subseteq Listed(lst) \cup InHand \cup lost

(* What NeedsBehind rests on.  The tag of an action determines what it      *)
(* needs, and whatever shares the tag of a needed action runs later than   *)
(* those that need it.  CleanupUdevRule and the restart that               *)
(* CleanupNMService builds by default satisfy it.                          *)
TagsTellNeeds ==
  \A a, b \in Action :
    tag[a] = tag[b] =>
      /\ need[a] = None <=> need[b] = None
      /\ need[a] # None => tag[need[a]] = tag[need[b]]

NeedsRunLater ==
  \A a, b \in Action :
    need[a] # None /\ tag[b] = tag[need[a]] => prio[a] < prio[b]

(* An action in the list finds what it needs behind it: the restart of     *)
(* NetworkManager runs after the removal of the config file, the udev      *)
(* update after the removal of the rule.                                   *)
NeedsBehind ==
  \A i \in DOMAIN lst :
    need[lst[i].act] # None =>
      \E j \in DOMAIN lst : i < j /\ lst[j].tag = tag[need[lst[i].act]]

(* Where the registry is, as its users see it. *)
Mode ==
  CASE phase = "scenario" -> "open"
    [] phase \in {"cleanup", "popped", "running"} -> "undoing"
    [] phase = "returned" -> "closed"
    [] phase \in {"aborted", "refused"} -> "broken"

Promise == INSTANCE Registry WITH
  pending <- Listed(lst), hand <- InHand, mode <- Mode

(* The list keeps the promise of Registry: merging, ordering, dependents,  *)
(* nested registrations, failures and signals never let a restoration      *)
(* appear twice, vanish, or be left when the cleanup is called complete.   *)
KeepsPromise == Promise!Spec

(* As long as no signal arrives, everything registered is undone: actions  *)
(* that fail and actions that register others do not keep behave from      *)
(* reaching the end of the list.                                           *)
CleanupHappens == lst # <<>> ~> lst = <<>> \/ kills > 0
=============================================================================
