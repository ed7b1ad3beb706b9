---------------------------- MODULE CleanupList ----------------------------
(***************************************************************************)
(* The list `_cleanup_lst` of src/nmci/cleanup.py and the one operation    *)
(* that changes it from outside, `_cleanup_add`.                           *)
(*                                                                         *)
(* An entry stands for one Cleanup instance.  It is a record with at least *)
(* the fields tag (the instance's unique_tag) and prio (its priority);     *)
(* modules that use this one add what their actions need.                  *)
(*                                                                         *)
(* The operators are pure: they are shared by the registry (Cleanup) and   *)
(* by the cleanups of a machine (Host).                                    *)
(***************************************************************************)
EXTENDS Integers, Sequences, SequencesExt

(* The tags of the entries of a list. *)
Listed(lst) == {lst[i].tag : i \in DOMAIN lst}

(* No two entries compare equal. *)
TagsDiffer(lst) == \A i, j \in DOMAIN lst : lst[i].tag = lst[j].tag => i = j

(* The positions of entries that compare equal to e. *)
Duplicates(lst, e) == {i \in DOMAIN lst : lst[i].tag = e.tag}

(* Mistaken variant of Place, as KeepDuplicate and ForgetNeed below are of *)
(* AddAlone and AddWithNeed: they show that the properties can fail.       *)
PlaceOver(lst, e) ==
  LET spots == {i \in 1 .. Len(lst) + 1 : i <= Len(lst) => lst[i].prio >= e.prio}
  IN  IF Min(spots) <= Len(lst)
      THEN ReplaceAt(lst, Min(spots), e)
      ELSE Append(lst, e)

(* lst after the loop that finds and deletes the first duplicate of e. *)
WithoutDuplicate(lst, e) ==
  IF Duplicates(lst, e) = {} THEN lst ELSE RemoveAt(lst, Min(Duplicates(lst, e)))

(* The first position whose priority is not smaller than e's, or the end. *)
Slot(lst, e) ==
  Min({i \in 1 .. Len(lst) + 1 : i <= Len(lst) => lst[i].prio >= e.prio})

(* _cleanup_add without its last step: the entry replaces its duplicate    *)
(* and goes in front of every entry of the same priority.                  *)
Place(lst, e) ==
  LET rest == WithoutDuplicate(lst, e) IN InsertAt(rest, Slot(rest, e), e)

(* Mistaken variant: no duplicate is looked for. *)
KeepDuplicate(lst, e) == InsertAt(lst, Slot(lst, e), e)

(* _cleanup_add of an action without dependents (also_needs() = ()). *)
AddAlone(lst, e) == Place(lst, e)

(* Mistaken variant: the dependent is not asked for. *)
ForgetNeed(lst, e, d) == Place(lst, e)

(* _cleanup_add of an action whose also_needs() constructs d.  d registers *)
(* itself when it is constructed and is then added a second time; it is    *)
(* not asked for at all when e replaced a duplicate.                       *)
AddWithNeed(lst, e, d) ==
  IF Duplicates(lst, e) = {}
  THEN Place(Place(Place(lst, e), d), d)
  ELSE Place(lst, e)
=============================================================================
