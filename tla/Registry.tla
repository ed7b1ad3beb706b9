------------------------------ MODULE Registry ------------------------------
(***************************************************************************)
(* What src/nmci/cleanup.py promises those who register a restoration,     *)
(* without the list, its order and the merging: what is pending stays so   *)
(* until it is taken to be undone, one at a time; nothing is taken that    *)
(* is not pending; the undoing is over only when nothing is pending, and   *)
(* the next scenario opens only then, also when the undoing broke off.     *)
(* Module Cleanup implements it.                                           *)
(***************************************************************************)
CONSTANT Tag    \* what tells restorations apart

VARIABLES
  pending,      \* the restorations asked for and not undone yet
  hand,         \* the one that is being undone, if there is one
  mode          \* "open", "undoing", "closed" or "broken"

vars == <<pending, hand, mode>>

Init ==
  /\ pending = {}
  /\ hand = {}
  /\ mode = "open"

(* A scenario asks for restorations, and so may one that is being undone.  *)
Ask ==
  /\ mode = "open" \/ hand # {}
  /\ \E asked \in SUBSET Tag : pending' = pending \cup asked
  /\ UNCHANGED <<hand, mode>>

Begin ==
  /\ mode = "open"
  /\ mode' = "undoing"
  /\ UNCHANGED <<pending, hand>>

Take ==
  /\ mode = "undoing" /\ hand = {}
  /\ \E t \in pending : hand' = {t} /\ pending' = pending \ {t}
  /\ UNCHANGED mode

(* Undone, well or badly. *)
Finish ==
  /\ mode = "undoing" /\ hand # {}
  /\ hand' = {}
  /\ UNCHANGED <<pending, mode>>

Close ==
  /\ mode = "undoing" /\ pending = {} /\ hand = {}
  /\ mode' = "closed"
  /\ UNCHANGED <<pending, hand>>

(* A signal: what is in hand may be lost, what is pending is not. *)
Break ==
  /\ mode \in {"open", "undoing"}
  /\ mode' = "broken"
  /\ hand' = {}
  /\ UNCHANGED pending

Reopen ==
  /\ mode \in {"closed", "broken"} /\ pending = {}
  /\ mode' = "open"
  /\ UNCHANGED <<pending, hand>>

Next == Ask \/ Begin \/ Take \/ Finish \/ Close \/ Break \/ Reopen

Spec == Init /\ [][Next]_vars
=============================================================================
