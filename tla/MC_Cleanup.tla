----------------------------- MODULE MC_Cleanup -----------------------------
(***************************************************************************)
(* Instance of Cleanup for TLC: the actions of the harness that exercise   *)
(* every rule of the registry, with the priorities of the source: a config *)
(* file that needs a restart, a udev rule that needs an update, a callback *)
(* that reboots NetworkManager and so registers its start, and an          *)
(* interface reset.                                                        *)
(***************************************************************************)
EXTENDS Cleanup

CONSTANTS start, conf, restart, rule, update, reboot, iface

MCAction == {start, conf, restart, rule, update, reboot, iface}

MCPrio ==
  [a \in MCAction |->
    CASE a = start   -> -30
      [] a = iface   -> 31
      [] a = rule    -> 50
      [] a = conf    -> 70
      [] a = restart -> 200
      [] a = reboot  -> 200
      [] a = update  -> 300]

MCTag == [a \in MCAction |-> a]

MCNeed ==
  [a \in MCAction |->
    CASE a = conf -> restart [] a = rule -> update [] OTHER -> None]

MCNested == [a \in MCAction |-> IF a = reboot THEN {start} ELSE {}]
=============================================================================
