--------------------------- MODULE ScenarioOnHost ---------------------------
(***************************************************************************)
(* A scenario on its machine: src/features/environment.py runs the before  *)
(* hooks of the scenario's tags, behave runs its steps, the registered     *)
(* cleanups run in their order.  What each of them does to the machine is  *)
(* in TagRegistry, StepsPrepare and StepsMachine; here is when they run,   *)
(* what becomes of the rest when one raises, and the question whether the  *)
(* next scenario finds the machine this one found.                         *)
(*                                                                         *)
(* A command may run into its time limit anywhere, MaxBreaks times in a    *)
(* scenario, and a step may not see what it expects.                       *)
(***************************************************************************)
EXTENDS TagRegistry, StepsMachine

CONSTANTS
  Cases,      \* records: a scenario's tags and steps, the machine's base and facts
  MaxBreaks   \* bound: commands that run into their time limit

ASSUME HostAssumption == MaxBreaks \in Nat

VARIABLES
  case,     \* the scenario, and what is known of the machine
  h,        \* the machine (module Host)
  phase,    \* where the scenario is
  todo,     \* its tags whose before hooks have not run yet
  steps,    \* its steps that have not run yet
  skipped,  \* context.cext.scenario_skipped
  failed,   \* which parts of the scenario failed
  broken    \* for each command that ran into its time limit: what the rest of its hook,
            \* step or cleanup would have changed

vars == <<case, h, phase, todo, steps, skipped, failed, broken>>

Phases == {"begin", "tags", "body", "cleanup", "done"}
Parts  == {"before", "body", "cleanup"}

Fresh(c) ==
  LET named(kind) == {r[2] : r \in {x \in c.base : x[1] = kind}}
  IN  [base |-> c.base, dev |-> <<>>, nm |-> named("conf"), rules |-> named("rule"),
       notes |-> <<>>, lst |-> <<>>, serial |-> 0, facts |-> c.facts, tags |-> Range(c.tags),
       end |-> ""]

Init ==
  /\ case \in Cases
  /\ h = Fresh(case)
  /\ phase = "begin"
  /\ todo = case.tags
  /\ steps = case.steps
  /\ skipped = FALSE
  /\ failed = {}
  /\ broken = <<>>

(* The ways ops can go on machine m: all of them happen, or one breaks.    *)
RunsOn(m, ops) ==
  \/ h' = Perform(m, ops) /\ broken' = broken
  \/ /\ Len(broken) < MaxBreaks
     /\ \E n \in Breaks(ops) :
          /\ h' = BrokenAfter(m, ops, n)
          /\ broken' = Append(broken, UNION {Target(ops[i]) : i \in n + 1 .. Len(ops)})

Runs(ops) == RunsOn(h, ops)

FailsIn(part) == failed' = IF h'.end = "error" THEN failed \cup {part} ELSE failed

-----------------------------------------------------------------------------
(* before_scenario *)

OnTestbed(m) ==
  /\ ~Tagged(m, "nmtui")
  /\ ~Is(m, File("nm_wifi_configured")) /\ ~Is(m, File("nm_dcb_inf_wol_sriov_configured"))

CheckUplink(m) ==
  When(OnTestbed(m),
       <<Nmcli>> \o When(~Is(m, Active("testeth0")),
                         <<NmPut(Setting("testeth0 may-fail")), NmPut(Active("testeth0"))>>))

RestartTags == {"eth0", "delete_testeth0", "connect_testeth0", "restart", "dummy"}

(* What is raised here ends before_scenario: no tag's hook runs.           *)
Begin ==
  /\ phase = "begin"
  /\ Runs(CheckUplink(h))
  /\ FailsIn("before")
  /\ skipped' = (h'.end = "" /\ h.tags \cap RestartTags # {}
                   /\ Perform(h, skip_restarts_bs(h)).end = "skip")
  /\ phase' = IF h'.end = "error" THEN "cleanup" ELSE "tags"
  /\ UNCHANGED <<case, todo, steps>>

Registering(t, m) ==
  When(t \in HasAfter, <<Register(TagEntry(t))>>) \o Before(t, m)

(* An exception is collected and the next tag's hook runs, a skip ends it. *)
BeforeTag ==
  /\ phase = "tags" /\ todo # <<>> /\ ~skipped
  /\ Runs(Registering(Head(todo), h))
  /\ FailsIn("before")
  /\ skipped' = (h'.end = "skip")
  /\ todo' = Tail(todo)
  /\ UNCHANGED <<case, phase, steps>>

(* A failed scenario is not a skipped one.                                 *)
BeforeEnds ==
  /\ phase = "tags" /\ (todo = <<>> \/ skipped)
  /\ phase' = IF skipped \/ failed # {} THEN "cleanup" ELSE "body"
  /\ skipped' = (skipped /\ failed = {})
  /\ UNCHANGED <<case, h, todo, steps, failed, broken>>

-----------------------------------------------------------------------------
(* The steps *)

DoStep ==
  /\ phase = "body" /\ steps # <<>>
  /\ Runs(Step(Head(steps), h))
  /\ FailsIn("body")
  /\ skipped' = (h'.end = "skip")
  /\ steps' = Tail(steps)
  /\ phase' = IF h'.end = "" THEN "body" ELSE "cleanup"
  /\ UNCHANGED <<case, todo>>

(* A step does not see what it expects.                                    *)
ExpectationFails ==
  /\ phase = "body"
  /\ failed' = failed \cup {"body"}
  /\ phase' = "cleanup"
  /\ UNCHANGED <<case, h, todo, steps, skipped, broken>>

BodyEnds ==
  /\ phase = "body" /\ steps = <<>>
  /\ phase' = "cleanup"
  /\ UNCHANGED <<case, h, todo, steps, skipped, failed, broken>>

-----------------------------------------------------------------------------
(* after_scenario *)

(* The hook of a tag is computed when it is called.                        *)
OpsOf(e, m) ==
  IF e.tag[1] = "tag" THEN After(e.tag[2], m)
  ELSE IF e.given # <<>> /\ ~Is(m, e.given) THEN <<>>
  ELSE e.ops

(* Mistaken variant: the first cleanup that raises is the last.            *)
CleanupGivesUp ==
  /\ phase = "cleanup" /\ h.lst # <<>>
  /\ LET e == Head(h.lst)
         m == [h EXCEPT !.lst = IF "cleanup" \in failed THEN <<>> ELSE Tail(@)]
     IN  RunsOn(m, IF "cleanup" \in failed THEN <<>> ELSE OpsOf(e, m))
  /\ failed' = IF h'.end = "error" \/ (h'.end = "skip" /\ ~skipped)
               THEN failed \cup {"cleanup"} ELSE failed
  /\ UNCHANGED <<case, phase, todo, steps, skipped>>

(* process_cleanup takes the head of the list; what a cleanup registers is *)
(* still to come.  What one raises does not keep the next from running.    *)
CleanupNext ==
  /\ phase = "cleanup" /\ h.lst # <<>>
  /\ LET e == Head(h.lst)
         m == [h EXCEPT !.lst = Tail(@)]
     IN  RunsOn(m, OpsOf(e, m))
  /\ failed' = IF h'.end = "error" \/ (h'.end = "skip" /\ ~skipped)
               THEN failed \cup {"cleanup"} ELSE failed
  /\ UNCHANGED <<case, phase, todo, steps, skipped>>

End ==
  /\ phase = "cleanup" /\ h.lst = <<>>
  /\ phase' = "done"
  /\ UNCHANGED <<case, h, todo, steps, skipped, failed, broken>>

Next ==
  \/ Begin \/ BeforeTag \/ BeforeEnds
  \/ DoStep \/ ExpectationFails \/ BodyEnds
  \/ CleanupNext \/ End

Spec == Init /\ [][Next]_vars

-----------------------------------------------------------------------------
(* What the hooks and steps leave, and what they put at risk.              *)

FilesOf(names)    == {File(f) : f \in names}
SettingsOf(names) == {Setting(s) : s \in names}
ServicesOf(names) == {Service(s) : s \in names}

(* Set up once and left for the scenarios that follow: the authenticators, *)
(* VPN and RADIUS servers, keys and certificates, policies, services.      *)
Lasting ==
  {Con(c) : c \in Range(Wired)} \cup {Active(c) : c \in Range(Wired)}
  \cup {Link(d) : d \in Range(WiredLinks) \cup {"VFs"}}
  \cup {Process("dnsmasq_wired"), Process("dnsmasq_wireless"), Netns("wlan_ns"),
        Conf("95-nmci-wifi")}
  \cup ServicesOf({"nm-hostapd", "nm-hostapd-1", "ModemManager", "network", "nfs-server",
                   "pptpd", "openvswitch"})
  \cup FilesOf({"nm_8021x_configured", "nm_wifi_supp_configured", "pkcs11_passwd-file",
                "trest-server.conf", "nmci_raddb_configured", "netdevsim_installed",
                "dracut_setup_failed", "nm_pptp_configured", "nm_dpdk_configured"})
  \cup SettingsOf({"selinux hostapd_wireless", "selinux ifup_policy", "selinux strongswan",
                   "selinux ModemManager", "selinux pppd", "wireless certificates",
                   "softhsm token", "openvpn certificates", "8021x certificates",
                   "hostapd arguments", "raddb", "mmcli debug", "logging", "tuned profile",
                   "firewalld debug", "firewall ports", "testeth0 zone", "unmanaged orig",
                   "dracut testbed", "chap-secrets", "pptpd.conf", "hugepages",
                   "openvswitch user", "dpdk-init", "VFs bound"})

(* Files a step writes and nothing removes; each is written anew when used. *)
Scratch ==
  FilesOf({"network-traffic.log", "nmstate clone", "dhcpd.conf", "radvd-pd.conf",
           "dhcpd-pd.conf", "ip6leases.conf", "radvd-clat.conf", "tayga-clat.conf",
           "clat-data", "wpa_supplicant.conf"})
  \cup SettingsOf({"/etc/hosts", "pppoe-server-options", "allip"})

LeftBehind ==
  {r \in DOMAIN h.dev : /\ r \notin Lasting \cup Scratch
                        /\ r[1] \in {"package", "module"} => r \in h.base}

(* A daemon that only a later step of the scenario ends.                   *)
Daemons == {Process("dhcrelay")}

(* What is registered, or noted for the after hook, only once it has been  *)
(* changed, and what an after hook comes to only past a command that fails *)
(* when there is nothing to delete: the rules of manage_device, the files  *)
(* of prepare_sriov_config, setup_macsec_psk's supplicant, dnsconfd, the   *)
(* configuration package, the rule of non_utf_device.                      *)
CoveredLate ==
  Daemons
  \cup {Process("wpa_supplicant_ms"), Conf("95-sriov"), Conf("00-server"),
        Service("dnsconfd"), Service("systemd-resolved")}
  \cup SettingsOf({"dnsconfd config", "dnsconfd enabled", "resolv.conf"})
  \cup {r \in DOMAIN h.dev : r[1] = "rule" /\ r # Rule("99-veths")}

(* Limits of MPTCP set twice in a scenario (cleanup.py:393): the second    *)
(* registration replaces the first, and holds what the first step set.     *)
Overwritten ==
  {Setting("mptcp limits") : i \in {i \in DOMAIN case.steps : \E j \in i + 1 .. Len(case.steps) :
     case.steps[i][1] = "lims" /\ case.steps[j][1] = "lims"}}

Owners(r) ==
  CASE r[1] \in {"active", "changes"}  -> {r, Con(r[2])}
    [] r[1] \in {"address", "down"}    -> {r, Link(r[2])}
    [] r[1] = "link"                   -> {r, Netns(h.dev[r])}
    [] OTHER                           -> {r}

BrokenOff(r) == \E i \in DOMAIN broken : Owners(r) \cap broken[i] # {}
NMBrokenOff  == BrokenOff(NetworkManager)

-----------------------------------------------------------------------------
(* Properties *)

TypeOK ==
  /\ phase \in Phases /\ failed \subseteq Parts /\ skipped \in BOOLEAN
  /\ Range(todo) \subseteq h.tags /\ Len(steps) <= Len(case.steps) /\ Len(broken) <= MaxBreaks
  /\ h.end \in {"", "skip", "error"} /\ h.serial \in Nat
  /\ \A r \in DOMAIN h.dev : h.dev[r] # Original(h, r)
  /\ TagsDiffer(h.lst)
  /\ \A i, j \in DOMAIN h.lst : i < j => h.lst[i].prio <= h.lst[j].prio

(* Whatever step a scenario fails at, and whatever hook skips or refuses,  *)
(* the next scenario finds the machine this one found, but for what hooks  *)
(* set up to last (environment.py: the cleanups of after_scenario), for    *)
(* daemons that only a later step ends, and for what is Overwritten.       *)
HostRestored ==
  phase = "done" /\ broken = <<>> /\ "cleanup" \notin failed =>
    LeftBehind \subseteq Overwritten \cup (IF "body" \in failed THEN Daemons ELSE {})

(* A command that runs into its time limit costs the rest of its hook,     *)
(* step or cleanup and nothing else: what is left behind is what that part *)
(* did not come to, what needs a NetworkManager that did not come back, or *)
(* is known to be covered late (cleanup.py, process_cleanup goes on) or    *)
(* Overwritten without that.                                               *)
FaultContained ==
  phase = "done" =>
    \A r \in LeftBehind :
      \/ BrokenOff(r) \/ r \in CoveredLate \cup Overwritten
      \/ r[1] \in {"con", "link", "active", "address"} /\ NMBrokenOff

(* Files created without an operation in front of another such file of the *)
(* same priority (files.py:39): the restart that both share is moved in    *)
(* front of the earlier one, and runs before that is removed.              *)
Overtaken ==
  {case.steps[i][2] : i \in {i \in DOMAIN case.steps : \E j \in i + 1 .. Len(case.steps) :
     LET s == case.steps[i]  t == case.steps[j]
     IN  /\ s[1] = "create_config_file" /\ t[1] = "create_config_file"
         /\ s[4] = "" /\ t[4] = "" /\ s[3] = t[3] /\ s[2] # t[2]}}

(* At the end NetworkManager runs and has loaded the configuration that is *)
(* on disk, and udev the rules: the removal of a file is followed by a     *)
(* reload, in whatever order hooks and steps have written and registered   *)
(* it and the service was stopped, but for the files that are Overtaken.   *)
LoadedIsOnDisk ==
  phase = "done" =>
    /\ \/ NMBrokenOff
       \/ Is(h, NetworkManager) /\ h.nm \ Overtaken = OnDisk(h, "conf") \ Overtaken
    /\ BrokenOff(Udev) \/ h.rules = OnDisk(h, "rule")

(* Profiles and interfaces are cleaned up by a NetworkManager that runs: a *)
(* service a step stopped is started before (cleanup.py, priority -30).    *)
CleanupsFindNM ==
  phase = "cleanup" /\ h.lst # <<>> /\ Head(h.lst).tag[1] \in {"connection", "iface"} =>
    Is(h, NetworkManager) \/ NMBrokenOff

(* When nothing broke, no hook raises after the scenario: the before hook  *)
(* and the steps left what the after hook needs, in every combination of   *)
(* tags (tags.py), where the testbed can be set up again.                  *)
HooksWork ==
  phase = "done" /\ broken = <<>> /\ failed # {} /\ ~Fails(h, "vethsetup") => failed \cap {"before", "body"} # {}
=============================================================================
