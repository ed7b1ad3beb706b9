---------------------------- MODULE StepsMachine ----------------------------
(***************************************************************************)
(* The steps of src/features/steps that change the machine, but those of   *)
(* prepare.py: profiles, devices, NetworkManager itself, files, packages   *)
(* and what a scenario registers for its own cleanup.                      *)
(*                                                                         *)
(* Every operator is the step of the same name, as the operations it       *)
(* performs on the machine h it finds; c is a profile, d a device.         *)
(***************************************************************************)
EXTENDS StepsPrepare

(* What NetworkManager makes of a profile for d: it configures a device    *)
(* that exists and creates one that does not.                              *)
Applied(h, d) ==
  IF Is(h, Link(d)) THEN NmPut(Address(d)) ELSE NmPut(Link(d))

\* connection.py

add_new_connection(h, c, d) ==
  <<AddConnection(c), AddIface(d), NmPut(Con(c)), Applied(h, d), Nmcli>>

add_multiple_new_connections(h, cons) ==
  Every(cons, AddConnection) \o Every(cons, AddIface)
  \o Each(cons, LAMBDA c : <<NmPut(Con(c)), Applied(h, c), Nmcli>>)

(* The result is looked at by the step itself. *)
add_with_warnings_ignored(h, c, d) ==
  <<AddConnection(c), AddIface(d), TryPut(Con(c)), Applied(h, d)>>
  \o When(~Is(h, NetworkManager), <<Raise>>)

open_slave_connection(h, c, d) ==
  <<AddConnection(c), AddIface(d), NmPut(Con(c))>>

(* A profile that is down already is left alone. *)
start_stop_connection(h, action, c) ==
  IF action = "up" THEN <<NmPut(Active(c))>>
  ELSE <<Nmcli>> \o When(Is(h, Active(c)), <<NmDrop(Active(c))>>)

delete_connection(h, c) == <<NmDrop(Con(c))>>
modify_connection(h, c) == Modify(h, c)
reload_connections(h) == <<Nmcli>>

(* Through the library: what it answers is asserted. *)
add_connection(h, c) == <<AddConnection(c), NmPut(Con(c))>>
clone_connection(h, src, dst) ==
  <<AddConnection(dst)>> \o When(~Is(h, Con(src)), <<Raise>>) \o <<NmPut(Con(dst))>>
update2_connection_autoconnect(h, c) == Modify(h, c)

(* All the callbacks of the list run even when one raises: NetworkManager  *)
(* is stopped by the first and started by the last of them.                *)
add_bridges_vlans_range(h, devices) ==
  <<Callback(0, StopNM \o Every(devices, LAMBDA d : Drop(Link(d)))
                \o Every(devices, LAMBDA d : Unlink(Con(d))) \o <<DoNM("restart")>>)>>
  \o Each(devices, LAMBDA d : <<NmPut(Con(d)), Applied(h, d)>>)

cleanup_connection(c, prio) ==
  <<Register(Entry(<<"connection", c>>, prio, <<TryDrop(Con(c))>>))>>

cleanup_connection_reset(c) ==
  <<Callback(20, <<TryDrop(Con(c)), NmPut(Con(c))>>)>>

(* testeth: the profile of the testbed for the device. *)
cleanup_device_disconnect(testeth, d) ==
  <<Callback(20, <<TryDrop(Address(d)), TryPut(Active(testeth)),
                   TryDrop(Active(testeth))>>)>>

note_gotten_value(h, c) == When(~Is(h, Con(c)), <<Raise>>) \o <<Nmcli, Note("noted value", TRUE)>>

\* device.py

connect_device(h, d) == <<Applied(h, d)>>
disconnect_connection(h, d) == <<NmDrop(Address(d))>>
delete_device(h, d) == <<NmDrop(Link(d))>>

snapshot_action(h, action) ==
  <<Nmcli>>
  \o CASE action = "create" -> <<NmPut(Setting("checkpoint")), Note("checkpoint", TRUE)>>
       [] action \in {"revert", "delete"} ->
            When(~Noted(h, "checkpoint"), <<Raise>>) \o <<NmDrop(Setting("checkpoint"))>>

(* The dispatcher is unmasked when NetworkManager is restarted at the end. *)
activate_devices_check(h) ==
  <<Callback(200, <<Drop(Setting("dispatcher masked"))>>)>> \o StopNM
  \o <<Put(Setting("dispatcher masked")), Stop("NetworkManager-dispatcher"), Run,
       DoNM("start"), Run>>

cleanup_device(d) == <<AddIface(d)>>

(* Every one is deleted, also those with the name of a testbed's device. *)
add_multiple_devices(h, typ, devices) ==
  When(typ = "veth", manage_device(h, devices[1]))
  \o Every(devices, LAMBDA d : Register(Entry(<<"iface", d, "delete">>, 30, <<TryDrop(Link(d))>>)))
  \o Every(devices, LAMBDA d : Put(Link(d)))

add_namespace(n) == <<AddNamespace(n, FALSE), Put(Netns(n))>>
cleanup_ns(n) == <<AddNamespace(n, TRUE)>>

(* Three callbacks, the last one registered runs first. *)
rename_device(h, old, new) ==
  <<AddNMService("restart"),
    Register(Entry(<<old, "up">>, 0, <<Drop(Down(old))>>)),
    Register(Entry(<<new, old>>, 0,
                   <<Set(Link(new), "gone"), Put(Link(old))>>)),
    Register(Entry(<<new, "down">>, 0, <<Put(Down(old))>>)),
    Put(Down(old)), Drop(Link(old)), Put(Link(new)),
    Drop(Down(old))>>

(* Batches as long as two routes or more are missing: one route is none.   *)
do_routes(dev, count, batch) ==
  LET batches == {n \in 0 .. count : n * batch + 1 < count}
  IN  [i \in 1 .. Cardinality(batches) |-> Put(Address(dev))]

flush_device_routes(dev) == <<Drop(Address(dev))>>

pcap_ifname(d) ==
  Spawn("tshark " \o d)
  \o <<Callback(41, <<Run>>),
       Register(Entry(<<"files", d \o ".pcap">>, 42, <<Unlink(File(d \o ".pcap"))>>)),
       Put(File(d \o ".pcap"))>>

\* commands.py

(* `Execute "..."`: whatever the scenario says. *)
execute_command(ops) == ops
execute_command_nowait(p) == Spawn(p)
pkill_process(h, p) == IF Is(h, Process(p)) THEN <<Drop(Process(p))>> ELSE <<Raise>>

kill_dnsmasq(l) == <<Drop(Process("dnsmasq_" \o l))>>
start_dnsmasq(l) == kill_dnsmasq(l) \o WithFiles("dnsmasq_" \o l, Spawn("dnsmasq_" \o l))

run_child_process(p) == Spawn(p)
kill_children(children) == Every(children, LAMBDA p : Drop(Process(p)))
start_tailing_journal(h) == Spawn("journal") \o <<Run>>

load_nftables(n) ==
  <<AddNft(n), Write(File("nmci-nft-ruleset")), IF n = "" THEN Put(Setting("nft")) ELSE Run,
    Unlink(File("nmci-nft-ruleset"))>>
flush_nftables(n) == <<AddNft(n)>>

cleanup_files(f) == <<AddFilesMatching(f)>>
cleanup_execute(prio, ops) == <<Callback(prio, ops)>>

run_nmstate(h) == <<WaitForTesteth0, Run, Run>> \o When(Fails(h, "nmstate"), <<Raise>>)

set_sysctl(h, k, v) == <<AddSysctls(h, k), Set(Setting(k), v)>>

(* A package is upgraded first and its downgrade registered afterwards.    *)
check_package_version(h, p, restarts) ==
  When(~Fact(h, p \o " new enough"),
       <<Run, Run>> \o When(Fails(h, "links of " \o p), <<Skip>>)
       \o <<Set(Package(p), "upgraded"),
            Callback(70, <<Set(Package(p), "there")>>)>>
       \o When(restarts, <<DoNM("restart"), AddNMService("restart")>>))

(* Whatever the scenario did last, /usr is locked at its end. *)
image_mode_toggle(h, action) ==
  When(Fact(h, "image mode"),
       <<Register(Entry(<<"image-mode-unlock">>, 9, <<Put(Setting("usr writable"))>>)),
         Register(Entry(<<"image-mode-lock">>, 71, <<Drop(Setting("usr writable"))>>)),
         IF action = "lock" THEN Drop(Setting("usr writable"))
         ELSE Put(Setting("usr writable"))>>)

(* The same cleanup by two ways: the later one replaces the other.         *)
GlobalDns(via) ==
  <<Register(Entry(<<"GLOBAL_DNS_RESET">>, 201, <<Op("set", via, Setting("global dns"), "gone")>>)),
    Op("set", via, Setting("global dns"), "there")>>
busctl_global_dns_set(h) == GlobalDns("cmd")
dbus_global_dns_set(h) == GlobalDns("nmcli")

allow_user_polkit(u) == <<AddFile("polkit " \o u), Write(File("polkit " \o u))>>

\* service.py

reboot(h) == Reboot
start_nm(h) == <<DoNM("start")>>
restart_nm(h) == <<DoNM("restart")>>
reload_nm(h) == <<DoNM("reload")>>

(* The service manager starts a killed NetworkManager again. *)
kill_nm(h) == <<Run>> \o When(Is(h, NetworkManager), <<DoNM("stop"), DoNM("start")>>)

stop_nm(h) == StopNM
stop_nm_and_clean(h, d) ==
  StopNM \o <<Put(Down(d)), Drop(Address(d))>>

(* NetworkManager is tried twice at most under valgrind; no start of the   *)
(* service is registered, by intention.  The registered stop ends the one  *)
(* that runs and starts the service; when none runs it does nothing.       *)
UnderValgrind == Process("NM in valgrind")
NM_valgrind_stop_ops == <<Unlink(UnderValgrind), Unlink(NetworkManager), Run, DoNM("start")>>
NM_valgrind_start(h) ==
  <<Register(EntryGiven(UnderValgrind, <<"stop-NM-valgrind", ToString(h.serial)>>, 0,
                        NM_valgrind_stop_ops)),
    AddNMService("restart"), DoNM("stop"), Run>>
  \o (IF Fails(h, "valgrind") THEN <<Raise>>
      ELSE Spawn("NM in valgrind") \o <<DoNM("start")>>)
NM_valgrind_stop(h) ==
  When(Is(h, UnderValgrind), NM_valgrind_stop_ops)

\* files.py

fill_file_with_content(f) == <<AddFile(f), Write(File(f))>>

(* Without an operation the scenario restarts NetworkManager itself; a     *)
(* restart is registered ahead of the file, with the file's priority, and  *)
(* a callback that does nothing.                                           *)
create_config_file(f, prio, operation) ==
  IF operation = ""
  THEN <<Register(NMServiceAt("restart", prio)), Callback(prio, <<>>),
         AddNMConfFile(f, prio, ""), Write(Conf(f))>>
  ELSE AddNMConfigAt(f, prio, operation)
cleanup_NM_cfg(f) == <<AddNMConfFile(f, 70, "restart")>>

create_udev_file(f) == <<AddUdevRule(f), Write(Rule(f)), UdevUpdate>>
append_to_file(f) == <<Write(File(f))>>

(* Registered once it is written. *)
append_to_ifcfg(c) == <<Write(Con(c)), AddIface(c), AddConnection(c)>>
remove_file(f) == <<Unlink(File(f))>>
create_symlink(f) == <<Write(File(f))>>

write_dispatcher_file(h, f, inUsr) ==
  LET image == inUsr /\ Fact(h, "image mode")
  IN  When(image, <<Put(Setting("usr writable"))>>)
      \o <<Register(Entry(<<"files", "dispatcher.txt">>, 71, <<Unlink(File("dispatcher.txt"))>>))>>
      \o When(image, <<Callback(69, <<Put(Setting("usr writable"))>>),
                       Callback(71, <<Drop(Setting("usr writable"))>>)>>)
      \o <<AddFile(f), Write(File("dispatcher.txt")), Write(File(f)), Run>>
      \o When(image, <<Drop(Setting("usr writable"))>>)

reset_hosts(h) == <<Unlink(Setting("/etc/hosts"))>>

(* The profile and the device are read from the file that is written.      *)
create_network_profile_file(f, c, d) ==
  <<AddNMService("restart"),
    Register(Entry(<<"files", f>>, 71, <<Unlink(File(f))>>)),
    Write(File(f)), Run, Run, AddConnection(c), AddIface(d)>>

\* suspend.py, mock_nm.py, vpn.py, nmtui.py, bond_bridge_team.py

mock_logind(h) ==
  <<Callback(0, <<Restart("systemd-logind")>>), Callback(0, <<Drop(Setting("logind masked"))>>),
    Callback(0, <<Drop(Process("logind mock"))>>),
    Stop("systemd-logind"), Put(Setting("logind masked"))>>
  \o Spawn("logind mock") \o <<Run>>

suspend_hw(h) ==
  <<Register(Entry(<<"pm_backup">>, 0, <<Drop(Setting("/sys/power"))>>)),
    Put(Setting("/sys/power")), Run>>

(* The mock goes before the service is started again. *)
mock_nm(h) ==
  <<AddNMService("start"), Callback(-40, <<Drop(Process("NM mock"))>>), Run>> \o StopNM
  \o Spawn("NM mock")

add_vpnc_connection_for_iface(h, c) == <<AddConnection(c), NmPut(Con(c))>>
openvpn_certs_copy_chown(f) ==
  <<Callback(0, <<Drop(File(f))>>), Put(File(f)), Run, Run, Run>>
connect_to_vpn(h, c) == <<NmPut(Active(c)), Run>>

set_specific_field_to(field, value) ==
  CASE field = "Profile name" -> <<AddConnection(value)>>
    [] field = "Device"       -> <<AddIface(value)>>
    [] OTHER -> <<>>

external_bridge_check(h) == <<AddIface("br0"), Run>>

(* The step x of a scenario: the name of its function and the arguments.   *)
Step(x, h) ==
  CASE
    x[1] = "create_policy_based_routing_files" -> create_policy_based_routing_files(h, x[2])
    [] x[1] = "config_dhcp" -> config_dhcp(h)
    [] x[1] = "config_dhcpv6_pd" -> config_dhcpv6_pd(h)
    [] x[1] = "prepare_connection" -> prepare_connection(h)
    [] x[1] = "prepare_sriov_config" -> prepare_sriov_config(h, x[2])
    [] x[1] = "pbr_doc_proc" -> pbr_doc_proc(h)
    [] x[1] = "prepare_pppoe_server" -> prepare_pppoe_server(h)
    [] x[1] = "prepare_veths" -> prepare_veths(h, x[2], x[3])
    [] x[1] = "start_radvd" -> start_radvd(h)
    [] x[1] = "restart_dhcp_server" -> restart_dhcp_server(h, x[2])
    [] x[1] = "clat_prepare" -> clat_prepare(h, x[2], x[3])
    [] x[1] = "clat_start_servers" -> clat_start_servers(h, x[2])
    [] x[1] = "clat_verify" -> clat_verify(h, x[2])
    [] x[1] = "clat_verify_nondefault" -> clat_verify_nondefault(h, x[2])
    [] x[1] = "prepare_dhcpd_simdev" -> prepare_dhcpd_simdev(h, x[2])
    [] x[1] = "prepare_simdev" -> prepare_simdev(h, x[2])
    [] x[1] = "prepare_simdev_different_network" -> prepare_simdev_different_network(h, x[2])
    [] x[1] = "prepare_simdev_no_dhcp" -> prepare_simdev_no_dhcp(h, x[2])
    [] x[1] = "prepare_simdev_pmtu" -> prepare_simdev_pmtu(h, x[2])
    [] x[1] = "prepare_simdev_no_carrier" -> prepare_simdev_no_carrier(h, x[2])
    [] x[1] = "prepare_bridged" -> prepare_bridged(h, x[2], x[3])
    [] x[1] = "start_pppoe_server" -> start_pppoe_server(h)
    [] x[1] = "start_pppoe_server_ns" -> start_pppoe_server_ns(h, x[2])
    [] x[1] = "setup_macsec_psk" -> setup_macsec_psk(h)
    [] x[1] = "set_default_dcb" -> set_default_dcb(h)
    [] x[1] = "prepare_iptunnel_doc" -> prepare_iptunnel_doc(h)
    [] x[1] = "mptcp" -> mptcp(h, x[2]) [] x[1] = "lims" -> lims(h, x[2])
    [] x[1] = "libreswan_ng_setup" -> libreswan_ng_setup(h)
    [] x[1] = "add_new_connection" -> add_new_connection(h, x[2], x[3])
    [] x[1] = "add_multiple_new_connections" -> add_multiple_new_connections(h, x[2])
    [] x[1] = "add_with_warnings_ignored" -> add_with_warnings_ignored(h, x[2], x[3])
    [] x[1] = "open_slave_connection" -> open_slave_connection(h, x[2], x[3])
    [] x[1] = "start_stop_connection" -> start_stop_connection(h, x[2], x[3])
    [] x[1] = "delete_connection" -> delete_connection(h, x[2])
    [] x[1] = "modify_connection" -> modify_connection(h, x[2])
    [] x[1] = "reload_connections" -> reload_connections(h)
    [] x[1] = "add_connection" -> add_connection(h, x[2])
    [] x[1] = "clone_connection" -> clone_connection(h, x[2], x[3])
    [] x[1] = "update2_connection_autoconnect" -> update2_connection_autoconnect(h, x[2])
    [] x[1] = "add_bridges_vlans_range" -> add_bridges_vlans_range(h, x[2])
    [] x[1] = "cleanup_connection" -> cleanup_connection(x[2], x[3])
    [] x[1] = "cleanup_connection_reset" -> cleanup_connection_reset(x[2])
    [] x[1] = "cleanup_device_disconnect" -> cleanup_device_disconnect(x[2], x[3])
    [] x[1] = "note_gotten_value" -> note_gotten_value(h, x[2])
    [] x[1] = "connect_device" -> connect_device(h, x[2])
    [] x[1] = "disconnect_connection" -> disconnect_connection(h, x[2])
    [] x[1] = "delete_device" -> delete_device(h, x[2])
    [] x[1] = "snapshot_action" -> snapshot_action(h, x[2])
    [] x[1] = "activate_devices_check" -> activate_devices_check(h)
    [] x[1] = "cleanup_device" -> cleanup_device(x[2])
    [] x[1] = "add_multiple_devices" -> add_multiple_devices(h, x[2], x[3])
    [] x[1] = "add_namespace" -> add_namespace(x[2])
    [] x[1] = "cleanup_ns" -> cleanup_ns(x[2])
    [] x[1] = "rename_device" -> rename_device(h, x[2], x[3])
    [] x[1] = "do_routes" -> do_routes(x[2], x[3], x[4])
    [] x[1] = "flush_device_routes" -> flush_device_routes(x[2])
    [] x[1] = "pcap_ifname" -> pcap_ifname(x[2])
    [] x[1] = "execute_command" -> execute_command(x[2])
    [] x[1] = "execute_command_nowait" -> execute_command_nowait(x[2])
    [] x[1] = "pkill_process" -> pkill_process(h, x[2])
    [] x[1] = "kill_dnsmasq" -> kill_dnsmasq(x[2])
    [] x[1] = "start_dnsmasq" -> start_dnsmasq(x[2])
    [] x[1] = "run_child_process" -> run_child_process(x[2])
    [] x[1] = "kill_children" -> kill_children(x[2])
    [] x[1] = "start_tailing_journal" -> start_tailing_journal(h)
    [] x[1] = "load_nftables" -> load_nftables(x[2])
    [] x[1] = "flush_nftables" -> flush_nftables(x[2])
    [] x[1] = "cleanup_files" -> cleanup_files(x[2])
    [] x[1] = "cleanup_execute" -> cleanup_execute(x[2], x[3])
    [] x[1] = "run_nmstate" -> run_nmstate(h)
    [] x[1] = "set_sysctl" -> set_sysctl(h, x[2], x[3])
    [] x[1] = "check_package_version" -> check_package_version(h, x[2], x[3])
    [] x[1] = "image_mode_toggle" -> image_mode_toggle(h, x[2])
    [] x[1] = "busctl_global_dns_set" -> busctl_global_dns_set(h)
    [] x[1] = "dbus_global_dns_set" -> dbus_global_dns_set(h)
    [] x[1] = "allow_user_polkit" -> allow_user_polkit(x[2])
    [] x[1] = "reboot" -> reboot(h) [] x[1] = "start_nm" -> start_nm(h)
    [] x[1] = "restart_nm" -> restart_nm(h) [] x[1] = "reload_nm" -> reload_nm(h)
    [] x[1] = "kill_nm" -> kill_nm(h) [] x[1] = "stop_nm" -> stop_nm(h)
    [] x[1] = "stop_nm_and_clean" -> stop_nm_and_clean(h, x[2])
    [] x[1] = "NM_valgrind_start" -> NM_valgrind_start(h)
    [] x[1] = "NM_valgrind_stop" -> NM_valgrind_stop(h)
    [] x[1] = "fill_file_with_content" -> fill_file_with_content(x[2])
    [] x[1] = "create_config_file" -> create_config_file(x[2], x[3], x[4])
    [] x[1] = "cleanup_NM_cfg" -> cleanup_NM_cfg(x[2])
    [] x[1] = "create_udev_file" -> create_udev_file(x[2])
    [] x[1] = "append_to_file" -> append_to_file(x[2])
    [] x[1] = "append_to_ifcfg" -> append_to_ifcfg(x[2])
    [] x[1] = "remove_file" -> remove_file(x[2])
    [] x[1] = "create_symlink" -> create_symlink(x[2])
    [] x[1] = "write_dispatcher_file" -> write_dispatcher_file(h, x[2], x[3])
    [] x[1] = "reset_hosts" -> reset_hosts(h)
    [] x[1] = "create_network_profile_file" -> create_network_profile_file(x[2], x[3], x[4])
    [] x[1] = "mock_logind" -> mock_logind(h) [] x[1] = "suspend_hw" -> suspend_hw(h)
    [] x[1] = "mock_nm" -> mock_nm(h)
    [] x[1] = "add_vpnc_connection_for_iface" -> add_vpnc_connection_for_iface(h, x[2])
    [] x[1] = "openvpn_certs_copy_chown" -> openvpn_certs_copy_chown(x[2])
    [] x[1] = "connect_to_vpn" -> connect_to_vpn(h, x[2])
    [] x[1] = "set_specific_field_to" -> set_specific_field_to(x[2], x[3])
    [] x[1] = "external_bridge_check" -> external_bridge_check(h)
    [] x[1] = "add_device" -> add_device(x[2], x[3])
=============================================================================
