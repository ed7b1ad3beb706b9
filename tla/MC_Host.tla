------------------------------ MODULE MC_Host ------------------------------
(***************************************************************************)
(* Machines and scenarios for ScenarioOnHost: the combinations of tags of  *)
(* the feature files whose hooks touch the same things, every other tag    *)
(* alone, and for every step that changes the machine a scenario with it.  *)
(***************************************************************************)
EXTENDS ScenarioOnHost

Testbed ==
  {Link(d) : d \in TestbedDevices} \cup {Con(c) : c \in TestbedProfiles}
  \cup {Active("testeth0"), NetworkManager, Netns("vethsetup"), Process("dhcp_inbr"),
        File("nm_veth_configured"), Rule("87-xvethsetup"), Service("systemd-logind"),
        Service("tuned"), Package("firewalld"), Package("NetworkManager-libreswan"),
        Service("wpa_supplicant"), Package("teamd"),
        Package("NetworkManager-vpnc")}

Fedora == [base |-> Testbed \cup {Service("systemd-resolved")}, facts |-> {"x86_64", "fedora"}]
Rhel9 ==
  [base |-> Testbed \cup {ConfigServer, Conf(ServerConf)},
   facts |-> {"x86_64", "selinux enforcing", "dhclient"}]
S390x == [base |-> Testbed, facts |-> {"s390x", "rhel10", "keyfile plugin"}]
Image == [base |-> Testbed \cup {ConfigServer, Conf(ServerConf)},
          facts |-> {"x86_64", "rhel10", "image mode", "keyfile plugin"}]

Setups ==
  {"systemd-resolved", "libreswan", "strongswan", "racoon", "openvpn", "hostapd", "hostapd wireless", "netdevsim",
   "vethsetup", "nmstate", "valgrind", "radius", "dracut", "slow_team", "dpdk"}

(* One on which no set-up works. *)
Failing ==
  [base |-> Testbed,
   facts |-> {"x86_64", "selinux enforcing", "NM hangs"}
             \cup {s \o " fails" : s \in Setups}]
TheMachines == {Fedora, Rhel9, S390x, Image, Failing}

On(m, ts, ss) == [base |-> m.base, facts |-> m.facts, tags |-> ts, steps |-> ss]

(* Tags whose after hook needs what only the steps make, or another tag.   *)
OnlyWithSteps ==
  {"pppoe", "tuntap", "peers_ns", "inf", "remove_ifcfg_con_general", "no_testeth10",
   "no_connections", "many_vlans"}

BeforeOnly ==
  {"temporary_skip", "skip_str", "long", "skip_in_centos", "skip_in_kvm",
   "not_on_aarch64_but_pegas", "not_in_image_mode", "crash",
   "not_with_systemd_resolved", "not_under_internal_DHCP", "not_on_veth",
   "not_when_no_veths", "logging_info_only", "unload_kernel_modules", "internal_DHCP",
   "dhclient_DHCP", "ethernet", "ifupdown", "ifcfg-rh", "keyfile", "8021x", "pkcs11",
   "simwifi_teardown", "tcpreplay", "wireguard", "dump_status_verbose", "dpdk",
   "wireless_certs", "selinux_allow_ifup", "del_test1112_veths", "copy_ifcfg",
   "not_on_s390x", "x86_64_only"}

Alone == (HasAfter \cup BeforeOnly) \ OnlyWithSteps

Combos == {
  <<"nmtui", "simwifi">>, <<"nmtui", "inf", "ifcfg-rh">>,
  <<"permissive", "delete_testeth0">>, <<"openvswitch", "restart_if_needed">>,
  <<"permissive", "openvswitch", "dpdk", "restart_if_needed">>,
  <<"manage_eth8", "checkpoint_remove">>, <<"internal_DHCP", "dhcpd">>,
  <<"internal_DHCP", "tcpdump", "no_config_server">>,
  <<"alias", "restart_if_needed", "ifcfg-rh">>, <<"openvswitch", "firewall">>,
  <<"wireguard", "firewall">>, <<"dns_systemd_resolved", "eth0">>,
  <<"openvpn", "dns_dnsmasq">>, <<"dns_dnsmasq", "restore_resolvconf">>,
  <<"dns_dnsconfd", "openvpn">>, <<"libreswan", "dns_systemd_resolved">>,
  <<"remove_dns_clean", "restart_if_needed", "not_with_systemd_resolved">>,
  <<"permissive", "openvpn", "oath">>, <<"dracut", "dracut_remote_NFS_clean">>,
  <<"nmstate_setup", "permissive">>,
  <<"permissive", "no_config_server", "allow_veth_connections">>,
  <<"unmanage_eth", "skip_str">>, <<"copy_ifcfg", "delete_testeth0">>,
  <<"permissive", "restore_hostname", "eth0">>,
  <<"dns_dnsmasq", "regenerate_veth", "skip_str">>,
  <<"not_with_systemd_resolved", "eth0", "restore_resolvconf", "restart_if_needed">>,
  <<"connectivity", "gsm">>, <<"permissive", "gsm_sim">>,
  <<"permissive", "disp", "dhclient_DHCP">>, <<"nmtui", "no_connections">>,
  <<"delete_testeth0", "restart_if_needed", "restore_hostname", "reset_etc_hosts", "dns_default">>,
  <<"delete_testeth0", "restart_if_needed", "restore_hostname", "reset_etc_hosts", "dns_systemd_resolved">>,
  <<"shutdown", "unload_kernel_modules", "restart_if_needed">>, <<"dhcpd", "mtu">>,
  <<"delete_testeth0", "dns_dnsmasq", "slow_dnsmasq", "permissive">>,
  <<"permissive", "need_dispatcher_scripts", "restart_if_needed">>,
  <<"netservice", "restart_if_needed", "connect_testeth0", "restore_broken_network">>,
  <<"restart_if_needed", "non_utf_device">>, <<"captive_portal", "connectivity">>,
  <<"dhclient_DHCP", "manage_eth8", "kill_dhclient_custom">>,
  <<"restart_if_needed", "eth0", "restore_hostname", "runonce">>,
  <<"restart_if_needed", "keyfile_cleanup">>, <<"ifcfg-rh", "simwifi">>,
  <<"permissive", "firewall", "radius", "8021x_doc_procedure">>}

(* Tags and steps. *)
Bodies == {
  << <<"logging_info_only", "many_vlans">>,
     << <<"cleanup_execute", -50, vlans_clean([facts |-> {"NM hangs"}])>>,
        <<"execute_command", vlans_setup([facts |-> {}])>>,
        <<"add_new_connection", "vlan_con", "eth11">>, <<"stop_nm">>, <<"reboot">> >> >>,
  <<<<"alias">>, <<<<"add_new_connection", "con_general", "eth8">>, <<"start_stop_connection", "up", "con_general">>,
     <<"start_stop_connection", "down", "con_general">>, <<"modify_connection", "con_general">>, <<"delete_connection", "con_general">>>>>>,
  <<<<"manage_eth8", "checkpoint_remove">>, <<<<"add_new_connection", "nm-bond", "nm-bond">>,
     <<"add_multiple_new_connections", <<"bond0.0", "bond0.1">>>>, <<"snapshot_action", "create">>, <<"delete_connection", "bond0.0">>, <<"snapshot_action", "revert">>>>>>,
  <<<<>>, <<<<"add_with_warnings_ignored", "con_vlan", "eth7.99">>, <<"open_slave_connection", "team0.0", "eth5">>,
     <<"reload_connections">>, <<"connect_device", "eth7.99">>, <<"disconnect_connection", "eth7.99">>, <<"delete_device", "eth7.99">>>>>>,
  <<<<"tuntap">>, <<<<"execute_command", <<Put(Link("tap0"))>>>>>>>>,
  <<<<"peers_ns">>, <<<<"execute_command", <<Put(Netns("peers"))>>>>>>>>,
  <<<<>>, <<<<"add_connection", "C">>, <<"clone_connection", "C", "C2">>, <<"update2_connection_autoconnect", "C2">>>>>>,
  <<<<>>, <<<<"add_bridges_vlans_range", <<"vlan.1", "vlan.2">>>>, <<"reboot">>>>>>,
  <<<<>>, <<<<"cleanup_connection", "con_x", 20>>, <<"cleanup_connection_reset", "testeth5">>, <<"cleanup_device_disconnect", "testeth8", "eth8">>, <<"connect_device", "eth8">>, <<"note_gotten_value", "testeth5">>>>>>,
  <<<<"eth3_disconnect">>, <<<<"activate_devices_check">>>>>>,
  <<<<>>, <<<<"cleanup_device", "brX">>, <<"add_multiple_devices", "veth", <<"v1", "v2">>>>, <<"add_namespace", "ns1">>, <<"cleanup_ns", "ns1">>>>>>,
  <<<<"restart_if_needed">>, <<<<"add_device", "testX6", "there">>, <<"rename_device", "testX6", "festY">>>>>>,
  <<<<>>, <<<<"add_device", "br", "there">>, <<"do_routes", "br", 5, 2>>, <<"flush_device_routes", "br">>, <<"pcap_ifname", "eth2">>>>>>,
  <<<<"kill_dhclient_custom">>, <<<<"execute_command_nowait", "sleep">>, <<"run_child_process", "tail">>, <<"kill_children", <<"tail">>>>, <<"pkill_process", "sleep">>, <<"start_tailing_journal">>>>>>,
  <<<<>>, <<<<"kill_dnsmasq", "s">>, <<"start_dnsmasq", "s">>>>>>,
  <<<<>>, <<<<"add_namespace", "ns1">>, <<"load_nftables", "ns1">>, <<"load_nftables", "">>, <<"flush_nftables", "">>>>>>,
  <<<<>>, <<<<"cleanup_files", "pattern">>, <<"append_to_file", "pattern">>, <<"cleanup_execute", 5, <<Drop(Link("x"))>>>>, <<"execute_command", <<Put(Link("x"))>>>>>>>>,
  <<<<"nmstate_setup", "permissive">>, <<<<"run_nmstate">>>>>>,
  <<<<>>, <<<<"set_sysctl", "rp_filter", "there">>, <<"set_sysctl", "rp_filter", "2">>>>>>,
  <<<<>>, <<<<"check_package_version", "wpa_supplicant", TRUE>>, <<"check_package_version", "wpa_supplicant", FALSE>>>>>>,
  <<<<>>, <<<<"image_mode_toggle", "unlock">>, <<"write_dispatcher_file", "usr-disp", TRUE>>, <<"image_mode_toggle", "lock">>>>>>,
  <<<<"disp">>, <<<<"write_dispatcher_file", "99-disp", FALSE>>, <<"start_stop_connection", "up", "testeth1">>>>>>,
  <<<<>>, <<<<"busctl_global_dns_set">>, <<"dbus_global_dns_set">>>>>>,
  <<<<>>, <<<<"allow_user_polkit", "test">>, <<"fill_file_with_content", "f">>, <<"create_symlink", "f">>, <<"remove_file", "f">>>>>>,
  <<<<"restart_if_needed">>, <<<<"stop_nm">>, <<"start_nm">>, <<"kill_nm">>, <<"restart_nm">>, <<"reload_nm">>>>>>,
  <<<<"restart_if_needed">>, <<<<"add_new_connection", "con_ipv4", "eth3">>, <<"stop_nm_and_clean", "eth3">>>>>>,
  <<<<>>, <<<<"stop_nm">>, <<"create_config_file", "99-xx", 70, "restart">>>>>>,
  <<<<>>, <<<<"add_new_connection", "c", "dummy0">>, <<"stop_nm">>>>>>,
  <<<<>>, <<<<"NM_valgrind_start">>, <<"add_new_connection", "c", "dummy0">>, <<"NM_valgrind_stop">>>>>>,
  <<<<>>, <<<<"NM_valgrind_start">>, <<"add_new_connection", "c", "dummy0">>>>>>,
  <<<<>>, <<<<"create_config_file", "99-xx", 70, "">>, <<"restart_nm">>, <<"cleanup_NM_cfg", "99-xx">>, <<"create_udev_file", "99-u">>>>>>,
  <<<<>>, <<<<"create_config_file", "99-xx", 70, "">>, <<"restart_nm">>, <<"create_config_file", "98-yy", 70, "reboot">>>>>>,
  <<<<>>, <<<<"append_to_ifcfg", "con_i">>, <<"create_network_profile_file", "p.nmconnection", "con_p", "br9">>, <<"reload_connections">>>>>>,
  <<<<"reset_etc_hosts">>, <<<<"execute_command", <<Put(Setting("/etc/hosts"))>>>>, <<"reset_hosts">>>>>>,
  <<<<"restart_if_needed">>, <<<<"mock_logind">>, <<"suspend_hw">>>>>>,
  <<<<>>, <<<<"mock_nm">>>>>>,
  <<<<"openvpn">>, <<<<"add_vpnc_connection_for_iface", "vpn1">>, <<"openvpn_certs_copy_chown", "cert">>, <<"connect_to_vpn", "vpn1">>>>>>,
  <<<<"nmtui">>, <<<<"set_specific_field_to", "Profile name", "n1">>, <<"set_specific_field_to", "Device", "brn">>, <<"external_bridge_check">>>>>>,
  <<<<"stop_radvd">>, <<<<"prepare_simdev", "testX6">>, <<"start_radvd">>, <<"add_new_connection", "con_ipv6", "testX6">>>>>>,
  <<<<>>, <<<<"prepare_simdev_no_dhcp", "testX">>, <<"restart_dhcp_server", "testX">>>>>>,
  <<<<>>, <<<<"prepare_dhcpd_simdev", "testX4">>>>>>,
  <<<<>>, <<<<"prepare_simdev_different_network", "testX4">>, <<"cleanup_execute", 0, <<Drop(Process("dhcrelay"))>>>>>>>>,
  <<<<>>, <<<<"prepare_simdev_pmtu", "testX">>, <<"prepare_simdev_no_carrier", "testY">>>>>>,
  <<<<>>, <<<<"prepare_bridged", "testX", <<"n1", "n2">>>>>>>>,
  <<<<>>, <<<<"prepare_veths", <<"test10", "test11">>, "vethbr">>>>>>,
  <<<<>>, <<<<"clat_prepare", "testX", FALSE>>, <<"clat_start_servers", "testX">>, <<"clat_verify", "testX">>, <<"clat_verify_nondefault", "testX">>>>>>,
  <<<<"pppoe", "del_test1112_veths">>, <<<<"prepare_pppoe_server">>, <<"start_pppoe_server">>>>>>,
  <<<<"pppoe">>, <<<<"start_pppoe_server_ns", "testX">>>>>>,
  <<<<>>, <<<<"setup_macsec_psk">>>>>>,
  <<<<>>, <<<<"pbr_doc_proc">>, <<"prepare_iptunnel_doc">>>>>>,
  <<<<>>, <<<<"mptcp", <<"veth0", "veth1">>>>, <<"lims", "2">>>>>>,
  <<<<>>, <<<<"lims", "2">>, <<"lims", "3">>>>>>,
  <<<<>>, <<<<"libreswan_ng_setup">>, <<"add_connection", "pbr">>, <<"create_policy_based_routing_files", "pbr">>>>>>,
  <<<<"dhcpd">>, <<<<"config_dhcp">>, <<"config_dhcpv6_pd">>>>>>,
  <<<<>>, <<<<"prepare_sriov_config", "95-sriov">>>>>>,
  <<<<"dcb">>, <<<<"add_new_connection", "dcb", "eth6">>, <<"prepare_connection">>, <<"set_default_dcb">>>>>>}

(* Every sequence of up to three steps on two files of configuration and   *)
(* the service, either file created with an operation or without, and a    *)
(* command of the scenario that writes one it has registered.              *)
Written == <<"execute_command", <<Put(Conf("98-f"))>> >>
ConfigSteps ==
  {<<"create_config_file", f, 70, x>> : f \in {"98-f", "99-g"}, x \in {"", "restart", "reload", "reboot"}}
  \cup {<<"cleanup_NM_cfg", "98-f">>,
        Written, <<"stop_nm">>, <<"start_nm">>, <<"restart_nm">>}

TheCases ==
  {On(Fedora, <<>>, s) : s \in {s \in UNION {[1 .. n -> ConfigSteps] : n \in 1 .. 3} :
     \A i \in DOMAIN s : s[i] = Written => \E j \in 1 .. i - 1 : s[j] = <<"cleanup_NM_cfg", "98-f">>}}
  \cup {On(m, ts, <<>>) : m \in TheMachines, ts \in Combos \cup {<<t>> : t \in Alone}}
  \cup {On(m, b[1], b[2]) : m \in TheMachines, b \in Bodies}
=============================================================================
