------------------------------ MODULE TagRegistry ------------------------------
(***************************************************************************)
(* tag_registry of src/nmci/tags.py: which hooks belong to which tag.  The *)
(* tag @cleanup is left to module Scenario; tags without hooks have no     *)
(* operations.                                                             *)
(***************************************************************************)
EXTENDS TagsCleaning

Before(t, h) ==
  CASE t = "temporary_skip" -> temporary_skip_bs(h) [] t = "fail" -> fail_bs(h)
    [] t = "skip_str" -> skip_restarts_bs(h) [] t = "long" -> long_bs(h)
    [] t = "skip_in_centos" -> skip_in_centos_bs(h)
    [] t = "skip_in_kvm" -> skip_in_kvm_bs(h)
    [] t = "not_on_aarch64_but_pegas" -> not_on_aarch64_but_pegas_bs(h)
    [] t = "not_in_image_mode" -> not_in_image_mode_bs(h) [] t = "gsm_sim" -> gsm_sim_bs(h)
    [] t = "crash" -> crash_bs(h)
    [] t = "not_with_systemd_resolved" -> not_with_systemd_resolved_bs(h)
    [] t = "not_under_internal_DHCP" -> not_under_internal_DHCP_bs(h)
    [] t = "not_on_veth" -> not_on_veth_bs(h)
    [] t = "not_when_no_veths" -> not_when_no_veths_bs(h)
    [] t = "logging_info_only" -> logging_info_only_bs(h)
    [] t = "many_vlans" -> many_vlans_bs(h) [] t = "captive_portal" -> captive_portal_bs(h)
    [] t = "gsm" -> gsm_bs(h) [] t = "unmanage_eth" -> unmanage_eth_bs(h)
    [] t = "connectivity" -> connectivity_bs(h)
    [] t = "unload_kernel_modules" -> unload_kernel_modules_bs(h)
    [] t = "eth0" -> eth0_bs(h) [] t = "alias" -> alias_bs(h) [] t = "inf" -> inf_bs(h)
    [] t = "dns_dnsmasq" -> dns_dnsmasq_bs(h) [] t = "dns_default" -> dns_default_bs(h)
    [] t = "dns_systemd_resolved" -> dns_systemd_resolved_bs(h)
    [] t = "dns_dnsconfd" -> dns_dnsconfd_bs(h)
    [] t = "internal_DHCP" -> internal_DHCP_bs(h)
    [] t = "dhclient_DHCP" -> dhclient_DHCP_bs(h)
    [] t = "delete_testeth0" -> delete_testeth0_bs(h) [] t = "ethernet" -> ethernet_bs(h)
    [] t = "ifupdown" -> ifupdown_bs(h) [] t = "ifcfg-rh" -> ifcfg_rh_bs(h)
    [] t = "keyfile" -> keyfile_bs(h) [] t = "eth3_disconnect" -> eth3_disconnect_bs(h)
    [] t = "need_dispatcher_scripts" -> need_dispatcher_scripts_bs(h)
    [] t = "netservice" -> netservice_bs(h) [] t = "8021x" -> tag8021x_bs(h)
    [] t = "pkcs11" -> pkcs11_bs(h) [] t = "simwifi" -> simwifi_bs(h)
    [] t = "simwifi_ap" -> simwifi_ap_bs(h) [] t = "simwifi_p2p" -> simwifi_p2p_bs(h)
    [] t = "simwifi_teardown" -> simwifi_teardown_bs(h) [] t = "vpnc" -> vpnc_bs(h)
    [] t = "tcpreplay" -> tcpreplay_bs(h) [] t = "libreswan" -> libreswan_bs(h)
    [] t = "openvpn" -> openvpn_bs(h) [] t = "strongswan" -> strongswan_bs(h)
    [] t = "iptunnel" -> iptunnel_bs(h) [] t = "wireguard" -> wireguard_bs(h)
    [] t = "dracut" -> dracut_bs(h)
    [] t = "dump_status_verbose" -> dump_status_verbose_bs(h)
    [] t = "prepare_patched_netdevsim" -> prepare_patched_netdevsim_bs(h)
    [] t = "performance" -> performance_bs(h) [] t = "pptp" -> pptp_bs(h)
    [] t = "firewall" -> firewall_bs(h) [] t = "restore_hostname" -> restore_hostname_bs(h)
    [] t = "runonce" -> runonce_bs(h) [] t = "slow_team" -> slow_team_bs(h)
    [] t = "openvswitch" -> openvswitch_bs(h) [] t = "dpdk" -> dpdk_bs(h)
    [] t = "wireless_certs" -> wireless_certs_bs(h)
    [] t = "selinux_allow_ifup" -> selinux_allow_ifup_bs(h)
    [] t = "no_testeth10" -> no_testeth10_bs(h) [] t = "pppoe" -> pppoe_bs(h)
    [] t = "del_test1112_veths" -> del_test1112_veths_bs(h)
    [] t = "nmstate" -> nmstate_bs(h)
    [] t = "need_config_server" -> need_config_server_bs(h)
    [] t = "no_config_server" -> no_config_server_bs(h)
    [] t = "permissive" -> permissive_bs(h) [] t = "tcpdump" -> tcpdump_bs(h)
    [] t = "no_connections" -> no_connections_bs(h)
    [] t = "allow_veth_connections" -> allow_veth_connections_bs(h)
    [] t = "non_utf_device" -> non_utf_device_bs(h)
    [] t = "filter_batch" -> filter_batch_bs(h) [] t = "radius" -> radius_bs(h)
    [] t = "8021x_doc_procedure" -> tag8021x_doc_procedure_bs(h)
    [] t = "slow_dnsmasq" -> slow_dnsmasq_bs(h) [] t = "copy_ifcfg" -> copy_ifcfg_bs(h)
    [] t = "not_on_s390x" -> not_on_arch_bs(h, "s390x")
    [] t = "not_on_aarch64" -> not_on_arch_bs(h, "aarch64")
    [] t = "not_on_ppc64" -> not_on_arch_bs(h, "ppc64")
    [] t = "not_on_ppc64le" -> not_on_arch_bs(h, "ppc64le")
    [] t = "x86_64_only" -> arch_only_bs(h, "x86_64") [] OTHER -> <<>>

(* The tags with an after hook. *)
HasAfter ==
  {"gsm_sim", "regenerate_veth", "restart_if_needed", "many_vlans", "captive_portal", "gsm",
   "unmanage_eth", "manage_eth8", "connectivity", "reset_etc_hosts", "disp", "eth0",
   "alias", "scapy", "inf", "dsl", "dns_dnsmasq", "dns_default", "dns_systemd_resolved",
   "dns_dnsconfd", "attach_dnsconfd_log", "delete_testeth0", "eth3_disconnect",
   "need_dispatcher_scripts", "netservice", "8021x_teardown", "simwifi", "simwifi_ap",
   "simwifi_p2p", "vpnc", "libreswan", "openvpn", "strongswan", "vpn", "iptunnel", "dracut",
   "dracut_remote_NFS_clean", "prepare_patched_netdevsim", "attach_hostapd_log",
   "attach_wpa_supplicant_log", "performance", "pptp", "firewall", "restore_hostname",
   "runonce", "slow_team", "openvswitch", "dpdk_remove", "pppoe", "nmstate",
   "nmstate_setup", "need_config_server", "no_config_server", "permissive", "tcpdump",
   "no_connections", "wifi_rescan", "testeth7_disconnect", "checkpoint_remove",
   "kill_dhclient_custom", "networking_on", "allow_veth_connections",
   "con_ipv6_ifcfg_remove", "tuntap", "remove_tombed_connections", "flush_300",
   "stop_radvd", "dcb", "mtu", "dhcpd", "profie", "peers_ns", "tshark", "keyfile_cleanup",
   "remove_dns_clean", "restore_resolvconf", "remove_ifcfg_con_general",
   "restore_broken_network", "non_utf_device", "shutdown", "connect_testeth0",
   "filter_batch", "custom_ns", "radius", "8021x_doc_procedure", "slow_dnsmasq",
   "eth4_disconnect", "eth5_disconnect", "eth8_disconnect", "eth10_disconnect"}

After(t, h) ==
  CASE t = "gsm_sim" -> gsm_sim_as(h) [] t = "regenerate_veth" -> regenerate_veth_as(h)
    [] t = "restart_if_needed" -> restart_if_needed_as(h)
    [] t = "many_vlans" -> many_vlans_as(h) [] t = "captive_portal" -> captive_portal_as(h)
    [] t = "gsm" -> gsm_as(h) [] t = "unmanage_eth" -> unmanage_eth_as(h)
    [] t = "manage_eth8" -> manage_eth8_as(h) [] t = "connectivity" -> connectivity_as(h)
    [] t = "reset_etc_hosts" -> reset_etc_hosts_as(h) [] t = "disp" -> disp_as(h)
    [] t = "eth0" -> eth0_as(h) [] t = "alias" -> alias_as(h) [] t = "scapy" -> scapy_as(h)
    [] t = "inf" -> inf_as(h) [] t = "dsl" -> dsl_as(h)
    [] t = "dns_dnsmasq" -> dns_dnsmasq_as(h) [] t = "dns_default" -> dns_default_as(h)
    [] t = "dns_systemd_resolved" -> dns_systemd_resolved_as(h)
    [] t = "dns_dnsconfd" -> dns_dnsconfd_as(h)
    [] t = "attach_dnsconfd_log" -> attach_dnsconfd_log_as(h)
    [] t = "delete_testeth0" -> delete_testeth0_as(h)
    [] t = "eth3_disconnect" -> eth3_disconnect_as(h)
    [] t = "need_dispatcher_scripts" -> need_dispatcher_scripts_as(h)
    [] t = "netservice" -> netservice_as(h) [] t = "8021x_teardown" -> tag8021x_as(h)
    [] t = "simwifi" -> simwifi_as(h) [] t = "simwifi_ap" -> simwifi_ap_as(h)
    [] t = "simwifi_p2p" -> simwifi_p2p_as(h) [] t = "vpnc" -> vpnc_as(h)
    [] t = "libreswan" -> libreswan_as(h) [] t = "openvpn" -> openvpn_as(h)
    [] t = "strongswan" -> strongswan_as(h) [] t = "vpn" -> vpn_as(h)
    [] t = "iptunnel" -> iptunnel_as(h) [] t = "dracut" -> dracut_as(h)
    [] t = "dracut_remote_NFS_clean" -> dracut_remote_NFS_clean_as(h)
    [] t = "prepare_patched_netdevsim" -> prepare_patched_netdevsim_as(h)
    [] t = "attach_hostapd_log" -> attach_hostapd_log_as(h)
    [] t = "attach_wpa_supplicant_log" -> attach_wpa_supplicant_log_as(h)
    [] t = "performance" -> performance_as(h) [] t = "pptp" -> pptp_as(h)
    [] t = "firewall" -> firewall_as(h) [] t = "restore_hostname" -> restore_hostname_as(h)
    [] t = "runonce" -> runonce_as(h) [] t = "slow_team" -> slow_team_as(h)
    [] t = "openvswitch" -> openvswitch_as(h) [] t = "dpdk_remove" -> dpdk_remove_as(h)
    [] t = "pppoe" -> pppoe_as(h) [] t = "nmstate" -> nmstate_as(h)
    [] t = "nmstate_setup" -> nmstate_setup_as(h)
    [] t = "need_config_server" -> need_config_server_as(h)
    [] t = "no_config_server" -> no_config_server_as(h)
    [] t = "permissive" -> permissive_as(h) [] t = "tcpdump" -> tcpdump_as(h)
    [] t = "no_connections" -> no_connections_as(h)
    [] t = "wifi_rescan" -> wifi_rescan_as(h)
    [] t = "testeth7_disconnect" -> testeth7_disconnect_as(h)
    [] t = "checkpoint_remove" -> checkpoint_remove_as(h)
    [] t = "kill_dhclient_custom" -> kill_dhclient_custom_as(h)
    [] t = "networking_on" -> networking_on_as(h)
    [] t = "allow_veth_connections" -> allow_veth_connections_as(h)
    [] t = "con_ipv6_ifcfg_remove" -> con_ipv6_ifcfg_remove_as(h)
    [] t = "tuntap" -> tuntap_as(h)
    [] t = "remove_tombed_connections" -> remove_tombed_connections_as(h)
    [] t = "flush_300" -> flush_300_as(h) [] t = "stop_radvd" -> stop_radvd_as(h)
    [] t = "dcb" -> dcb_as(h) [] t = "mtu" -> mtu_as(h) [] t = "dhcpd" -> dhcpd_as(h)
    [] t = "profie" -> profie_as(h) [] t = "peers_ns" -> peers_ns_as(h)
    [] t = "tshark" -> tshark_as(h) [] t = "keyfile_cleanup" -> keyfile_cleanup_as(h)
    [] t = "remove_dns_clean" -> remove_dns_clean_as(h)
    [] t = "restore_resolvconf" -> restore_resolvconf_as(h)
    [] t = "remove_ifcfg_con_general" -> remove_ifcfg_con_general_as(h)
    [] t = "restore_broken_network" -> restore_broken_network_as(h)
    [] t = "non_utf_device" -> non_utf_device_as(h) [] t = "shutdown" -> shutdown_as(h)
    [] t = "connect_testeth0" -> connect_testeth0_as(h)
    [] t = "filter_batch" -> filter_batch_as(h) [] t = "custom_ns" -> custom_ns_as(h)
    [] t = "radius" -> radius_as(h)
    [] t = "8021x_doc_procedure" -> tag8021x_doc_procedure_as(h)
    [] t = "slow_dnsmasq" -> slow_dnsmasq_as(h)
    [] t = "eth4_disconnect" -> eth_disconnect_as(h, 4)
    [] t = "eth5_disconnect" -> eth_disconnect_as(h, 5)
    [] t = "eth8_disconnect" -> eth_disconnect_as(h, 8)
    [] t = "eth10_disconnect" -> eth_disconnect_as(h, 10)

(* Tag.before_scenario registers the after hook first, whatever becomes of *)
(* the before hook.                                                        *)
TagPriority(t) == IF t = "runonce" THEN -31 ELSE 10
TagEntry(t) == Entry(<<"tag", t>>, TagPriority(t), <<>>)
=============================================================================
