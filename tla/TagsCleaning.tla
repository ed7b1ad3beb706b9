---------------------------- MODULE TagsCleaning ----------------------------
(***************************************************************************)
(* Hooks of src/nmci/tags.py, third part: configuration packages, profiles *)
(* and devices of single features, resolv.conf, RADIUS.                    *)
(***************************************************************************)
EXTENDS TagsServices

ConfigServer == Package("NetworkManager-config-server")
ServerConf   == "00-server"

\* Configuration packages, SELinux, traffic logs.

(* Mistaken variant: what is not to be removed is not noted.               *)
NotedWhenInstalled(h) ==
  <<Run>>
  \o When(~Is(h, ConfigServer),
          <<Put(ConfigServer), Write(Conf(ServerConf)), DoNM("reload"),
            Note("remove_config_server", TRUE)>>)

need_config_server_bs(h) ==
  <<Run>>
  \o IF Is(h, ConfigServer) THEN <<Note("remove_config_server", FALSE)>>
     ELSE <<Put(ConfigServer), Write(Conf(ServerConf)), DoNM("reload"),
            Note("remove_config_server", TRUE)>>
need_config_server_as(h) ==
  IF ~Noted(h, "remove_config_server") THEN <<Raise>>
  ELSE When(h.notes.remove_config_server,
            <<Drop(ConfigServer), Unlink(Conf(ServerConf)), AddNMService("restart")>>)

(* The files of the package move aside and come back. *)
Unlocked(h, ops) ==
  When(Fact(h, "image mode"), <<Put(Setting("usr writable"))>>) \o ops
  \o When(Fact(h, "image mode"), <<Drop(Setting("usr writable"))>>)

no_config_server_bs(h) ==
  <<Note("restore_config_server", FALSE), Run>>
  \o When(Is(h, ConfigServer),
          <<Note("restore_config_server", TRUE)>>
          \o Unlocked(h, <<Run>> \o When(Is(h, Conf(ServerConf)),
                                         <<Drop(Conf(ServerConf)), DoNM("reload")>>)))
no_config_server_as(h) ==
  When(h.notes.restore_config_server,
       Unlocked(h, <<Run, Put(Conf(ServerConf)), AddNMService("restart")>>))
  \o <<Nmcli, ClearBut("nmcli", "con", TestbedProfiles)>>

permissive_bs(h) ==
  <<Note("enforcing", FALSE), Run>>
  \o When(Fact(h, "selinux enforcing"), <<Note("enforcing", TRUE), Put(Setting("permissive"))>>)
permissive_as(h) == When(h.notes.enforcing, <<Drop(Setting("permissive"))>>)

tcpdump_bs(h) == <<Write(File("network-traffic.log"))>> \o Spawn("tcpdump")
tcpdump_as(h) ==
  <<Run>> \o When(~Is(h, File("network-traffic.log")), <<Raise>>) \o <<Drop(Process("tcpdump"))>>

\* Profiles and devices.

no_connections_bs(h) == <<ClearBut("nmcli", "con", {})>>
no_connections_as(h) ==
  When(Tagged(h, "nmtui"), restore_connections(h) \o <<WaitForTesteth0>>)

wifi_rescan_as(h) == When(Tagged(h, "nmtui"), <<DoNM("restart"), Nmcli>>)

testeth7_disconnect_as(h) ==
  <<Nmcli>> \o When(Is(h, Active("testeth7")), <<NmDrop(Active("testeth7"))>>)

checkpoint_remove_as(h) == <<NmDrop(Setting("checkpoint"))>>

kill_dhclient_custom_as(h) ==
  <<Drop(Process("dhclient_custom")), Drop(File("dhclient_custom.pid"))>>

networking_on_as(h) == <<NmDrop(Setting("networking off")), WaitForTesteth0>>

(* The rule is not registered: the after hook takes it away. *)
allow_veth_connections_bs(h) ==
  <<Write(Rule("99-veths")), UdevUpdate, Run>>
  \o AddNMConfigAt("95-nmci-unmanaged", 10, "reload")
allow_veth_connections_as(h) ==
  <<Drop(Rule("99-veths")), UdevUpdate, Nmcli, ClearBut("nmcli", "active", {"testeth0"})>>
  \o When(Is(h, Con("Wired connection")), <<NmDrop(Con("Wired connection"))>>)

con_ipv6_ifcfg_remove_as(h) == <<Drop(File("ifcfg-con_ipv6")), Nmcli>>

(* `ip link del` and `ip netns del` fail when there is nothing to delete. *)
Delete(h, r) == IF Is(h, r) THEN <<Drop(r)>> ELSE <<Raise>>

tuntap_as(h) == Delete(h, Link("tap0"))

remove_tombed_connections_as(h) ==
  When(Is(h, File("con_general.nmmeta")),
       <<Drop(File("con_general.nmmeta")), Nmcli, NmDrop(Con("con_general"))>>)

flush_300_as(h) == <<Drop(Setting("route table 300"))>>
stop_radvd_as(h) == <<Stop("radvd"), Drop(File("radvd.conf"))>>
dcb_as(h) == <<TryDrop(Con("dcb"))>>

mtu_as(h) ==
  <<NmPut(Setting("mtu of testeth1")), NmPut(Active("testeth1")),
    NmDrop(Setting("mtu of testeth1")), NmDrop(Active("testeth1"))>>
  \o Every(<<"eth1", "eth2", "eth3">>, LAMBDA d : Drop(Setting("mtu " \o d)))
  \o Every(<<"tc1", "tc2", "tc16", "tc26">>, LAMBDA c : TryDrop(Con(c)))
  \o Every(<<"test1", "test2", "test10", "test11", "vethbr", "vethbr6">>,
           LAMBDA d : Drop(Link(d)))
  \o <<Drop(Process("dnsmasq 192.168"))>>

dhcpd_as(h) == <<Stop("dhcpd")>>
profie_as(h) == <<TryDrop(Con("profie"))>>
peers_ns_as(h) == Delete(h, Netns("peers"))
tshark_as(h) ==
  <<Unlink(File("tshark.log")), Drop(Process("tshark")), Drop(File("dhclient-eth.conf"))>>

keyfile_cleanup_as(h) ==
  <<Drop(File("system-connections"))>> \o restore_connections(h) \o <<WaitForTesteth0>>

\* Name servers and network state.

remove_dns_clean_as(h) ==
  <<Run, Drop(Setting("dns=none")), Drop(Conf("90-nmci-test-dns-none")), DoNM("reload")>>

restore_resolvconf_as(h) ==
  <<Drop(Setting("resolv.conf")), Run, Drop(File("resolv-nmci-orig.conf")),
    Drop(File("resolv-nmci-scratch.conf")), DoNM("reload"), WaitForTesteth0>>

remove_ifcfg_con_general_as(h) ==
  Delete(h, Link("eth8.100")) \o <<Drop(File("ifcfg-con_general")), Nmcli>>

restore_broken_network_as(h) ==
  <<Stop("network")>> \o StopNM
  \o <<Drop(Setting("accept_ra")), DoNM("restart"), TryDrop(Active("testeth8")),
       TryDrop(Active("testeth9"))>>

eth_disconnect_as(h, num) ==
  LET c == "testeth" \o ToString(num)
  IN  <<TryDrop(Active(c)), NmPut(Active(c)), NmDrop(Active(c))>>

non_utf_device_bs(h) ==
  <<Put(Rule("80-net-setup-link")), UdevUpdate, Put(Link("nonutf"))>>
non_utf_device_as(h) ==
  Delete(h, Link("nonutf")) \o <<Drop(Rule("80-net-setup-link")), UdevUpdate>>

shutdown_as(h) == <<Drop(Address("eth8")), Run>>
connect_testeth0_as(h) == <<WaitForTesteth0>>

filter_batch_bs(h) == <<Write(File("filter_batch.txt"))>>
filter_batch_as(h) == Delete(h, File("filter_batch.txt"))
custom_ns_as(h) == When(Noted(h, "cleanup_ns"), Delete(h, Netns("custom")))

\* RADIUS, slow servers, migrated profiles.

radius_bs(h) ==
  <<Run, Stop("radiusd"), Run>>
  \o (IF Is(h, File("nmci_raddb_configured")) THEN <<Put(Setting("raddb"))>>
      ELSE <<Put(Setting("raddb"))>> \o When(Fails(h, "radius"), <<Raise>>)
           \o <<Write(File("nmci_raddb_configured"))>>)
  \o <<Run, Put(Service("nm-radiusd"))>>
radius_as(h) == <<Stop("nm-radiusd")>>

tag8021x_doc_procedure_bs(h) ==
  When(~Is(h, Setting("raddb")), <<Raise>>)
  \o <<Write(Setting("8021x certificates")), Put(Package("hostapd")),
       Write(Setting("hostapd arguments"))>>
tag8021x_doc_procedure_as(h) ==
  <<Stop("802-1x-tr-mgmt"), Stop("hostapd"), Drop(File("802-1x-tr-mgmt")),
    Unlink(File("hostapd.conf")), Run, Drop(Address("eth4"))>>

(* The slow server takes the place of dnsmasq in a step of the scenario. *)
slow_dnsmasq_bs(h) ==
  When(Fact(h, "image mode"), <<Put(Setting("usr writable"))>>)
  \o <<Run, Write(File("dnsmasq.slow")), Run>>
slow_dnsmasq_as(h) ==
  <<Run, Drop(Setting("dnsmasq replaced")), Unlink(File("dnsmasq.slow")), Run>>
  \o When(Fact(h, "image mode"), <<Drop(Setting("usr writable"))>>)

Migrated ==
  <<"bond", "bond-port1", "bridge", "bridge-port1", "dns", "team", "team-port1", "team-port2",
    "wifi">>
copy_ifcfg_bs(h) ==
  Each(Migrated, LAMBDA c : <<AddConnection(c), AddIface(c), Put(Con(c))>>)
=============================================================================
