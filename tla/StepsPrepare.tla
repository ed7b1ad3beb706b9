---------------------------- MODULE StepsPrepare ----------------------------
(***************************************************************************)
(* The steps of src/features/steps/prepare.py that change the machine: the *)
(* simulated devices, servers and namespaces of the scenarios.             *)
(*                                                                         *)
(* Every operator is the step of the same name, as the operations it       *)
(* performs on the machine h it finds.  d is the device it is about.       *)
(* Links inside a namespace go with it and are left out, as are addresses  *)
(* and routes.  A link in the root namespace whose other end is in a       *)
(* namespace has that namespace as its value and goes with it as well.     *)
(***************************************************************************)
EXTENDS SetupScripts

NsOf(d) == d \o "_ns"

(* ip.netns_add: one that is left over is deleted first. *)
netns_add(h, n) ==
  <<AddNamespace(n, TRUE)>> \o When(Is(h, Netns(n)), <<Drop(Netns(n))>>) \o <<Put(Netns(n))>>

(* The step `Create "..." device named ...`: in a namespace or not, the     *)
(* cleanup is for the name in the root namespace.                          *)
add_device(d, other) == <<AddIface(d), Run, Set(Link(d), other)>>

(* A device created in its namespace and moved out of it. *)
SimulatedPair(h, d) ==
  manage_device(h, d) \o netns_add(h, NsOf(d)) \o add_device(d, NsOf(d))

(* `nmcli connection modify` *)
Modify(h, c) == When(~Is(h, Con(c)), <<Raise>>) \o <<NmPut(Changes(c))>>

create_policy_based_routing_files(h, c) ==
  <<Nmcli, Put(Changes(c)), DoNM("restart")>>

config_dhcp(h) == <<Write(File("dhcpd.conf"))>>

config_dhcpv6_pd(h) ==
  <<Put(File("radvd-pd.conf")), Put(File("dhcpd-pd.conf")), Write(File("ip6leases.conf"))>>
  \o Spawn("radvd") \o Spawn("dhcpd")

prepare_connection(h) == Modify(h, "dcb")

(* The configuration is written before anything is registered. *)
prepare_sriov_config(h, conf) ==
  <<Write(Conf(conf)), DoNM("reload"),
    Callback(50, <<Drop(Setting("VFs"))>>), Callback(60, <<Drop(Conf(conf))>>),
    Callback(65, <<Drop(Setting("VF drivers"))>>), Callback(70, <<DoNM("reload")>>)>>

pbr_doc_proc(h) ==
  LET simulated(d) == SimulatedPair(h, d) \o <<Run>>
  IN  Each(<<"provA", "provB", "servers", "int_work">>, simulated)
      \o <<AddNamespace("internet", FALSE), Put(Netns("internet")), AddIface("defA"),
           AddIface("defB"), AddIface("br0")>>
      \o Every(<<"bridge", "links", "addresses", "routes">>, LAMBDA x : Run)

prepare_pppoe_server(h) ==
  <<Write(Setting("pppoe-server-options")), Write(Setting("chap-secrets")),
    Write(Setting("allip"))>>

(* The pairs of a bridge are entirely in the root namespace. *)
prepare_veths(h, pairs, bridge) ==
  add_device(bridge, "there") \o <<Run>>
  \o Each(pairs, LAMBDA d :
            manage_device(h, d) \o add_device(d, "there") \o <<Set(Link(d \o "p"), d)>>
            \o <<AddIface(d \o "p"), AddConnection(d \o "p"), AddConnection(bridge), Run>>)

start_radvd(h) == <<Drop(File("radvd.conf")), Put(File("radvd.conf")), Restart("radvd")>>

restart_dhcp_server(h, d) == <<Drop(Process("dnsmasq " \o d)), Run>> \o Spawn("dnsmasq " \o d)

(* start_dnsmasq and the services of this file log to files of their own. *)
WithFiles(p, ops) ==
  ops \o <<Callback(0, <<Run>>), AddFile(p \o ".log"), AddFile(p \o ".pid"),
           Put(File(p \o ".log")), Put(File(p \o ".pid"))>>

clat_prepare(h, d, tunnel) ==
  SimulatedPair(h, d) \o <<Run>>
  \o When(~tunnel, WithFiles("dnsmasq_clat", Spawn("dnsmasq_clat")))
  \o netns_add(h, d \o "_ns2") \o <<AddIface(d \o "2"), Run>>
  \o <<Put(File("radvd-clat.conf"))>> \o Spawn("radvd-clat")
  \o <<Put(File("tayga-clat.conf")), Run>> \o Spawn("tayga")

clat_start_servers(h, d) ==
  <<Run, Write(File("clat-data"))>> \o Spawn("http.server") \o Spawn("socat")

clat_verify(h, d) == <<Run>> \o When(~Is(h, Process("socat")), <<Raise>>)
clat_verify_nondefault(h, d) == <<Run>> \o When(~Is(h, Link(d)), <<Raise>>)

(* The server is a daemon: it ends with its namespace's teardown. *)
prepare_dhcpd_simdev(h, d) ==
  SimulatedPair(h, d)
  \o <<Run, Write(Setting("/etc/hosts")), Write(File("dhcpd.conf")), Put(Process(NsOf(d)))>>

(* `Prepare simulated test device`: its server runs under the pid file the *)
(* namespace's teardown looks for, and is a registered service as well.    *)
prepare_simdev(h, d) ==
  SimulatedPair(h, d)
  \o <<Run, Write(Setting("/etc/hosts")), AddFile(NsOf(d) \o ".pid"),
       AddFile(NsOf(d) \o ".lease"), Put(File(NsOf(d) \o ".pid")),
       Put(File(NsOf(d) \o ".lease"))>>
  \o Spawn(NsOf(d)) \o <<Run>> \o When(Is(h, NetworkManager), <<Nmcli>>)

(* The relay is another daemon, whose pid file has a name of its own. *)
prepare_simdev_different_network(h, d) ==
  manage_device(h, d) \o netns_add(h, NsOf(d)) \o netns_add(h, NsOf(d \o "2"))
  \o add_device(d, NsOf(d)) \o <<AddIface(d \o "2"), Run, Put(Process("dhcrelay"))>>
  \o Spawn("dnsmasq_relay")

prepare_simdev_no_dhcp(h, d) == SimulatedPair(h, d) \o <<Run>>

prepare_simdev_pmtu(h, d) ==
  manage_device(h, d) \o netns_add(h, NsOf(d)) \o netns_add(h, NsOf(d \o "2"))
  \o add_device(d, NsOf(d)) \o <<AddIface(d \o "2"), Run>>
  \o Spawn("dnsmasq_ra") \o <<Run>> \o Spawn("ncat")

(* These two register nothing for the device: it goes with its namespace. *)
prepare_simdev_no_carrier(h, d) ==
  manage_device(h, d) \o netns_add(h, NsOf(d)) \o <<Run>> \o Spawn("dnsmasq_bridge")
  \o <<Set(Link(d), NsOf(d))>>
prepare_bridged(h, d, namespaces) ==
  netns_add(h, NsOf(d)) \o <<Set(Link(d), NsOf(d)), Run>>
  \o Each(namespaces, LAMBDA n : netns_add(h, n) \o <<Run>>)

start_pppoe_server(h) == <<Run>> \o Spawn("pppoe-server")
start_pppoe_server_ns(h, d) == prepare_simdev(h, d) \o Spawn("pppoe-server")

(* The supplicant is killed by its pid file, which fails if it has ended. *)
setup_macsec_psk(h) ==
  manage_device(h, "macsec_veth") \o <<Put(Module("macsec"))>> \o netns_add(h, "macsec_ns")
  \o add_device("macsec_veth", "macsec_ns")
  \o <<Write(File("wpa_supplicant.conf")), Put(Process("wpa_supplicant_ms")),
       Callback(0, <<Drop(Process("wpa_supplicant_ms"))>>), Run, Nmcli>>
  \o Spawn("dnsmasq_macsec")

set_default_dcb(h) == Modify(h, "dcb")

prepare_iptunnel_doc(h) ==
  prepare_simdev_no_dhcp(h, "netA") \o prepare_simdev_no_dhcp(h, "netB")
  \o netns_add(h, "iptunnelB") \o <<Run>> \o add_device("ipA", "iptunnelB") \o <<Run, Run>>

(* The same setting is registered twice: before and after it is changed.   *)
(* The other cleanups know no namespace.                                   *)
mptcp(h, veths) ==
  <<AddSysctls(h, "net.mptcp.enabled"), AddNMService("restart"),
    Put(Setting("net.mptcp.enabled")), Run, DoNM("restart")>>
  \o netns_add(h, "mptcp")
  \o <<AddSysctls(h, "rp_filter"),
       AddSysctls(Changed(h, Setting("net.mptcp.enabled"), "there"), "net.mptcp.enabled"),
       AddMptcpLimits(h), AddMptcpEndpoints(h), Run>>
  \o Each(veths, LAMBDA d : <<AddIface(d), Set(Link(d), "mptcp"), Run>>)
  \o <<Unlink(File("nmci-mptcp-ncat"))>> \o Spawn("tcpdump") \o Spawn("ncat")

lims(h, lim) == <<AddMptcpLimits(h), Set(Setting("mptcp limits"), lim)>>

(* The container is taken down by the end of the script that set it up. *)
libreswan_ng_setup(h) ==
  <<WaitForTesteth0>> \o When(Fact(h, "old rhel9"), <<Skip>>)
  \o <<NmPut(Setting("logging")), Put(File("nmstate clone"))>> \o Spawn("ipsec_setup")
  \o <<Callback(0, <<Drop(Process("ipsec_setup")), Drop(Link("hosta_nic"))>>),
       Put(Link("hosta_nic")), Run>>
=============================================================================
