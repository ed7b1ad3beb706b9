----------------------------- MODULE TagsNetwork -----------------------------
(***************************************************************************)
(* Hooks of src/nmci/tags.py, first part: what to skip, the testbed's own  *)
(* connections, name servers, settings plugins and services.               *)
(*                                                                         *)
(* Every operator is the hook of the same name and yields the operations   *)
(* it performs on the machine h it finds.  _bs runs before, _as after the  *)
(* scenario.  Waiting, embedding and logging are left out.                 *)
(***************************************************************************)
EXTENDS SetupScripts

\* Skips.

fail_bs(h) == <<Raise>>
temporary_skip_bs(h) == <<Skip>>

skip_restarts_bs(h) ==
  When(Is(h, File("nm_skip_restarts")) \/ Is(h, File("nm_skip_STR")), <<Skip>>)

long_bs(h) == When(Is(h, File("nm_skip_long")), <<Skip>>)
skip_in_centos_bs(h) == When(Fact(h, "CentOS"), <<Skip>>)

(* The test of the hypervisor is always true: the hook skips wherever the  *)
(* machine is not an x86_64, virtual or not.                               *)
skip_in_kvm_bs(h) == <<Run>> \o When(~Fact(h, "x86_64"), <<Skip>>)

arch_only_bs(h, arch) == When(~Fact(h, arch), <<Skip>>)
not_on_arch_bs(h, arch) == When(Fact(h, arch), <<Skip>>)

not_on_aarch64_but_pegas_bs(h) ==
  <<Run>> \o When(Fact(h, "aarch64") /\ Fact(h, "pegas"), <<Skip>>)

not_in_image_mode_bs(h) == When(Fact(h, "image mode"), <<Skip>>)
crash_bs(h) ==
  <<Note("crash_upload", FALSE), Run>> \o When(Is(h, Service("abrt")), <<Skip>>)

not_with_systemd_resolved_bs(h) ==
  <<Run>> \o When(Is(h, Service("systemd-resolved")), <<Skip>>)

not_under_internal_DHCP_bs(h) ==
  <<Run>> \o When(~Fact(h, "dhclient"), <<Skip>>)

not_on_veth_bs(h) == When(Is(h, File("nm_veth_configured")), <<Skip>>)
not_when_no_veths_bs(h) == When(~Is(h, File("nm_veth_configured")), <<Skip>>)

\* Modems and portals.

gsm_sim_bs(h) ==
  When(~Fact(h, "x86_64"), <<Skip>>)
  \o When(~Is(h, Service("ModemManager")),
          <<Put(Setting("selinux ModemManager")), Restart("ModemManager"), DoNM("restart")>>)
  \o <<Put(Module("ppp_generic"))>> \o Spawn("gsm_sim")

gsm_sim_as(h) ==
  <<TryDrop(Active("gsm")), Drop(Process("gsm_sim")), TryDrop(Con("gsm"))>>

captive_portal_bs(h) == Spawn("captive_portal")
captive_portal_as(h) == <<Drop(Process("captive_portal"))>>

gsm_bs(h) ==
  When(~Is(h, Service("ModemManager")), <<Restart("ModemManager")>>)
  \o <<Put(Setting("mmcli debug")), NmPut(Setting("logging")), Run,
       Note("modem_str", TRUE), TryDrop(Active("testeth0"))>>

(* The modem's name is read after the uplink has been waited for. *)
gsm_as(h) ==
  <<TryDrop(Con("gsm")), Drop(Con("gsm")), WaitForTesteth0>>
  \o When(~Noted(h, "modem_str"), <<Raise>>)

\* The testbed's devices and connections.

regenerate_veth_as(h) ==
  IF Is(h, File("nm_veth_configured")) THEN check_vethsetup(h)
  ELSE Every(EthN, LAMBDA d : Drop(Down(d)))

restart_if_needed_as(h) ==
  When(~Is(h, NetworkManager), <<DoNM("restart")>>)
  \o When(~Is(h, File("nm_dcb_inf_wol_sriov_configured")) /\ ~Fact(h, "container"),
          <<WaitForTesteth0>>)

many_vlans_bs(h) == manage_veths(h) \o vlans_clean(h)
many_vlans_as(h) == unmanage_veths(h)

unmanage_eth_bs(h) == Every(EthN, LAMBDA d : NmPut(Setting("unmanaged " \o d)))
unmanage_eth_as(h) == Every(EthN, LAMBDA d : NmDrop(Setting("unmanaged " \o d)))
manage_eth8_as(h) == <<NmDrop(Setting("unmanaged eth8"))>>

disp_as(h) == <<TryDrop(Active("testeth1")), TryDrop(Active("testeth2"))>>

eth0_bs(h) ==
  skip_restarts_bs(h)
  \o <<NmPut(Setting("testeth0")), NmDrop(Active("testeth0")),
       TryDrop(Active("testeth1")), TryDrop(Active("testeth2"))>>
eth0_as(h) == <<NmDrop(Setting("testeth0")), WaitForTesteth0>>

alias_bs(h) == <<NmPut(Active("testeth7")), TryDrop(Con("eth7"))>>
alias_as(h) ==
  <<TryDrop(Con("eth7")), Drop(File("ifcfg-eth7:0")), Drop(File("ifcfg-eth7:1")),
    Drop(File("ifcfg-eth7:2")), Nmcli, TryDrop(Active("testeth7"))>>

scapy_as(h) ==
  <<Drop(Link("test10")), Drop(Link("test11")), TryDrop(Con("ethernet-test10")),
    TryDrop(Con("ethernet-test11"))>>

Infiniband == <<"inf", "inf2", "infiniband", "inf.8002">>
inf_bs(h) ==
  Every(Infiniband, LAMBDA c : TryDrop(Active(c)))
  \o Every(Infiniband, LAMBDA c : TryDrop(Con(c)))
inf_as(h) ==
  IF Tagged(h, "nmtui") THEN <<TryDrop(Con("infiniband0"))>>
  ELSE <<NmPut(Active("lom_1"))>> \o Every(Infiniband, LAMBDA c : TryDrop(Con(c)))

dsl_as(h) == When(Tagged(h, "nmtui"), <<TryDrop(Con("dsl0"))>>)

delete_testeth0_bs(h) ==
  skip_restarts_bs(h) \o <<NmDrop(Active("testeth0")), NmDrop(Con("testeth0"))>>
delete_testeth0_as(h) == <<TryDrop(Con("eth0"))>> \o restore_testeth0(h)

ethernet_bs(h) ==
  <<Nmcli>>
  \o When(Is(h, Con("testeth1")) \/ Is(h, Con("testeth2")),
          <<TryDrop(Con("testeth1")), TryDrop(Con("testeth2")),
            NmPut(Con("testeth1")), NmPut(Con("testeth2"))>>)

(* The device goes up and down once, so that it autoconnects again. *)
eth3_disconnect_bs(h) == <<TryDrop(Active("testeth3")), Drop(Process("dhclient-eth3"))>>
eth3_disconnect_as(h) ==
  <<TryDrop(Active("testeth3")), NmPut(Active("testeth3")), NmDrop(Active("testeth3"))>>

\* Connectivity checks and name servers.

(* The configuration goes before the tag's own hook runs. *)
connectivity_bs(h) == AddNMConfigAt("95-nmci-connectivity", 9, "reload")
reset_etc_hosts_as(h) == <<Drop(Setting("/etc/hosts"))>>
connectivity_as(h) == <<Drop(File("NetworkManager-intern.conf"))>> \o reset_etc_hosts_as(h)

logging_info_only_bs(h) ==
  AddNMConfigCalling("96-nmci-logging", 10, <<DoNM("restart")>>)

unload_kernel_modules_bs(h) == <<Drop(Module("qmi_wwan")), Drop(Module("cdc-mbim"))>>

(* systemd-resolved leaves /etc/resolv.conf, and comes back to it. *)
ResolvedOff(h, stop) ==
  <<Run>>
  \o IF Is(h, Service("systemd-resolved"))
     THEN <<Note("systemd_resolved", TRUE)>> \o stop \o <<Put(Setting("resolv.conf"))>>
     ELSE <<Note("systemd_resolved", FALSE)>>

ResolvedBack(h) ==
  IF ~Noted(h, "systemd_resolved") THEN <<Raise>>
  ELSE When(h.notes.systemd_resolved,
            <<Drop(Setting("resolved masked")), Restart("systemd-resolved"),
              Drop(Setting("resolv.conf"))>>)

dns_dnsmasq_bs(h) ==
  ResolvedOff(h, <<Stop("systemd-resolved")>>)
  \o AddNMConfig("96-nmci-test-dns", "restart") \o <<Note("dns_plugin", TRUE)>>
dns_dnsmasq_as(h) == <<Note("dns_plugin", FALSE)>> \o ResolvedBack(h)

dns_default_bs(h) ==
  ResolvedOff(h, <<Put(Setting("resolved masked")), Stop("systemd-resolved")>>)
  \o AddNMConfig("96-nmci-test-dns", "reload")
dns_default_as(h) == <<Note("dns_plugin", FALSE)>> \o ResolvedBack(h)

dns_systemd_resolved_bs(h) ==
  <<Note("systemd_resolved", TRUE), Run>>
  \o When(~Is(h, Service("systemd-resolved")),
          <<Note("systemd_resolved", FALSE)>>
          \o (IF Fails(h, "systemd-resolved") THEN <<Run, Run, Skip>>
              ELSE <<Restart("systemd-resolved"), Run>>))
  \o <<Run, Write(File("resolved.conf.d/nmci.conf")), Restart("systemd-resolved")>>
  \o AddNMConfig("96-nmci-test-dns", "reload") \o <<Note("dns_plugin", TRUE)>>
dns_systemd_resolved_as(h) ==
  <<Unlink(File("resolved.conf.d/nmci.conf"))>>
  \o (IF ~Noted(h, "systemd_resolved") THEN <<Raise>>
      ELSE IF h.notes.systemd_resolved THEN <<Restart("systemd-resolved")>>
      ELSE <<Stop("systemd-resolved")>>)
  \o <<Note("dns_plugin", FALSE)>>

dns_dnsconfd_bs(h) ==
  ResolvedOff(h, <<Stop("systemd-resolved")>>) \o <<Run>>
  \o (IF Is(h, Service("dnsconfd")) THEN <<Note("dnsconfd", TRUE)>>
      ELSE <<Put(Setting("dnsconfd config")), Put(Setting("dnsconfd enabled")),
             Restart("dnsconfd"), Note("dnsconfd", FALSE)>>)
  \o <<Note("dns_plugin", TRUE)>>
dns_dnsconfd_as(h) ==
  <<Note("dns_plugin", FALSE), Run>>
  \o (IF ~Noted(h, "dnsconfd") THEN <<Raise>>
      ELSE When(~h.notes.dnsconfd,
                <<Drop(Setting("dnsconfd config")), Drop(Setting("dnsconfd enabled")),
                  Stop("dnsconfd"), Run>>))
  \o ResolvedBack(h)

attach_dnsconfd_log_as(h) == <<Run>>

\* DHCP clients, settings plugins, services.

(* Machines without ifcfg files and dhclient. *)
Newer(h) == Fact(h, "fedora") \/ Fact(h, "rhel10")

internal_DHCP_bs(h) == AddNMConfig("96-nmci-dhcp-internal", "restart")
dhclient_DHCP_bs(h) ==
  When(Newer(h), <<Skip>>) \o AddNMConfig("96-nmci-dhcp-dhclient", "restart")

InstallUpdown(h) == <<Run, Put(Package("NetworkManager-initscripts-updown"))>>
ifupdown_bs(h) == When(Newer(h), <<Skip>>) \o InstallUpdown(h)

ifcfg_rh_bs(h) ==
  When(Newer(h), <<Skip>>)
  \o InstallUpdown(h)
  \o When(~Fact(h, "ifcfg plugin"), AddNMConfigCalling("96-nmci-custom", 70, <<DoNM("restart")>>))

keyfile_bs(h) ==
  When(~Newer(h), InstallUpdown(h))
  \o When(~Fact(h, "keyfile plugin"),
          AddNMConfigCalling("96-nmci-custom", 70, <<DoNM("restart")>>))

need_dispatcher_scripts_bs(h) ==
  When(~Newer(h), <<Put(Package("config-routing-rules")), DoNM("reload")>>)
need_dispatcher_scripts_as(h) ==
  When(~Newer(h),
       <<WaitForTesteth0, Drop(Package("config-routing-rules")),
         Drop(File("rule-con_general")), Drop(File("route-con_general")),
         Drop(Setting("rule table 1")), Drop(Setting("rule table 1")), DoNM("reload")>>)

netservice_bs(h) ==
  <<Drop(Process("dhclient")), Nmcli, TryPut(Setting("unmanaged orig")), DoNM("restart"),
    Restart("network"), WaitForTesteth0>>
netservice_as(h) == <<Run>>
=============================================================================
