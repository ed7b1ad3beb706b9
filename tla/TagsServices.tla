---------------------------- MODULE TagsServices ----------------------------
(***************************************************************************)
(* Hooks of src/nmci/tags.py, second part: authenticators, VPN peers,      *)
(* dracut, firewall, host name, Open vSwitch and DPDK.                     *)
(***************************************************************************)
EXTENDS TagsNetwork

(* `kill $(pidof p)` and the like fail when there is nothing to kill. *)
Kill(h, p) == IF Is(h, Process(p)) THEN <<Drop(Process(p))>> ELSE <<Raise>>

OnX86(h, ops) == IF Fact(h, "x86_64") THEN ops ELSE <<Skip>>
NotOnS390(h) == When(Fact(h, "s390x"), <<Skip>>)

\* Authenticators.

tag8021x_bs(h) == When(~Is(h, File("nm_8021x_configured")), setup_hostapd(h))
tag8021x_as(h) == teardown_hostapd(h)
pkcs11_bs(h) == setup_pkcs11(h) \o <<Run>>

simwifi_bs(h) == OnX86(h, setup_hostapd_wireless(h))
simwifi_as(h) ==
  OnX86(h, When(Tagged(h, "nmtui"), <<Nmcli, TryDrop(Con("wifi")), WaitForTesteth0>>))

simwifi_ap_bs(h) ==
  OnX86(h, <<Drop(Module("mac80211_hwsim")), Note("noted wifi-hw_real", TRUE),
             Put(Module("mac80211_hwsim")), Restart("wpa_supplicant"), DoNM("restart")>>)
simwifi_ap_as(h) ==
  OnX86(h, <<NmDrop(Setting("radio off")), Drop(Module("mac80211_hwsim")),
             Restart("wpa_supplicant"), DoNM("restart")>>)

simwifi_p2p_bs(h) ==
  OnX86(h,
    When(Fact(h, "old rhel8"),
         <<Put(Package("patched wpa_supplicant")), Restart("wpa_supplicant")>>)
    \o <<Run>>
    \o When(Is(h, File("nm_wifi_supp_configured")), teardown_hostapd_wireless(h))
    \o <<Drop(Module("mac80211_hwsim")), Restart("wpa_supplicant")>>
    \o AddNMConfig("95-nmci-wifi", "restart")
    \o <<Put(Module("mac80211_hwsim")), Run>>)
(* The name the branch for old machines reads is the loop variable of the  *)
(* registration of the architecture tags, not the machine's.               *)
simwifi_p2p_as(h) ==
  OnX86(h,
    When(Fact(h, "old rhel8"),
         <<Put(Package("patched wpa_supplicant")), Restart("wpa_supplicant")>>)
    \o <<Drop(Module("mac80211_hwsim")), Drop(Process("wpa_supplicant wlan1"))>>)

simwifi_teardown_bs(h) == teardown_hostapd_wireless(h) \o <<WaitForTesteth0>>

wireless_certs_bs(h) == <<Put(Setting("wireless certificates"))>>

\* VPN peers.

(* The package manager is asked for "nstall": it refuses. *)
vpnc_bs(h) ==
  NotOnS390(h)
  \o <<Run>> \o When(~Is(h, Package("NetworkManager-vpnc")), <<Raise>>)
  \o setup_racoon(h)
vpnc_as(h) == <<TryDrop(Con("vpnc"))>> \o teardown_racoon(h)

tcpreplay_bs(h) == NotOnS390(h) \o <<WaitForTesteth0, Put(Package("tcpreplay"))>>

libreswan_bs(h) ==
  <<WaitForTesteth0, Run>>
  \o When(~Is(h, Package("NetworkManager-libreswan")),
          <<Put(Package("NetworkManager-libreswan")), DoNM("restart")>>)
  \o <<Run>> \o setup_libreswan(h)
libreswan_as(h) ==
  <<TryDrop(Active("libreswan")), TryDrop(Con("libreswan"))>>
  \o teardown_libreswan(h) \o <<WaitForTesteth0>>

openvpn_bs(h) == setup_openvpn(h) \o <<Note("ovpn_proc", TRUE)>>
openvpn_as(h) == <<Drop(Process("openvpn"))>>

strongswan_bs(h) == <<WaitForTesteth0>> \o setup_strongswan(h)
strongswan_as(h) ==
  <<TryDrop(Active("strongswan")), TryDrop(Con("strongswan"))>>
  \o teardown_strongswan(h) \o <<WaitForTesteth0>>

vpn_as(h) == <<TryDrop(Con("vpn"))>>

iptunnel_bs(h) == <<Drop(Module("xfrm_interface"))>> \o iptunnel_setup(h)
iptunnel_as(h) == iptunnel_teardown(h)

wireguard_bs(h) == <<Put(Module("wireguard"))>>

pptp_bs(h) ==
  NotOnS390(h)
  \o <<Put(Module("ppp_generic")), Drop(File("ppp-secrets")), Write(Setting("chap-secrets"))>>
  \o When(~Is(h, File("nm_pptp_configured")),
          <<Write(Setting("pptpd.conf")), Run, Restart("pptpd")>>
          \o Spawn("pppd") \o <<Write(File("nm_pptp_configured"))>>)
pptp_as(h) == <<TryDrop(Con("pptp"))>>

pppoe_bs(h) == When(Fact(h, "aarch64"), <<Put(Setting("selinux pppd"))>>)
pppoe_as(h) == Kill(h, "pppoe-server")

del_test1112_veths_bs(h) ==
  <<AddIface("test11"), AddUdevRule("99-veths"), Write(Rule("99-veths")), UdevUpdate>>

\* Dracut.

(* A set-up that fails is cleaned, and the flag makes the others skip. *)
dracut_bs(h) ==
  When(Is(h, File("dracut_setup_failed")) /\ ~Tagged(h, "dracut_setup"), <<Skip>>)
  \o <<Run>>
  \o When(Fact(h, "fedora") /\ ~Fact(h, "x86_64"), <<Skip>>)
  \o <<Run, Put(Setting("dracut testbed"))>>
  \o When(Fails(h, "dracut"),
          <<Drop(Setting("dracut testbed")), Put(File("dracut_setup_failed")), Raise>>)
dracut_as(h) ==
  When(~Is(h, File("dracut_setup_failed")),
       <<Run, Drop(Process("dracut qemu")), Drop(Setting("dracut files"))>>)

dracut_remote_NFS_clean_as(h) ==
  When(~Is(h, File("dracut_setup_failed")),
       <<Stop("nfs-server"), Drop(Setting("dracut NFS files")), Restart("nfs-server")>>)

dump_status_verbose_bs(h) == <<Note("dump_status_verbose", TRUE)>>

prepare_patched_netdevsim_bs(h) ==
  netdevsim_setup(h) \o <<Drop(Down("eth11")), Nmcli>>
prepare_patched_netdevsim_as(h) == netdevsim_teardown(h)

attach_hostapd_log_as(h) == When(Noted(h, "verbose"), <<Run>>)
attach_wpa_supplicant_log_as(h) == When(Noted(h, "verbose"), <<Run>>)

\* Performance, firewall, host name.

performance_bs(h) ==
  <<Note("machine_speed_factor", TRUE), Run>>
  \o When(Fact(h, "wsfd-netdev"), <<Skip>>)
  \o <<Restart("tuned"), Put(Setting("tuned profile")), Stop("tuned"), Stop("openvswitch"),
       DoNM("restart")>>
(* The profile is not put back: the command has no shell to expand it. *)
performance_as(h) ==
  <<Drop(Link("t-a")), TryDrop(Con("t-a")), Restart("tuned"), Run>>

firewall_bs(h) ==
  <<Run>>
  \o When(~Is(h, Package("firewalld")), <<WaitForTesteth0, Put(Package("firewalld"))>>)
  \o <<Run, Write(Setting("firewalld debug")), Run, Stop("firewalld"), Restart("firewalld"),
       Run, Put(Setting("firewall ports")), TryPut(Setting("testeth0 zone"))>>
(* firewall-cmd fails when firewalld does not run.                         *)
firewall_as(h) ==
  When(~Is(h, Service("firewalld")), <<Run, Raise>>)
  \o <<Drop(Setting("firewall panic")), Drop(Setting("firewall 51820")),
    Drop(Setting("firewall radius")), Drop(Setting("firewall masquerade")),
    Stop("firewalld")>>

restore_hostname_bs(h) == <<Run, Note("original_hostname", TRUE)>>
restore_hostname_as(h) ==
  <<Drop(Setting("hostnamed masked"))>>
  \o (IF Tagged(h, "nmtui") THEN <<Unlink(Setting("hostname"))>>
      ELSE <<Drop(Setting("transient hostname"))>>
           \o When(~Noted(h, "original_hostname"), <<Raise>>)
           \o <<Drop(Setting("hostname"))>>)
  \o <<WaitForTesteth0>>

(* Its after hook runs in front of the start of a stopped NetworkManager.  *)
runonce_bs(h) ==
  <<Stop("network"), TryDrop(Active("testeth0")), Drop(Process("dhclient")),
    Drop(Process("nm-iface-helper")), Stop("firewalld"), Note("nm_pid_refresh_count", TRUE)>>
runonce_as(h) ==
  <<Drop(Process("nm-iface-helper")), Drop(Conf("01-nmci-run-once")), DoNM("restart"),
    Drop(Process("nm-iface-helper")), TryDrop(Con("con_general")),
    TryDrop(Active("testeth10")), WaitForTesteth0>>

slow_team_bs(h) ==
  OnX86(h, <<Drop(Package("teamd")), Put(Package("slow_teamd"))>>
           \o When(Fails(h, "slow_team"),
                   <<Drop(Package("slow_teamd")), Put(Package("teamd")), Skip>>)
           \o <<DoNM("reload")>>)
slow_team_as(h) ==
  <<Drop(Package("slow_teamd")), Drop(Package("teamd")), Put(Package("teamd")), DoNM("reload")>>

\* Open vSwitch and DPDK.

openvswitch_bs(h) ==
  When(Fact(h, "s390x"), <<Skip>>)
  \o <<Put(Package("NetworkManager-ovs")), Run, Restart("openvswitch"), DoNM("restart")>>
(* Bridges are deleted while NetworkManager is stopped. *)
openvswitch_as(h) ==
  When(~Is(h, File("nm_dcb_inf_wol_sriov_configured")),
       <<Restart("openvswitch")>> \o StopNM
       \o <<Drop(Setting("ovs bridges")), Run, Stop("openvswitch"), DoNM("restart")>>)

(* The flag that makes dpdk_remove undo the set-up comes last. *)
dpdk_bs(h) ==
  When(~Is(h, File("nm_dpdk_configured")),
       <<Put(Setting("hugepages")), Put(Package("dpdk")), Put(Setting("openvswitch user")),
         Put(Setting("dpdk-init")), Put(Module("vfio-pci")), Put(Link("VFs")), Run,
         Put(Setting("VFs bound"))>>
       \o When(Fails(h, "dpdk"), <<Raise>>)
       \o <<Restart("openvswitch"), Write(File("nm_dpdk_configured"))>>)
  \o <<Run, Note("noted sriov_dev", TRUE)>>
dpdk_remove_as(h) ==
  When(Is(h, File("nm_dpdk_configured")),
       <<Stop("openvswitch"), Drop(Setting("VFs bound")), Drop(Link("VFs")),
         Unlink(File("nm_dpdk_configured"))>>)

selinux_allow_ifup_bs(h) == <<Run, Put(Setting("selinux ifup_policy"))>>
no_testeth10_bs(h) == <<TryDrop(Con("testeth10"))>>

nmstate_bs(h) == <<Drop(Package("nmstate")), Put(Package("nmstate"))>>
nmstate_as(h) == <<Drop(Setting("repro 1923248")), Drop(Setting("ovs bridges"))>>
nmstate_setup_as(h) == <<TryDrop(Con("cni-podman0")), TryDrop(Link("cni-podman0")), Run>>
=============================================================================
