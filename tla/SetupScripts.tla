---------------------------- MODULE SetupScripts ----------------------------
(***************************************************************************)
(* What the shell scripts of src/prepare and their Python callers in       *)
(* src/nmci/prepare.py and src/nmci/veth.py set up and take down.          *)
(*                                                                         *)
(* Every operator is the function of the same name.  A script that has     *)
(* `set -e` ends at a refused nmcli call, one that has not goes on.        *)
(* Addresses, routes and certificates are left out; packages and kernel    *)
(* modules stay where nothing takes them back.                             *)
(***************************************************************************)
EXTENDS Host

(* A script that fails after it has done ops: the machine is one on which  *)
(* the set-up of that name does not work.                                  *)
Fails(h, name) == Fact(h, name \o " fails")

\* Network namespaces with VPN peers.

libreswan_teardown(h) ==
  <<Drop(Process("pluto")), Drop(Netns("libreswan")), Drop(Link("libreswan1"))>>
  \o When(Is(h, Con("lib1")), <<TryDrop(Con("lib1"))>>)

(* An intact set-up is kept, anything else is taken down first. *)
libreswan_check_netconfig(h) ==
  Is(h, Netns("libreswan")) /\ Is(h, Link("libreswan1")) /\ Is(h, Active("lib1"))
libreswan_gen_netconfig(h) ==
  When(~libreswan_check_netconfig(h),
       libreswan_teardown(h)
       \o <<Put(Netns("libreswan")), Put(Link("libreswan1")), NmPut(Con("lib1")),
            NmPut(Active("lib1"))>>)
libreswan_setup(h) ==
  libreswan_gen_netconfig(h) \o <<Put(Module("af_key")), Put(Process("pluto"))>>

strongswan_setup(h) ==
  <<Put(Setting("selinux strongswan")), Put(Netns("strongswan")), Put(Link("strongswan1")),
    NmPut(Con("str1")), NmPut(Active("str1")), Put(Module("af_key")),
    Put(Process("strongswan"))>>
strongswan_teardown(h) ==
  <<Drop(Process("strongswan")), Drop(Netns("strongswan")), Drop(Link("strongswan1")),
    TryDrop(Con("str1")), Drop(Process("charon-nm")), Drop(Module("ip_vti"))>>

racoon_setup(h) ==
  <<Put(Setting("user budulinek")), Put(Netns("racoon")), Put(Link("racoon1")),
    Put(Process("racoon dnsmasq")), NmPut(Con("rac1")), NmPut(Active("rac1")),
    Put(Service("nm-racoon"))>>
racoon_teardown(h) ==
  <<Drop(Setting("user budulinek")), Stop("nm-racoon"), Drop(Netns("racoon")),
    Drop(Link("racoon1")), Drop(Process("racoon dnsmasq")), TryDrop(Con("rac1")),
    Drop(Module("ip_vti"))>>

(* The callers: a script that fails is taken down and the set-up fails. *)
OrTeardown(h, name, setup, teardown) ==
  setup \o When(Fails(h, name), teardown \o <<Raise>>)

teardown_libreswan(h) == libreswan_teardown(h) \o <<Run>>
setup_libreswan(h) == OrTeardown(h, "libreswan", libreswan_setup(h), teardown_libreswan(h))
teardown_strongswan(h) == strongswan_teardown(h)
setup_strongswan(h) == OrTeardown(h, "strongswan", strongswan_setup(h), teardown_strongswan(h))
teardown_racoon(h) == racoon_teardown(h)
setup_racoon(h) ==
  <<WaitForTesteth0, Put(Package("ipsec-tools"))>>
  \o OrTeardown(h, "racoon", racoon_setup(h), teardown_racoon(h))

(* Certificates stay.  The server is a registered process; with a second   *)
(* factor there is another one, which talks to it.                         *)
setup_openvpn(h) ==
  <<Put(Setting("openvpn certificates")), Write(File("trest-server.conf"))>>
  \o Spawn("openvpn") \o When(Fails(h, "openvpn"), <<Raise>>)
  \o When(Tagged(h, "oath"), Spawn("telnet"))

setup_pkcs11(h) ==
  <<Put(Package("softhsm")), Write(File("pkcs11_passwd-file")),
    Put(Setting("softhsm token"))>>

\* Authenticators, which stay for the scenarios that follow.

Wired == <<"DHCP_test8Y", "DHCP_test8Z">>
WiredLinks == <<"test8X", "test8Y", "test8Z", "test8X_bridge">>

wired_hostapd_teardown(h) ==
  <<Drop(Service("nm-hostapd")), Drop(Process("dnsmasq_wired"))>>
  \o Every(WiredLinks, LAMBDA d : Drop(Link(d)))
  \o Every(Wired, LAMBDA c : TryDrop(Con(c)))
  \o <<Drop(File("nm_8021x_configured"))>>

wired_hostapd_check(h) ==
  /\ Is(h, File("nm_8021x_configured")) /\ Is(h, Process("dnsmasq_wired"))
  /\ Is(h, Service("nm-hostapd"))
  /\ \A i \in 1 .. 2 : Is(h, Active(Wired[i]))

wired_hostapd_setup(h) ==
  When(~wired_hostapd_check(h),
       wired_hostapd_teardown(h)
       \o Every(WiredLinks, LAMBDA d : Put(Link(d)))
       \o Every(Wired, LAMBDA c : TryPut(Con(c)))
       \o Every(Wired, LAMBDA c : TryPut(Active(c)))
       \o <<Put(Process("dnsmasq_wired")), Put(Service("nm-hostapd"))>>
       \o When(~Fails(h, "hostapd"), <<Put(File("nm_8021x_configured"))>>))

setup_hostapd(h) ==
  <<WaitForTesteth0, Put(Package("hostapd"))>>
  \o OrTeardown(h, "hostapd", wired_hostapd_setup(h), wired_hostapd_teardown(h))
teardown_hostapd(h) == wired_hostapd_teardown(h) \o <<WaitForTesteth0>>

wireless_hostapd_teardown(h) ==
  <<Drop(Netns("wlan_ns")), Drop(Process("dnsmasq_wireless")), Drop(Service("nm-hostapd-1")),
    TryDrop(Setting("unmanaged wlan1")), Drop(Module("mac80211_hwsim")),
    Drop(Conf("95-nmci-wifi")), DoNM("reload"), Drop(File("nm_wifi_supp_configured"))>>

wireless_hostapd_check(h) ==
  /\ Is(h, File("nm_wifi_supp_configured")) /\ Is(h, Process("dnsmasq_wireless"))
  /\ Is(h, Service("nm-hostapd-1")) /\ Is(h, Netns("wlan_ns"))

wireless_hostapd_setup(h) ==
  When(~wireless_hostapd_check(h),
       wireless_hostapd_teardown(h)
       \o <<Put(Package("haveged")), Put(Netns("wlan_ns")),
            Put(Setting("selinux hostapd_wireless")), Put(Conf("95-nmci-wifi")),
            Put(Module("mac80211_hwsim")), Run, DoNM("restart"),
            Put(Service("nm-hostapd-1")), Put(Process("dnsmasq_wireless"))>>
       \o (IF Fails(h, "hostapd wireless") THEN <<Raise>>
           ELSE <<Put(File("nm_wifi_supp_configured"))>>))

setup_hostapd_wireless(h) ==
  <<WaitForTesteth0, Put(Package("hostapd"))>> \o wireless_hostapd_setup(h) \o <<Nmcli>>
teardown_hostapd_wireless(h) == wireless_hostapd_teardown(h) \o <<Run>>

\* Tunnels, VLANs, simulated devices.

iptunnel_setup(h) ==
  <<Put(Netns("iptunnel")), Put(Link("veth0")), TryPut(Con("iptunnel-veth")),
    TryPut(Active("iptunnel-veth"))>>
iptunnel_teardown(h) ==
  <<Drop(Link("veth0")), Drop(Netns("iptunnel"))>>
  \o Every(<<"iptunnel-veth", "ipip1", "gre1">>, LAMBDA c : TryDrop(Con(c)))

(* Profiles NetworkManager does not delete in time are deleted as files,   *)
(* links as links, and when it does not answer at all it is stopped.       *)
vlans_clean(h) ==
  <<Drop(Process("dnsmasq_vlan")), Drop(Con("vlans")), Drop(Link("vlans"))>>
  \o When(Fact(h, "NM hangs"), <<DoNM("stop")>>)
  \o <<Drop(Netns("eth11_ns")), Drop(Link("eth11"))>>
vlans_setup(h) ==
  <<Put(Netns("eth11_ns")), Put(Link("eth11")), Nmcli,
    Put(Process("dnsmasq_vlan"))>>

netdevsim_setup(h) ==
  When(~Is(h, File("netdevsim_installed")),
       <<Run>> \o When(Fails(h, "netdevsim"), <<Raise>>) \o <<Put(File("netdevsim_installed"))>>)
  \o <<Put(Module("netdevsim")), Put(Link("eth11")), Put(File("netdevsim"))>>
netdevsim_teardown(h) ==
  <<TryDrop(Active("eth11")), Drop(Link("eth11")), Drop(Module("netdevsim")),
    Drop(File("netdevsim"))>>

\* The testbed of virtual devices.

TestethN == [i \in 1 .. 10 |-> "testeth" \o ToString(i)]
EthN == [i \in 1 .. 10 |-> "eth" \o ToString(i)]
TestbedProfiles == {"testeth0"} \cup Range(TestethN)
TestbedDevices  == Resettable \cup {"orig"}

teardown_veth_env(h) ==
  <<Drop(Process("dhcp_inbr"))>>
  \o Every(EthN, LAMBDA d : Drop(Link(d)))
  \o <<Drop(Netns("vethsetup")), Drop(Rule("87-xvethsetup")), UdevUpdate>>
  \o Every(TestethN, LAMBDA c : TryDrop(Con(c)))
  \o <<TryDrop(Active("testeth0")), Drop(Con("testeth0")), DoNM("restart")>>

(* Nothing is done as long as all the devices are there. *)
setup_veth_env(h) ==
  When(\E d \in {EthN[i] : i \in 1 .. 10} : ~Is(h, Link(d)),
       <<Put(Rule("87-xvethsetup")), UdevUpdate, DoNM("restart"), Drop(Con("testeth0")),
         Put(Con("testeth0")), Drop(Setting("testeth0")), Put(Netns("vethsetup"))>>
       \o Every(EthN, LAMBDA d : Put(Link(d)))
       \o <<Put(Process("dhcp_inbr"))>>
       \o Every(TestethN, LAMBDA c : TryPut(Con(c)))
       \o <<DoNM("restart"), TryPut(Active("testeth0")), Put(File("nm_veth_configured"))>>)

(* Anything that is not as the set-up left it makes it start anew: a link  *)
(* that is missing or down, a profile that is missing, one other than      *)
(* testeth0 that is active, the server or the namespace gone.              *)
veth_intact(h) ==
  /\ \A i \in 1 .. 10 : /\ Is(h, Link(EthN[i])) /\ ~Is(h, Down(EthN[i]))
                        /\ Is(h, Con(TestethN[i])) /\ ~Is(h, Active(TestethN[i]))
  /\ Is(h, Con("testeth0")) /\ Is(h, Active("testeth0"))
  /\ Is(h, Process("dhcp_inbr")) /\ Is(h, Netns("vethsetup"))

check_veth_env(h) ==
  When(~veth_intact(h),
       LET down == teardown_veth_env(h) IN down \o setup_veth_env(Perform(h, down)))

(* Module mapping of nmci.veth: a check that raises leaves the flag file,  *)
(* so that the next one tries again.                                       *)
check_vethsetup(h) ==
  IF Fails(h, "vethsetup") THEN <<Write(File("nm_veth_configured")), Raise>>
  ELSE check_veth_env(h) \o <<Run>>

unmanage_veths(h) == <<Drop(Rule("88-veths-eth")), UdevUpdate>>
manage_veths(h) ==
  When(~Is(h, File("nm_veth_configured")), <<Write(Rule("88-veths-eth")), UdevUpdate>>)

(* The rule is registered for removal after udev has been told of it. *)
manage_device(h, d) ==
  When(~Is(h, Rule("88-veth-" \o d)),
       <<Write(Rule("88-veth-" \o d)), UdevUpdate, AddUdevRule("88-veth-" \o d)>>)

restore_testeth0(h) ==
  <<TryDrop(Con("testeth0")), Put(Con("testeth0")), Drop(Setting("testeth0")),
    Nmcli, NmPut(Active("testeth0"))>>

(* Every profile is deleted and every device that is not of the testbed;   *)
(* the testbed's own profiles are added again.                             *)
restore_connections(h) ==
  <<Nmcli, ClearBut("force", "con", {}), ClearBut("force", "link", TestbedDevices)>> \o Every(TestethN, LAMBDA c : NmPut(Con(c)))
  \o restore_testeth0(h)
=============================================================================
