-------------------------------- MODULE Host --------------------------------
(***************************************************************************)
(* The machine a scenario runs on, as far as hooks, steps and cleanups     *)
(* change it, and the operations they are made of.                         *)
(*                                                                         *)
(* A resource is a tuple whose first element is its kind.  The state h of  *)
(* a machine is a record:                                                  *)
(*   base    the resources that exist when the scenario begins;            *)
(*   dev     the resources that differ from base, with what they are now;  *)
(*   nm      the files of conf.d NetworkManager has loaded;                *)
(*   rules   the udev rules udev has loaded;                               *)
(*   notes   the attributes hooks and steps left on the context;           *)
(*   lst     the registered cleanups (CleanupList), serial numbers the     *)
(*           ones that compare equal only to themselves;                   *)
(*   facts   what is known of the machine and never changes, with tags the *)
(*           scenario's tags;                                              *)
(*   end     how the hook or step that runs now ended: "", "skip", "error".*)
(*                                                                         *)
(* A hook, a step and a cleanup are sequences of operations.  Perform runs *)
(* one until it skips or raises.                                           *)
(***************************************************************************)
EXTENDS CleanupList

Con(c)     == <<"con", c>>        \* a connection profile
Active(c)  == <<"active", c>>     \* the profile is active
Link(d)    == <<"link", d>>       \* an interface
Service(x) == <<"service", x>>    \* the unit is active
File(f)    == <<"file", f>>
Conf(f)    == <<"conf", f>>       \* a file of NetworkManager's conf.d
Rule(f)    == <<"rule", f>>       \* a file of udev's rules.d
Package(p) == <<"package", p>>
Module(m)  == <<"module", m>>     \* a loaded kernel module
Process(p) == <<"process", p>>    \* something the tests started
Netns(n)   == <<"netns", n>>      \* a network namespace
Address(d) == <<"address", d>>    \* d has addresses or routes a test gave it
Down(d)    == <<"down", d>>       \* d is down
Changes(c) == <<"changes", c>>    \* the profile c has been modified
Setting(k) == <<"setting", k>>    \* k does not have its original value

NetworkManager == Service("NetworkManager")
Udev           == Service("udev")

Fact(h, f) == f \in h.facts
Tagged(h, t) == t \in h.tags
Noted(h, a) == a \in DOMAIN h.notes

(* What r is now: "gone", "there" or a value of its own. *)
Value(h, r) ==
  IF r \in DOMAIN h.dev THEN h.dev[r]
  ELSE IF r \in h.base THEN "there" ELSE "gone"

Is(h, r) == Value(h, r) # "gone"

Original(h, r) == IF r \in h.base THEN "there" ELSE "gone"

Changed(h, r, v) ==
  [h EXCEPT !.dev = IF v = Original(h, r)
                    THEN Restrict(@, DOMAIN @ \ {r}) ELSE (r :> v) @@ @]

OnDisk(h, kind) ==
  {r[2] : r \in {x \in h.base \cup DOMAIN h.dev : x[1] = kind /\ Is(h, x)}}

(* Operations.  via is the way the operation takes: "cmd" a command of its *)
(* own, "nmcli" and "force" NetworkManager's client with and without a     *)
(* check of its result, "py" Python itself.                                *)
Op(op, via, r, v) == [op |-> op, via |-> via, r |-> r, v |-> v]

Put(r)    == Op("set", "cmd", r, "there")
Drop(r)   == Op("set", "cmd", r, "gone")
Set(r, v) == Op("set", "cmd", r, v)
Write(r)  == Op("set", "py", r, "there")
Unlink(r) == Op("set", "py", r, "gone")
NmPut(r)  == Op("set", "nmcli", r, "there")
NmDrop(r) == Op("set", "nmcli", r, "gone")
TryPut(r)  == Op("set", "force", r, "there")
TryDrop(r) == Op("set", "force", r, "gone")
Restart(x) == Put(Service(x))
Stop(x)    == Drop(Service(x))

Note(a, v) == Op("note", "py", a, v)
Skip       == Op("end", "py", "", "skip")
Raise      == Op("end", "py", "", "error")
Run        == Op("run", "cmd", "", "")        \* a command that changes nothing here
Nmcli      == Op("run", "nmcli", "", "")
WaitForTesteth0 == Op("testeth0", "nmcli", "", "")
UdevUpdate == Op("udev", "cmd", "", "")
DoNM(x)    == Op("nm", "cmd", "", x)
ClearBut(via, kind, kept) == Op("clear", via, <<kind>>, [but |-> TRUE, names |-> kept])
ClearOf(via, kind, names) == Op("clear", via, <<kind>>, [but |-> FALSE, names |-> names])

When(b, ops) == IF b THEN ops ELSE <<>>
Each(seq, Body(_)) == FlattenSeq([i \in DOMAIN seq |-> Body(seq[i])])
Every(seq, Body(_)) == [i \in DOMAIN seq |-> Body(seq[i])]

(* Registrations: an entry, with the entry also_needs() constructs.  An    *)
(* entry without a tag compares equal only to itself.  given is a resource *)
(* without which the cleanup does nothing.                                 *)
Entry(tag, prio, ops) == [tag |-> tag, prio |-> prio, ops |-> ops, given |-> <<>>]
EntryGiven(r, tag, prio, ops) == [tag |-> tag, prio |-> prio, ops |-> ops, given |-> r]
Register(e) == Op("register", "py", <<>>, e)
RegisterBoth(e, needed) == Op("register", "py", <<needed>>, e)

Callback(prio, ops) == Register(Entry(<<>>, prio, ops))

(* A variant with one mistake, as before StopNM and in the modules that    *)
(* extend this one: they serve to show that the properties can fail.       *)
AllConnectionsEqual(c) ==
  Register(Entry(<<"connection">>, 20, <<TryDrop(Con(c))>>))

AddConnection(c) ==
  Register(Entry(<<"connection", c>>, 20, <<TryDrop(Con(c))>>))

Resettable == {"lo"} \cup {"eth" \o ToString(i) : i \in 0 .. 10}

(* An interface of the testbed is set up again, any other is deleted. *)
AddIface(d) ==
  Register(IF d \in Resettable
           THEN Entry(<<"iface", d, "reset">>, 31,
                      <<Drop(Address(d)), Drop(Down(d))>>)
           ELSE Entry(<<"iface", d, "delete">>, 30, <<TryDrop(Link(d))>>))

(* The value is taken when the cleanup is constructed. *)
AddSysctls(h, k) == Callback(0, <<Set(Setting(k), Value(h, Setting(k)))>>)

(* veth.teardown_testveth: what runs in the namespace under its pid file   *)
(* is killed, and the rules that manage the testbed's devices go.          *)
TeardownTestveth(n) ==
  <<Drop(Process(n)), Drop(Setting("forwarding")), Drop(Rule("88-veths-eth")), UdevUpdate,
    DoNM("reload")>>

AddNamespace(n, teardown) ==
  Register(Entry(<<"netns", n, teardown>>, 30,
                 When(teardown, TeardownTestveth(n)) \o <<Drop(Netns(n))>>))

AddMptcpLimits(h) ==
  Register(Entry(<<"MptcpLimits">>, 30,
                 <<Set(Setting("mptcp limits"), Value(h, Setting("mptcp limits")))>>))

AddMptcpEndpoints(h) ==
  Register(Entry(<<"MptcpEndpoints">>, 30,
                 <<Set(Setting("mptcp endpoints"), Value(h, Setting("mptcp endpoints")))>>))

(* The rules of a namespace go with it. *)
AddNft(n) ==
  Register(IF n = "" THEN Entry(<<"nft", n>>, 40, <<Drop(Setting("nft"))>>)
           ELSE EntryGiven(Netns(n), <<"nft", n>>, 41, <<Run>>))

(* A file's cleanup is known by its named files alone: all the ones that   *)
(* name patterns only compare equal.                                       *)
AddFile(f) == Register(Entry(<<"files", f>>, 70, <<Unlink(File(f))>>))
AddFilesMatching(f) == Register(Entry(<<"files", "">>, 70, <<Unlink(File(f))>>))

NeedUdevUpdate == Entry(<<"UdevUpdate">>, 300, <<UdevUpdate>>)

AddUdevRule(f) ==
  RegisterBoth(Entry(<<"rule", f>>, 50, <<Unlink(Rule(f))>>), NeedUdevUpdate)

NMServiceAt(x, prio) == Entry(<<"NMService", x, prio>>, prio, <<DoNM(x)>>)
NeedNM(x) == NMServiceAt(x, IF x = "start" THEN -30 ELSE 200)

AddNMService(x) == Register(NeedNM(x))

AddNMConfFile(f, prio, x) ==
  IF x = "" THEN Register(Entry(<<"config", f>>, prio, <<Unlink(Conf(f))>>))
  ELSE RegisterBoth(Entry(<<"config", f>>, prio, <<Unlink(Conf(f))>>), NeedNM(x))

StopUnregistered == <<DoNM("stop")>>

StopNM == <<Register(NeedNM("start")), DoNM("stop")>>

(* reboot_NM_service: the devices it knows that tests make are deleted     *)
(* while NetworkManager is stopped, those of the testbed flushed.          *)
RebootDeletes ==
  {"nm-bond", "nm-team", "nm-bridge", "team7", "bridge7", "bond-bridge", "dummy0", "bond0",
   "team0", "vrf0", "vrf1", "veth11", "veth12", "macsec0", "macsec_veth.42", "ipvlan0"}
Reboot ==
  StopNM
  \o <<ClearOf("cmd", "link", RebootDeletes), Drop(Setting("ovs bridges")),
       ClearOf("cmd", "address", {"eth" \o ToString(i) : i \in 1 .. 11}),
       DoNM("start")>>

(* nmutil.add_NM_config *)
AddNMConfigAt(f, prio, x) ==
  IF x = "reboot"
  THEN <<AddNMConfFile(f, prio, ""), Callback(200, Reboot), Write(Conf(f))>> \o Reboot
  ELSE <<AddNMConfFile(f, prio, x), Write(Conf(f)), DoNM(x)>>

AddNMConfig(f, x) == AddNMConfigAt(f, 70, x)

(* The variant of add_NM_config that is given a function to call: it is    *)
(* registered first, so that the file is removed before the function runs. *)
AddNMConfigCalling(f, prio, ops) ==
  <<Callback(prio, ops), AddNMConfFile(f, prio, ""), Write(Conf(f))>> \o ops

(* context.pexpect_service *)
Spawn(p) == <<Write(Process(p)), Callback(40, <<Drop(Process(p))>>)>>

-----------------------------------------------------------------------------
Loaded(h) == [h EXCEPT !.nm = OnDisk(h, "conf")]

(* do_NM_service: a service that is stopped cannot be asked to reload. *)
NMDone(h, x) ==
  CASE x = "stop"    -> Changed(h, NetworkManager, "gone")
    [] x = "start"   -> IF Is(h, NetworkManager) THEN h
                        ELSE Loaded(Changed(h, NetworkManager, "there"))
    [] x = "reload"  -> IF Is(h, NetworkManager) THEN Loaded(h) ELSE [h EXCEPT !.end = "error"]
    [] x = "restart" -> Loaded(Changed(h, NetworkManager, "there"))

(* veth.wait_for_testeth0: a profile that is missing is restored, one that *)
(* is not active is activated.                                             *)
Testeth0Up(h) ==
  LET restored == IF Is(h, Con("testeth0")) THEN h
                  ELSE Changed(Changed(h, Con("testeth0"), "there"),
                               Setting("testeth0"), "gone")
  IN  Changed(restored, Active("testeth0"), "there")

(* What goes with r: with a profile its activation, with a link what it    *)
(* was given, with a namespace or a link every link that has its other end *)
(* there: such a link has the name of the other as its value.              *)
OtherEnds(h, r) ==
  {x \in DOMAIN h.dev : r[1] \in {"link", "netns"} /\ x[1] = "link" /\ h.dev[x] = r[2]}
OfLink(r)  == {r, Address(r[2]), Down(r[2])}
Attached(h, r) ==
  CASE r[1] = "con"               -> {r, Active(r[2]), Changes(r[2])}
    [] r[1] \in {"link", "netns"} -> UNION {OfLink(l) : l \in {r} \cup OtherEnds(h, r)}
    [] OTHER                      -> {r}

Lost(h, resources) ==
  LET lost == UNION {Attached(h, r) : r \in resources}
  IN  [h EXCEPT !.dev = [r \in (DOMAIN @ \ lost) \cup (lost \cap h.base) |->
                           IF r \in lost THEN "gone" ELSE @[r]]]

Assigned(h, r, v) == IF v = "gone" THEN Lost(h, {r}) ELSE Changed(h, r, v)

(* All of a kind is deleted that has one of the names, or none of them. *)
Cleared(h, kind, which) ==
  Lost(h, {r \in h.base \cup DOMAIN h.dev :
             /\ r[1] = kind /\ Is(h, r)
             /\ which.but <=> r[2] \notin which.names})

(* NetworkManager's client refuses what is not there. *)
Refused(h, o) ==
  /\ o.via = "nmcli"
  /\ \/ ~Is(h, NetworkManager)
     \/ /\ o.op = "set"
        /\ o.r[1] = "active"
        /\ IF o.v = "gone" THEN ~Is(h, o.r) ELSE ~Is(h, Con(o.r[2]))
     \/ /\ o.op = "set"
        /\ o.r[1] = "con" /\ o.v = "gone" /\ ~Is(h, o.r)

Useless(h, o) ==
  /\ o.via = "force"
  /\ \/ ~Is(h, NetworkManager)
     \/ o.op = "set" /\ o.r[1] = "active" /\ o.v = "there" /\ ~Is(h, Con(o.r[2]))

Registered(h, o) ==
  LET e == IF o.v.tag = <<>> THEN [o.v EXCEPT !.tag = <<"id", ToString(h.serial)>>] ELSE o.v
  IN  [h EXCEPT !.serial = IF o.v.tag = <<>> THEN @ + 1 ELSE @,
                !.lst = IF o.r = <<>> THEN AddAlone(@, e) ELSE AddWithNeed(@, e, o.r[1])]

Do(h, o) ==
  IF h.end # "" \/ Useless(h, o) THEN h
  ELSE IF Refused(h, o) THEN [h EXCEPT !.end = "error"]
  ELSE CASE o.op = "set"      -> Assigned(h, o.r, o.v)
         [] o.op = "clear"    -> Cleared(h, o.r[1], o.v)
         [] o.op = "note"     -> [h EXCEPT !.notes = (o.r :> o.v) @@ @]
         [] o.op = "register" -> Registered(h, o)
         [] o.op = "end"      -> [h EXCEPT !.end = o.v]
         [] o.op = "nm"       -> NMDone(h, o.v)
         [] o.op = "udev"     -> [h EXCEPT !.rules = OnDisk(h, "rule")]
         [] o.op = "testeth0" -> Testeth0Up(h)
         [] o.op = "run"      -> h

Perform(h, ops) == FoldLeft(Do, [h EXCEPT !.end = ""], ops)

(* Every command can run into its time limit, and then raises: what stands *)
(* in front of it has happened, it may or may not, the rest has not.       *)
(* Breaks(ops) are the numbers of operations that have happened by then.   *)
Breaks(ops) == UNION {{i - 1, i} : i \in {j \in DOMAIN ops : ops[j].via # "py"}}
BrokenAfter(h, ops, n) ==
  LET m == Perform(h, SubSeq(ops, 1, n)) IN IF m.end = "" THEN [m EXCEPT !.end = "error"] ELSE m

(* The resources o changes, or has changed later. *)
Target(o) ==
  CASE o.op = "set"      -> {o.r}
    [] o.op = "nm"       -> {NetworkManager}
    [] o.op = "udev"     -> {Udev}
    [] o.op = "testeth0" -> {Con("testeth0"), Active("testeth0")}
    [] o.op = "register" -> IF Head(o.v.tag \o <<"">>) = "NMService" THEN {NetworkManager} ELSE {}
    [] OTHER             -> {}
=============================================================================
