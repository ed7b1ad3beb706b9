-------------------------- MODULE MC_MergeRequest --------------------------
(* Three features of which one is excluded, and two machines.  The events  *)
(* of one merge request of the tests and of one of the code: updates of    *)
(* the same commit, a push by another author, comments that rebuild with   *)
(* directives of their own, events that ask for nothing.                   *)
EXTENDS MergeRequest, TLC

CONSTANTS p1, p2
Symmetric == Permutations(Procs)

Test(n, f, t) == [name |-> n, feature |-> f, timeout |-> t]
TheEntries ==
  <<Test("bond_1", "bond", 0), Test("dns_1", "dns", 5), Test("wifi_1", "wifi", 0),
    Test("dns_best", "dns", 0), Test("bond_2", "bond", 20), Test("ipv4_1", "ipv4", 0)>>
TheRank == [bond |-> 1, dns |-> 2, ipv4 |-> 3, wifi |-> 4]
TheDiffs == {[fetched |-> FALSE, changed |-> <<>>], [fetched |-> TRUE, changed |-> <<"wifi", "dns">>]}

Start(t, at) == [act |-> "START", test |-> t, at |-> at]
End(t, at) == [act |-> "END", test |-> t, at |-> at]
(* None; a run that was cut off, one over midnight, an END too many, a     *)
(* test both machines ran and one mapper.yaml does not have.               *)
TheLogs == {
  << <<>>, <<>> >>,
  << <<Start("dns_1", 0), End("dns_1", 400), Start("bond_1", 10), Start("bond_1", 500), End("bond_1", 620),
       End("bond_1", 700), Start("gone_1", 700), End("gone_1", 710)>>,
     <<Start("dns_1", 14300), End("dns_1", 100), Start("bond_2", 100), End("bond_2", 160), Start("ipv4_1", 160)>> >>}

Line(tag, value) == [tag |-> tag, value |-> value]
Request(form, names) == [form |-> form, names |-> names]

Update(text) ==
  [kind |-> "merge_request", action |-> "update", member |-> TRUE, wip |-> FALSE, code |-> FALSE,
   skipped |-> FALSE, labels |-> FALSE, text |-> text, comment |-> <<>>, command |-> "",
   commit |-> "c1", author |-> "a1", branch |-> "b1", mr |-> 1]
Comment(text, comment, command) ==
  [Update(text) EXCEPT !.kind = "note", !.comment = comment, !.command = command]

TheEvents == <<
  Update(<<Line("os", "c9s"), Line("os", "C10S"), Line("mr", "closed"), Line("runfeature", Request("features", <<"dns", "ipv4">>))>>),
  [Comment(<<Line("runtest", <<"dns_1">>)>>, <<Line("mr", "sha"), Line("runfeature", Request("covering", <<"bond_2", "bond_1", "ipv4_1">>))>>, "") EXCEPT !.commit = "c3", !.author = "a2"],
  Comment(<<Line("runfeature", Request("features", <<"all">>))>>, <<Line("runtest", <<"bond_2", "dns_1">>), Line("os", "c9s")>>, "10-stream"),
  [Update(<<Line("build", "nm-1-38")>>) EXCEPT !.action = "open", !.code = TRUE, !.mr = 2, !.commit = "c2"] >>
=============================================================================
