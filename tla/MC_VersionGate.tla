--------------------------- MODULE MC_VersionGate ---------------------------
(***************************************************************************)
(* Versions 1.1 to 1.4 with small micro numbers, as upstream and as stock  *)
(* package, and the candidates built from tags on the borders of three     *)
(* branches.                                                               *)
(***************************************************************************)
EXTENDS VersionGate

RHEL9 == <<"rhel", "9">>

Build(base, pre, rest, suffix) ==
    [base |-> base, pre |-> pre, rest |-> rest, suffix |-> suffix]

Rhel == [flavor |-> "rhel", version |-> <<9, 3>>]
Rhel8 == [flavor |-> "rhel", version |-> <<8, 5>>]
Fedora == [flavor |-> "fedora", version |-> <<43>>]
On(host, builds) == {[build |-> b, distro |-> host] : b \in builds}

MCHosts ==
    On(Rhel, {Build(<<1, minor, micro>>, "", rest, RHEL9) :
                minor \in 1 .. 4, micro \in 0 .. 2, rest \in {<<2>>, <<1001>>}}
             \cup {Build(<<1, 2, 2>>, "", <<1, 5>>, <<"rhel", "9", "4">>),
                   Build(<<1, 3, 1>>, "rc", <<1001>>, RHEL9),
                   Build(<<1, 2, 2>>, "", <<2>>, <<>>),
                   Build(<<1, 2, 1>>, "", <<28009>>, <<>>),
                   Build(<<1, 3, 1>>, "", <<28040>>, RHEL9)})
    \cup On(Rhel8, {Build(<<1, 2, 2>>, "", <<2>>, RHEL9)})
    \cup On(Fedora, {Build(<<1, 2, 1>>, "", <<1001>>, <<"fedora", "43">>),
                     Build(<<1, 3, 1>>, "dev", <<1001>>, <<>>),
                     Build(<<1, 2, 2>>, "", <<>>, <<"fedora", "43">>),
                     Build(<<1, 3, 2>>, "", <<3>>, <<"fedora", "43">>),
                     Build(<<1, 4, 2>>, "", <<2>>, RHEL9)})

Tag(op, ver) == [op |-> op, ver |-> ver]
Ver(stream, op, ver) == [stream |-> stream, op |-> op, ver |-> ver]
Candidate(ver, rhelver, fedoraver, pkg) ==
    [ver |-> ver, rhelver |-> rhelver, fedoraver |-> fedoraver, pkg |-> pkg]
Versioned(ver) == Candidate(ver, {}, {}, {})

Borders == {<<1, 2>>, <<1, 2, 2>>, <<1, 3, 1>>, <<1, 4, 2>>}
BorderTags == {Ver(<<>>, op, ver) : op \in Ops, ver \in Borders}

(* One candidate with up to two tags, or with three of one sign.           *)
Single ==
    {<<Versioned(tags)>> : tags \in
        {{}} \cup {{s, t} : s, t \in BorderTags}
        \cup UNION {kSubset(3, {tag \in BorderTags : tag.op = op}) : op \in Ops}}

(* Two candidates that complement one another, in either order, and three. *)
Several ==
    LET since(ver) == Versioned({Ver(<<>>, "+=", ver)})
        until(ver) == Versioned({Ver(<<>>, "-=", ver)})
        before(ver) == Versioned({Ver(<<>>, "-", ver)})
    IN UNION {{<<since(u), until(v)>>, <<until(v), since(u)>>,
               <<since(u), before(v)>>, <<before(v), since(u)>>} :
                u, v \in Borders}
       \cup {<<before(<<1, 2>>),
               Versioned({Ver(<<>>, "+=", <<1, 2>>), Ver(<<>>, "-", <<1, 3, 1>>)}),
               since(<<1, 3, 1>>)>>}

(* Tags for streams, packages and distributions.                           *)
Special ==
    {<<Versioned({Ver(<<>>, "+=", <<1, 2, 2, 2>>), Ver(<<>>, "+=", <<1, 3, 1, 2000>>)}),
       Versioned({Ver(<<>>, "-", <<1, 2, 2, 2>>)})>>,
     <<Versioned({Ver(<<>>, "+=", <<1, 3, 1>>), Ver(<<"rhel">>, "+=", <<1, 2, 2>>),
                  Ver(<<"rhel", "9", "4">>, "-", <<>>)})>>,
     <<Versioned({Ver(<<>>, "-", <<>>), Ver(RHEL9, "+", <<>>)}),
       Versioned({Ver(<<>>, "+=", <<1, 2>>), Ver(<<"rhel">>, "-", <<>>)})>>}
    \cup {<<Candidate({Ver(<<>>, "+=", ver)}, {}, {}, {with}),
            Candidate({Ver(<<>>, "+=", ver)}, {}, {}, {without})>> :
            ver \in Borders, <<with, without>> \in
                {<<"rhel_pkg", "not_with_rhel_pkg">>,
                 <<"fedora_pkg", "not_with_fedora_pkg">>,
                 <<"rhel_pkg", "fedora_pkg">>}}
    \cup {<<Candidate({Ver(<<>>, "+=", <<1, 2>>)}, rhelver, fedoraver, {})>> :
            rhelver \in {{Tag("+=", <<9, 3>>), Tag("+=", <<8, 9>>)},
                         {Tag("+=", <<9, 6>>), Tag("+=", <<8>>)},
                         {Tag("+=", <<9, 3>>), Tag("+=", <<9, 6>>)},
                         {Tag("+=", <<8, 3>>), Tag("+=", <<9, 1>>), Tag("-=", <<9>>)}},
            fedoraver \in {{Tag("-=", <<0>>)}, {Tag("+=", <<43>>)},
                           {Tag("+=", <<41, 1>>)}}}

MCTests == Single \cup Several \cup Special
=============================================================================
