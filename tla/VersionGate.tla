----------------------------- MODULE VersionGate -----------------------------
(***************************************************************************)
(* The version gate: which scenario of a test, if any, runs on the         *)
(* installed NetworkManager and distribution.  A test name may belong to   *)
(* several scenarios, its candidates, told apart by version tags.  The     *)
(* shell asks nmci/helpers/version_control.py, which judges the candidates *)
(* one after the other and must find one; behave, a process of its own, is *)
(* then given that candidate's tags and judges the scenario once more      *)
(* before it runs it.  behave may also be started by itself, on scenarios  *)
(* nobody has asked version_control about.                                 *)
(*                                                                         *)
(* A version is a sequence of numbers, a tag an operator and the front of  *)
(* a version; a stream is the sequence of its parts, <<"rhel", "9">> for   *)
(* "rhel-9".  The list that nm_version_detect caches is handed out, not    *)
(* copied, so what a judgement adds to it stays for the next one: it is    *)
(* the variable nm_version.                                                *)
(***************************************************************************)
EXTENDS Naturals, Sequences, FiniteSets, FiniteSetsExt, SequencesExt

CONSTANTS
    Hosts,    \* [build, distro]: what NetworkManager -V may print, as
              \* [base, pre, rest, suffix], and [flavor, version] of distro_detect
    Tests     \* the candidates of the tests, a set of sequences of tag records

Top == 9999        \* the number that stands above every component
Upstream == <<"upstream">>
Ops == {"-", "-=", "+=", "+"}
ASSUME TestsAssumption ==
    \A t \in Tests :
        /\ Len(t) \in Nat \ {0} /\ DOMAIN t = 1 .. Len(t)
        /\ \A i \in DOMAIN t : \A tags \in {t[i].ver, t[i].rhelver, t[i].fedoraver} :
            /\ IsFiniteSet(tags)
            /\ \A tag \in tags : tag.op \in Ops /\ tag.ver \in Seq(Nat)
        /\ \A i \in DOMAIN t : \A tag \in t[i].rhelver \cup t[i].fedoraver :
            tag = [op |-> tag.op, ver |-> tag.ver]

VARIABLES
    build,       \* the installed NetworkManager
    distro,      \* the distribution
    test,        \* the candidates of the test, in the order of the feature file
    nm_version,  \* the cached list of the running process
    phase,       \* "start", "select", "behave" or "done"
    k,           \* the candidates version_control has judged
    result,      \* the candidate selected so far, 0 for none
    raised,      \* version_control ends with an exception other than a skip
    queue,       \* the scenarios behave has still to judge
    runs,        \* the candidates whose scenario behave ran
    skips        \* the candidates whose scenario behave skipped

vars == <<build, distro, test, nm_version, phase, k, result, raised, queue,
          runs, skips>>

-----------------------------------------------------------------------------
(* nm_version_parse: a release candidate of the next minor release counts as *)
(* a late micro release of this one (rc1 = 90), "~dev" as nothing, and a     *)
(* build number above 1000 tells an upstream build.                         *)
Version(b) ==
    LET base == IF b.pre = "rc"
                THEN <<b.base[1], b.base[2] - 1, b.base[3] + 89>> ELSE b.base
    IN base \o b.rest

Stream(b) ==
    IF Len(Version(b)) < 4 THEN <<"unknown">>
    ELSE IF Version(b)[4] > 1000 THEN Upstream
    ELSE IF b.suffix = <<>> THEN <<"unknown">> ELSE b.suffix

ASSUME HostsAssumption ==
    \A host \in Hosts :
        /\ host = [build |-> host.build, distro |-> host.distro]
        /\ Version(host.build) \in Seq(Nat) /\ host.build.suffix # Upstream
        /\ host.distro.flavor \in {"rhel", "fedora"} /\ host.distro.version \in Seq(Nat)

-----------------------------------------------------------------------------
(* Of versions of one length: u < v, as Python orders lists.               *)
Less(u, v) ==
    \E i \in DOMAIN u : u[i] < v[i] /\ \A j \in 1 .. i - 1 : u[j] = v[j]

AtMost(u, v) == u = v \/ Less(u, v)

IsPlus(tag) == tag.op \in {"+=", "+"}

(* _fill_ver: "+" and "-=" bound a range from above their version.         *)
Fill(tag, n) ==
    LET pad == IF tag.op \in {"+", "-="} THEN Top ELSE 0
    IN [tag EXCEPT !.ver = [i \in 1 .. n |->
                                IF i \in DOMAIN tag.ver THEN tag.ver[i] ELSE pad]]

(* _cmp_ver: by version, the operators of one version by their index.      *)
OpIndex == [op \in Ops |-> CHOOSE i \in 1 .. 4 : <<"-", "-=", "+=", "+">>[i] = op]
SortsBefore(s, t) ==
    Less(s.ver, t.ver) \/ (s.ver = t.ver /\ OpIndex[s.op] < OpIndex[t.op])
Sorted(tags) ==
    [i \in 1 .. Cardinality(tags) |->
        CHOOSE t \in tags : Cardinality({s \in tags : SortsBefore(s, t)}) = i - 1]

(* l_keep: how many numbers of a version name its branch.                  *)
Keep(n) == IF n <= 2 THEN 1 ELSE 2

(* _compute_aux_tag: the inverse of the tag at the border of its branch.   *)
AuxTag(tag) ==
    LET n == Len(tag.ver)
        keep == Keep(n)
        inner == \E i \in keep + 1 .. n : tag.ver[i] # 0
        border == IF IsPlus(tag) THEN 0 ELSE Top
        equal == ~inner /\ tag.op \in {"+=", "-="}
    IN [op |-> IF IsPlus(tag) THEN (IF equal THEN "-=" ELSE "-")
               ELSE (IF equal THEN "+=" ELSE "+"),
        ver |-> [i \in 1 .. n |-> IF i <= keep THEN tag.ver[i] ELSE border]]

(* A variant: a border between the tags of one branch, too.                *)
AuxTagsEverywhere(tags) ==
    LET seq == Sorted(tags)
        bordered(i, j) == j \in DOMAIN seq /\ IsPlus(seq[i]) = IsPlus(seq[j])
    IN {AuxTag(seq[i]) : i \in {x \in DOMAIN seq :
            IF IsPlus(seq[x]) THEN bordered(x, x - 1) ELSE bordered(x, x + 1)}}

(* _add_aux_tags, both passes: a tag next to one of its own sign, behind it *)
(* for "+" and before it for "-", and of another branch, gets a border.     *)
AuxTags(tags) ==
    LET seq == Sorted(tags)
        branch(i) == SubSeq(seq[i].ver, 1, Min({2, Len(seq[i].ver)}))
        bordered(i, j) == /\ j \in DOMAIN seq
                          /\ IsPlus(seq[i]) = IsPlus(seq[j])
                          /\ branch(i) # branch(j)
    IN {AuxTag(seq[i]) : i \in {x \in DOMAIN seq :
            IF IsPlus(seq[x]) THEN bordered(x, x - 1) ELSE bordered(x, x + 1)}}

(* _eval                                                                   *)
Holds(tag, v) ==
    CASE tag.op = "+"  -> Less(tag.ver, v)
      [] tag.op = "+=" -> AtMost(tag.ver, v)
      [] tag.op = "-"  -> Less(v, tag.ver)
      [] tag.op = "-=" -> AtMost(v, tag.ver)

(* _search_closest_tags: the last tag up to the version and the first from *)
(* it on, if there are such tags, must both hold.                          *)
ClosestHold(seq, v) ==
    LET below == {i \in DOMAIN seq : AtMost(seq[i].ver, v)}
        above == {i \in DOMAIN seq : AtMost(v, seq[i].ver)}
    IN /\ below # {} => Holds(seq[Max(below)], v)
       /\ above # {} => Holds(seq[Min(above)], v)

(* test_version_tag_eval: no tags pass; a bare "+" or "-" is alone.        *)
Satisfied(tags, v) ==
    LET filled == {Fill(tag, Len(v)) : tag \in tags}
    IN \/ tags = {}
       \/ \E tag \in tags : tag.ver = <<>> /\ tag.op = "+"
       \/ /\ \A tag \in tags : tag.ver # <<>>
          /\ ClosestHold(Sorted(filled \cup AuxTags(filled)), v)

(* ... and a tag longer than the version is an error.                      *)
TooLong(tags, v) == \E tag \in tags : Len(tag.ver) > Len(v)

(* test_version_tag_filter_for_stream: the tags of the longest front of    *)
(* the stream that has any.                                                *)
ForStream(tags, stream) ==
    LET named == {n \in 0 .. Len(stream) :
                    \E tag \in tags : tag.stream = SubSeq(stream, 1, n)}
    IN {[op |-> tag.op, ver |-> tag.ver] : tag \in
            {x \in tags : /\ named # {}
                          /\ x.stream = SubSeq(stream, 1, Max(named))}}

-----------------------------------------------------------------------------
(* test_tags_match_version.  The package tags return early, before the     *)
(* list is changed.                                                        *)
StockPackage(flavor) ==
    distro.flavor = flavor /\ Stream(build)[1] = flavor

PackageFits(tags) ==
    /\ "rhel_pkg" \in tags.pkg => StockPackage("rhel")
    /\ "not_with_rhel_pkg" \in tags.pkg => ~StockPackage("rhel")
    /\ "fedora_pkg" \in tags.pkg => StockPackage("fedora")
    /\ "not_with_fedora_pkg" \in tags.pkg => ~StockPackage("fedora")

(* Variants with the mistakes these definitions could have: package builds *)
(* counted up like upstream ones, and upstream builds not counted up.      *)
BumpAlways(v) == [v EXCEPT ![3] = @ + 1]
BumpNever(v) == v

Bump(v) == IF Stream(build) = Upstream THEN [v EXCEPT ![3] = @ + 1] ELSE v

BumpOnMatch(tags, v) == IF PackageFits(tags) THEN Bump(v) ELSE v

VerTags(tags) == ForStream(tags.ver, Stream(build))
DistroTags(tags) ==
    CASE distro.flavor = "rhel" -> tags.rhelver
      [] distro.flavor = "fedora" -> tags.fedoraver

MatchRaises(tags, v) ==
    /\ PackageFits(tags)
    /\ \/ TooLong(VerTags(tags), v)
       \/ /\ Satisfied(VerTags(tags), v)
          /\ TooLong(DistroTags(tags), distro.version)

(* Every tag holds, the version tags at v.                                 *)
Fits(tags, v) ==
    /\ PackageFits(tags)
    /\ Satisfied(VerTags(tags), v)
    /\ Satisfied(DistroTags(tags), distro.version)
    /\ ~MatchRaises(tags, v)

-----------------------------------------------------------------------------
Init ==
    /\ \E host \in Hosts : build = host.build /\ distro = host.distro
    /\ test \in Tests
    /\ nm_version = Version(build)
    /\ phase = "start"
    /\ k = 0 /\ result = 0 /\ raised = FALSE
    /\ queue = <<>> /\ runs = {} /\ skips = {}

(* version_control.py: test_version_check enters test_tags_select.         *)
EnterSelect ==
    /\ phase = "start"
    /\ phase' = "select"
    /\ nm_version' = Bump(nm_version)
    /\ UNCHANGED <<build, distro, test, k, result, raised, queue, runs, skips>>

(* behave started by itself, for "multiple tests in single report".        *)
RunUnasked ==
    /\ phase = "start"
    /\ phase' = "behave"
    /\ queue' = [i \in DOMAIN test |-> i]
    /\ UNCHANGED <<build, distro, test, nm_version, k, result, raised, runs, skips>>

(* One round of the loop of test_tags_select; a second match raises.       *)
JudgeCandidate ==
    LET tags == test[k + 1]
        v == BumpOnMatch(tags, nm_version)
        fails == MatchRaises(tags, v) \/ (Fits(tags, v) /\ result # 0)
    IN /\ phase = "select" /\ k < Len(test)
       /\ k' = k + 1
       /\ nm_version' = v
       /\ raised' = fails
       /\ result' = IF ~fails /\ Fits(tags, v) THEN k + 1 ELSE result
       /\ phase' = IF fails THEN "done" ELSE phase
       /\ UNCHANGED <<build, distro, test, queue, runs, skips>>

(* The status of version_control.py: 77 for no candidate, else runtest.sh  *)
(* starts behave, which detects the version for itself, with the tags of   *)
(* the candidate.  They select that scenario alone: no scenario's tags     *)
(* include those of another.                                               *)
Select ==
    /\ phase = "select" /\ k = Len(test)
    /\ IF result = 0
       THEN /\ phase' = "done"
            /\ UNCHANGED <<nm_version, queue>>
       ELSE /\ phase' = "behave"
            /\ nm_version' = Version(build)
            /\ queue' = <<result>>
    /\ UNCHANGED <<build, distro, test, k, result, raised, runs, skips>>

(* before_scenario judges the scenario; an exception fails it.             *)
BeforeScenario ==
    LET i == Head(queue)
        v == BumpOnMatch(test[i], nm_version)
    IN /\ phase = "behave" /\ queue # <<>>
       /\ nm_version' = v
       /\ queue' = Tail(queue)
       /\ IF MatchRaises(test[i], v) THEN UNCHANGED <<runs, skips>>
          ELSE IF Fits(test[i], v)
          THEN runs' = runs \cup {i} /\ UNCHANGED skips
          ELSE skips' = skips \cup {i} /\ UNCHANGED runs
       /\ UNCHANGED <<build, distro, test, phase, k, result, raised>>

(* behave has no scenario left.                                            *)
BehaveEnds ==
    /\ phase = "behave" /\ queue = <<>>
    /\ phase' = "done"
    /\ UNCHANGED <<build, distro, test, nm_version, k, result, raised, queue,
                   runs, skips>>

Next ==
    \/ EnterSelect \/ RunUnasked \/ JudgeCandidate \/ Select
    \/ BeforeScenario \/ BehaveEnds

Spec == Init /\ [][Next]_vars

-----------------------------------------------------------------------------
(* PROPERTIES                                                              *)

TypeOK ==
    /\ [build |-> build, distro |-> distro] \in Hosts /\ test \in Tests
    /\ nm_version \in Seq(Nat) /\ Len(nm_version) = Len(Version(build))
    /\ phase \in {"start", "select", "behave", "done"}
    /\ k \in 0 .. Len(test) /\ result \in 0 .. k /\ raised \in BOOLEAN
    /\ queue \in Seq(DOMAIN test)
    /\ runs \subseteq DOMAIN test /\ skips \subseteq DOMAIN test \ runs

(* What a tag says by itself of a version: compare their common front.     *)
Says(tag, v) ==
    LET front == SubSeq(v, 1, Len(tag.ver)) IN Holds(tag, front)

Branch(u, v) == SubSeq(u, 1, Min({Keep(Len(v)), Len(u)}))

(* Notes 3 to 5 of the docstring, in place of the algorithm: of tags of    *)
(* one sign any one suffices, but those of the version's own branch must   *)
(* all hold.                                                               *)
OneSign(tags, v) ==
    /\ \E tag \in tags : Says(tag, v)
    /\ \A tag \in tags : Branch(tag.ver, v) = Branch(v, v) => Says(tag, v)

(* The tags the notes speak of: none empty or too long, and where the      *)
(* version is exactly that of a tag, which a build number rules out, no    *)
(* second tag of the same branch.                                          *)
Meaningful(tags, v) ==
    /\ tags # {} /\ ~TooLong(tags, v) /\ \A tag \in tags : tag.ver # <<>>
    /\ \A s, t \in tags :
        (s # t /\ Fill(s, Len(v)).ver = v) => Branch(t.ver, v) # Branch(v, v)

(* Minor and micro numbers stay below the number that stands above them.   *)
Small(u) == \A i \in DOMAIN u \cap {2, 3} : u[i] < Top

(* The build number of an upstream build does not: "+1.28.5" includes      *)
(* 1.28.5-28009, and "-=1.28.5" does not.                                  *)
Overrun(tag, v) ==
    /\ tag.op \in {"+", "-="} /\ Len(tag.ver) < Len(v)
    /\ SubSeq(v, 1, Len(tag.ver)) = tag.ver
    /\ v[Len(tag.ver) + 1] >= Top

(* Where the code is not what the notes say, though no scenario has such   *)
(* tags: a "-" tag that names no branch has its border behind the first    *)
(* branch, and of a version of two numbers the branch is the first number  *)
(* for the border but both for the comparison of tags.                     *)
Misread(tags, v) ==
    \/ \E tag \in tags : tag.op = "-" /\ Len(tag.ver) < Keep(Len(v))
    \/ /\ Len(v) = 2
       /\ \E s, t \in tags :
            s # t /\ IsPlus(s) = IsPlus(t) /\ s.ver[1] = t.ver[1]

Plain(tags, v) ==
    /\ Small(v) /\ \A tag \in tags : Small(tag.ver) /\ ~Overrun(tag, v)
    /\ ~Misread(tags, v)

(* The tags of a set mean what the notes of test_version_tag_eval say:     *)
(* "+" tags give the versions since which, "-" tags those until which the  *)
(* scenario runs, per stable branch, and both together a range or a hole,  *)
(* whichever their order says.  Judged at every version a judgement meets, *)
(* the ones the upstream increment makes up included, but for the numbers  *)
(* and tags excepted above.                                                *)
TagsMean ==
    \A i \in DOMAIN test :
        \A check \in {<<VerTags(test[i]), nm_version>>,
                      <<DistroTags(test[i]), distro.version>>} :
            LET tags == check[1]
                v == check[2]
                since == {tag \in tags : IsPlus(tag)}
                until == tags \ since
                before(S, T) == \A s \in S, t \in T :
                    Less(Fill(s, Len(v)).ver, Fill(t, Len(v)).ver)
            IN (Meaningful(tags, v) /\ Plain(tags, v)) =>
                CASE until = {} -> Satisfied(tags, v) = OneSign(since, v)
                  [] since = {} -> Satisfied(tags, v) = OneSign(until, v)
                  [] since # {} /\ until # {} ->
                     /\ before(since, until) => Satisfied(tags, v) =
                            (OneSign(since, v) /\ OneSign(until, v))
                     /\ before(until, since) => Satisfied(tags, v) =
                            (OneSign(since, v) \/ OneSign(until, v))

(* Of every judgement, with the versions and results being such.           *)
JudgedByMeaning == TypeOK /\ TagsMean

(* The candidates that fit version v, each judged by itself.               *)
Fitting(v) == {i \in DOMAIN test : Fits(test[i], v)}
NextRelease == [Version(build) EXCEPT ![3] = @ + 1]

(* "versioning in y/z-stream is exact": for a package build the candidate  *)
(* that is selected is the only one that fits the installed version, no    *)
(* candidate fits when none is, and behave, which judges again in a        *)
(* process of its own, agrees: what it runs fits and what it skips does    *)
(* not, however many scenarios it has judged before.                       *)
PackagesExact ==
    (Stream(build) # Upstream /\ ~raised) =>
        /\ (phase # "select" /\ result # 0) => Fitting(Version(build)) = {result}
        /\ (phase = "done" /\ k > 0 /\ result = 0) =>
                Fitting(Version(build)) = {}
        /\ runs \subseteq Fitting(Version(build))
        /\ skips \cap Fitting(Version(build)) = {}
        /\ result # 0 => skips = {}

(* An upstream build is judged as the release it leads to, and later       *)
(* judgements as later ones: a scenario whose version tags only say since  *)
(* when it runs is never lost by that.  If it fits the next release,       *)
(* version_control does not skip the test and behave does not skip it.     *)
SinceNeverLost ==
    LET SinceOnly == {i \in DOMAIN test :
                        \A tag \in test[i].ver : IsPlus(tag)}
        fitting == SinceOnly \cap Fitting(NextRelease)
    IN Stream(build) = Upstream =>
        /\ (phase = "done" /\ k > 0 /\ result = 0 /\ ~raised) => fitting = {}
        /\ skips \cap fitting = {}

(* features/environment.py:104 says of the judgement in behave that a skip *)
(* "shuld not happen": what version_control selected is run.  It is not    *)
(* so for an upstream build: both count the release up, but behave once    *)
(* for the one scenario and test_tags_select once more and then once for   *)
(* every candidate.                                                        *)
SelectedIsRun == result # 0 => skips = {}
=============================================================================
