--------------------------- MODULE RouterProofs ---------------------------
(***************************************************************************)
(* The router answers as the fields say, for every set of addresses and    *)
(* domains, every number of routes and resolvers, every configuration,     *)
(* request, answer of the resolvers and GeoIP database.                    *)
(*                                                                         *)
(* A route's criteria are seen as a set of groups of alternatives, one for *)
(* each kind of field that is given; the verdict on each test stands for   *)
(* what its field says of the request; and the invariant                   *)
(* keeps the trail: the criteria before the cursor are met, the            *)
(* alternatives before it are not, and each route before it has a          *)
(* criterion none of whose alternatives is met.                            *)
(***************************************************************************)
EXTENDS Router, FiniteSums, FiniteSetTheorems, SequenceTheorems, TLAPS

---------------------------------------------------------------------------
(* Criteria, seen as sets of groups of alternatives.                       *)

(* The members of a concatenation are the members of its parts. *)
LEMMA InConcat ==
    ASSUME NEW S, NEW s \in Seq(S), NEW t \in Seq(S), NEW x
    PROVE  InSeq(x, s \o t) <=> InSeq(x, s) \/ InSeq(x, t)
<1>1. ASSUME InSeq(x, s \o t) PROVE InSeq(x, s) \/ InSeq(x, t)
    <2>1. PICK i \in DOMAIN (s \o t) : (s \o t)[i] = x
        BY <1>1 DEF InSeq
    <2>2. CASE i <= Len(s)
        BY <2>1, <2>2 DEF InSeq
    <2>3. CASE ~(i <= Len(s))
        <3>1. i - Len(s) \in DOMAIN t /\ t[i - Len(s)] = x
            BY <2>1, <2>3
        <3>. QED BY <3>1 DEF InSeq
    <2>. QED BY <2>2, <2>3
<1>2. ASSUME InSeq(x, s) PROVE InSeq(x, s \o t)
    <2>1. PICK i \in DOMAIN s : s[i] = x
        BY <1>2 DEF InSeq
    <2>2. i \in DOMAIN (s \o t) /\ (s \o t)[i] = x
        BY <2>1
    <2>. QED BY <2>2 DEF InSeq
<1>3. ASSUME InSeq(x, t) PROVE InSeq(x, s \o t)
    <2>1. PICK i \in DOMAIN t : t[i] = x
        BY <1>3 DEF InSeq
    <2>2. Len(s) + i \in DOMAIN (s \o t) /\ (s \o t)[Len(s) + i] = x
        BY <2>1
    <2>. QED BY <2>2 DEF InSeq
<1>. QED BY <1>1, <1>2, <1>3

(* The members of a sequence of at most one element, as AddIf and AppendTo *)
(* make them.                                                              *)
LEMMA AtMostOne ==
    ASSUME NEW S, NEW x \in S, NEW s, s = <<x>> \/ s = <<>>
    PROVE  /\ s \in Seq(S)
           /\ \A y : InSeq(y, s) <=> s # <<>> /\ y = x
<1>1. CASE s = <<x>>
    <2>1. DOMAIN <<x>> = {1} /\ <<x>>[1] = x /\ <<x>> # <<>>
        OBVIOUS
    <2>. QED BY <1>1, <2>1 DEF InSeq
<1>2. CASE s = <<>>
    BY <1>2 DEF InSeq
<1>. QED BY <1>1, <1>2

(* The test of a route for domains, with what they must resolve to. *)
DomainTest(rc) == [Test("toDomains", rc.toDomains, rc) EXCEPT !.expected = ExpectedTests(rc)]

(* The tests that may be made for a route, but for those of the addresses  *)
(* a matched domain resolves to.                                           *)
TestsOf(rc) ==
    {Test("network", {rc.network}, rc), Test("fromServers", rc.fromServers, rc),
     Test("fromIPs", rc.fromIPs, rc), Test("fromCountries", rc.fromCountries, rc),
     Test("fromPorts", rc.fromPorts, rc), DomainTest(rc), Test("toIPs", rc.toIPs, rc),
     Test("toCountries", rc.toCountries, rc), Test("toPorts", rc.toPorts, rc)}

(* The alternatives of the groups that have several. *)
LEMMA SourceAlternatives ==
    ASSUME NEW rc
    PROVE  /\ SourceTests(rc) \in Seq(TestsOf(rc))
           /\ \A t : InSeq(t, SourceTests(rc)) <=>
                \/ rc.fromIPs # {} /\ t = Test("fromIPs", rc.fromIPs, rc)
                \/ rc.fromCountries # {} /\ t = Test("fromCountries", rc.fromCountries, rc)
           /\ SourceTests(rc) = <<>> <=> rc.fromIPs = {} /\ rc.fromCountries = {}
<1>. DEFINE S == TestsOf(rc)
            t1 == Test("fromIPs", rc.fromIPs, rc)
            t2 == Test("fromCountries", rc.fromCountries, rc)
            s1 == AddIf(rc.fromIPs # {}, t1)
            s2 == AddIf(rc.fromCountries # {}, t2)
<1>1. /\ s1 = <<t1>> \/ s1 = <<>>
      /\ s2 = <<t2>> \/ s2 = <<>>
      /\ t1 \in S /\ t2 \in S
      /\ s1 = <<>> <=> rc.fromIPs = {}
      /\ s2 = <<>> <=> rc.fromCountries = {}
    BY DEF AddIf, TestsOf
<1>2. SourceTests(rc) = s1 \o s2
    BY DEF SourceTests
<1>. HIDE DEF S, s1, s2, t1, t2
<1>3. s1 \in Seq(S) /\ \A y : InSeq(y, s1) <=> s1 # <<>> /\ y = t1
    BY <1>1, AtMostOne
<1>4. s2 \in Seq(S) /\ \A y : InSeq(y, s2) <=> s2 # <<>> /\ y = t2
    BY <1>1, AtMostOne
<1>5. \A y : InSeq(y, s1 \o s2) <=> InSeq(y, s1) \/ InSeq(y, s2)
    BY <1>3, <1>4, InConcat
<1>6. s1 \o s2 \in Seq(S) /\ (s1 \o s2 = <<>> <=> s1 = <<>> /\ s2 = <<>>)
    BY <1>3, <1>4
<1>. QED BY <1>1, <1>2, <1>3, <1>4, <1>5, <1>6 DEF S, t1, t2

(* The tests of the addresses a matched domain must resolve to. *)
LEMMA ExpectedAlternatives ==
    ASSUME NEW rc, NEW S,
           Test("expectedIPs", rc.expectedIPs, rc) \in S,
           Test("expectedCountries", rc.expectedCountries, rc) \in S
    PROVE  /\ ExpectedTests(rc) \in Seq(S)
           /\ \A t : InSeq(t, ExpectedTests(rc)) <=>
                \/ rc.expectedIPs # {} /\ t = Test("expectedIPs", rc.expectedIPs, rc)
                \/ rc.expectedCountries # {} /\ t = Test("expectedCountries", rc.expectedCountries, rc)
           /\ ExpectedTests(rc) = <<>> <=> rc.expectedIPs = {} /\ rc.expectedCountries = {}
<1>. DEFINE t1 == Test("expectedIPs", rc.expectedIPs, rc)
            t2 == Test("expectedCountries", rc.expectedCountries, rc)
            s1 == AddIf(rc.expectedIPs # {}, t1)
            s2 == AddIf(rc.expectedCountries # {}, t2)
<1>1. /\ s1 = <<t1>> \/ s1 = <<>>
      /\ s2 = <<t2>> \/ s2 = <<>>
      /\ t1 \in S /\ t2 \in S
      /\ s1 = <<>> <=> rc.expectedIPs = {}
      /\ s2 = <<>> <=> rc.expectedCountries = {}
    BY DEF AddIf
<1>2. ExpectedTests(rc) = s1 \o s2
    BY DEF ExpectedTests
<1>. HIDE DEF s1, s2, t1, t2
<1>3. s1 \in Seq(S) /\ \A y : InSeq(y, s1) <=> s1 # <<>> /\ y = t1
    BY <1>1, AtMostOne
<1>4. s2 \in Seq(S) /\ \A y : InSeq(y, s2) <=> s2 # <<>> /\ y = t2
    BY <1>1, AtMostOne
<1>5. \A y : InSeq(y, s1 \o s2) <=> InSeq(y, s1) \/ InSeq(y, s2)
    BY <1>3, <1>4, InConcat
<1>6. s1 \o s2 \in Seq(S) /\ (s1 \o s2 = <<>> <=> s1 = <<>> /\ s2 = <<>>)
    BY <1>3, <1>4
<1>. QED BY <1>1, <1>2, <1>3, <1>4, <1>5, <1>6 DEF t1, t2

(* The tests of the destination. *)
LEMMA DestAlternatives ==
    ASSUME NEW rc
    PROVE  /\ DestTests(rc) \in Seq(TestsOf(rc))
           /\ \A t : InSeq(t, DestTests(rc)) <=>
                \/ rc.toDomains # {} /\ t = DomainTest(rc)
                \/ rc.toIPs # {} /\ t = Test("toIPs", rc.toIPs, rc)
                \/ rc.toCountries # {} /\ t = Test("toCountries", rc.toCountries, rc)
           /\ DestTests(rc) = <<>> <=> rc.toDomains = {} /\ rc.toIPs = {} /\ rc.toCountries = {}
<1>. DEFINE S == TestsOf(rc)
            t1 == DomainTest(rc)
            t2 == Test("toIPs", rc.toIPs, rc)
            t3 == Test("toCountries", rc.toCountries, rc)
            s1 == AddIf(rc.toDomains # {}, t1)
            s2 == AddIf(rc.toIPs # {}, t2)
            s3 == AddIf(rc.toCountries # {}, t3)
<1>1. /\ s1 = <<t1>> \/ s1 = <<>>
      /\ s2 = <<t2>> \/ s2 = <<>>
      /\ s3 = <<t3>> \/ s3 = <<>>
      /\ t1 \in S /\ t2 \in S /\ t3 \in S
      /\ s1 = <<>> <=> rc.toDomains = {}
      /\ s2 = <<>> <=> rc.toIPs = {}
      /\ s3 = <<>> <=> rc.toCountries = {}
    BY DEF AddIf, TestsOf
<1>2. DestTests(rc) = s1 \o s2 \o s3
    BY DEF DestTests, DomainTest
<1>. HIDE DEF S, s1, s2, s3, t1, t2, t3
<1>3. s1 \in Seq(S) /\ \A y : InSeq(y, s1) <=> s1 # <<>> /\ y = t1
    BY <1>1, AtMostOne
<1>4. s2 \in Seq(S) /\ \A y : InSeq(y, s2) <=> s2 # <<>> /\ y = t2
    BY <1>1, AtMostOne
<1>5. s3 \in Seq(S) /\ \A y : InSeq(y, s3) <=> s3 # <<>> /\ y = t3
    BY <1>1, AtMostOne
<1>6. \A y : InSeq(y, s1 \o s2) <=> InSeq(y, s1) \/ InSeq(y, s2)
    BY <1>3, <1>4, InConcat
<1>7. s1 \o s2 \in Seq(S) /\ (s1 \o s2 = <<>> <=> s1 = <<>> /\ s2 = <<>>)
    BY <1>3, <1>4
<1>8. \A y : InSeq(y, s1 \o s2 \o s3) <=> InSeq(y, s1 \o s2) \/ InSeq(y, s3)
    BY <1>7, <1>5, InConcat
<1>9. /\ s1 \o s2 \o s3 \in Seq(S)
      /\ s1 \o s2 \o s3 = <<>> <=> s1 \o s2 = <<>> /\ s3 = <<>>
    <2>. DEFINE s12 == s1 \o s2
    <2>1. s12 \in Seq(S)
        BY <1>7
    <2>. HIDE DEF S, s12
    <2>2. s12 \o s3 \in Seq(S) /\ (s12 \o s3 = <<>> <=> s12 = <<>> /\ s3 = <<>>)
        BY <2>1, <1>5
    <2>. QED BY <2>2 DEF s12
<1>. QED BY <1>1, <1>2, <1>3, <1>4, <1>5, <1>6, <1>7, <1>8, <1>9 DEF S, t1, t2, t3

(* The groups of alternatives of a route, empty ones included. *)
GroupsOf(rc) ==
    {AddIf(rc.network # "", Test("network", {rc.network}, rc)),
     AddIf(rc.fromServers # {}, Test("fromServers", rc.fromServers, rc)), SourceTests(rc),
     AddIf(rc.fromPorts # {}, Test("fromPorts", rc.fromPorts, rc)), DestTests(rc),
     AddIf(rc.toPorts # {}, Test("toPorts", rc.toPorts, rc))}

(* The criteria of a route are its groups that are not empty. *)
LEMMA CriteriaAreGroups ==
    ASSUME NEW rc
    PROVE  /\ Criteria(rc) \in Seq(Seq(TestsOf(rc)) \ {<<>>})
           /\ \A g : InSeq(g, Criteria(rc)) <=> g # <<>> /\ g \in GroupsOf(rc)
<1>. DEFINE S == TestsOf(rc)
            n == Test("network", {rc.network}, rc)
            f == Test("fromServers", rc.fromServers, rc)
            p == Test("fromPorts", rc.fromPorts, rc)
            q == Test("toPorts", rc.toPorts, rc)
            g1 == AddIf(rc.network # "", n)
            g2 == AddIf(rc.fromServers # {}, f)
            g3 == SourceTests(rc)
            g4 == AddIf(rc.fromPorts # {}, p)
            g5 == DestTests(rc)
            g6 == AddIf(rc.toPorts # {}, q)
            G == Seq(S) \ {<<>>}
            c1 == AppendTo(g1)
            c2 == AppendTo(g2)
            c3 == AppendTo(g3)
            c4 == AppendTo(g4)
            c5 == AppendTo(g5)
            c6 == AppendTo(g6)
<1>1. n \in S /\ f \in S /\ p \in S /\ q \in S
    BY DEF TestsOf
<1>2. g3 \in Seq(S) /\ g5 \in Seq(S)
    BY SourceAlternatives, DestAlternatives
<1>3. /\ g1 = <<n>> \/ g1 = <<>>
      /\ g2 = <<f>> \/ g2 = <<>>
      /\ g4 = <<p>> \/ g4 = <<>>
      /\ g6 = <<q>> \/ g6 = <<>>
    BY DEF AddIf
<1>4. Criteria(rc) = c1 \o c2 \o c3 \o c4 \o c5 \o c6
    BY DEF Criteria
<1>5. GroupsOf(rc) = {g1, g2, g3, g4, g5, g6}
    BY DEF GroupsOf
<1>. HIDE DEF S, n, f, p, q, g1, g2, g3, g4, g5, g6
<1>6. g1 \in Seq(S) /\ g2 \in Seq(S) /\ g4 \in Seq(S) /\ g6 \in Seq(S)
    <2>1. g1 \in Seq(S)
        BY <1>1, <1>3, AtMostOne
    <2>2. g2 \in Seq(S)
        BY <1>1, <1>3, AtMostOne
    <2>3. g4 \in Seq(S)
        BY <1>1, <1>3, AtMostOne
    <2>4. g6 \in Seq(S)
        BY <1>1, <1>3, AtMostOne
    <2>. QED BY <2>1, <2>2, <2>3, <2>4
<1>7. \A g \in Seq(S) : /\ AppendTo(g) \in Seq(G)
                       /\ \A y : InSeq(y, AppendTo(g)) <=> g # <<>> /\ y = g
    <2>. SUFFICES ASSUME NEW g \in Seq(S)
                  PROVE  /\ AppendTo(g) \in Seq(G)
                         /\ \A y : InSeq(y, AppendTo(g)) <=> g # <<>> /\ y = g
        OBVIOUS
    <2>1. CASE g = <<>>
        BY <2>1 DEF AppendTo, InSeq
    <2>2. CASE g # <<>>
        <3>1. AppendTo(g) = <<g>> /\ <<g>> # <<>> /\ g \in G
            BY <2>2 DEF AppendTo
        <3>. HIDE DEF G
        <3>. QED BY <2>2, <3>1, AtMostOne
    <2>. QED BY <2>1, <2>2
<1>8. /\ c1 \in Seq(G) /\ \A y : InSeq(y, c1) <=> g1 # <<>> /\ y = g1
    BY <1>6, <1>7
<1>9. c2 \in Seq(G) /\ \A y : InSeq(y, c2) <=> g2 # <<>> /\ y = g2
    BY <1>6, <1>7
<1>10. c3 \in Seq(G) /\ \A y : InSeq(y, c3) <=> g3 # <<>> /\ y = g3
    BY <1>2, <1>7
<1>11. c4 \in Seq(G) /\ \A y : InSeq(y, c4) <=> g4 # <<>> /\ y = g4
    BY <1>6, <1>7
<1>12. c5 \in Seq(G) /\ \A y : InSeq(y, c5) <=> g5 # <<>> /\ y = g5
    BY <1>2, <1>7
<1>13. c6 \in Seq(G) /\ \A y : InSeq(y, c6) <=> g6 # <<>> /\ y = g6
    BY <1>6, <1>7
<1>. DEFINE d2 == c1 \o c2
            d3 == d2 \o c3
            d4 == d3 \o c4
            d5 == d4 \o c5
            d6 == d5 \o c6
<1>14. Criteria(rc) = d6
    BY <1>4
<1>. HIDE DEF G, c1, c2, c3, c4, c5, c6
<1>15. d2 \in Seq(G) /\ \A y : InSeq(y, d2) <=> InSeq(y, c1) \/ InSeq(y, c2)
    BY <1>8, <1>9, InConcat
<1>. HIDE DEF d2
<1>16. d3 \in Seq(G) /\ \A y : InSeq(y, d3) <=> InSeq(y, d2) \/ InSeq(y, c3)
    BY <1>15, <1>10, InConcat
<1>. HIDE DEF d3
<1>17. d4 \in Seq(G) /\ \A y : InSeq(y, d4) <=> InSeq(y, d3) \/ InSeq(y, c4)
    BY <1>16, <1>11, InConcat
<1>. HIDE DEF d4
<1>18. d5 \in Seq(G) /\ \A y : InSeq(y, d5) <=> InSeq(y, d4) \/ InSeq(y, c5)
    BY <1>17, <1>12, InConcat
<1>. HIDE DEF d5
<1>19. d6 \in Seq(G) /\ \A y : InSeq(y, d6) <=> InSeq(y, d5) \/ InSeq(y, c6)
    BY <1>18, <1>13, InConcat
<1>. HIDE DEF d6
<1>20. \A y : InSeq(y, d6) <=> y # <<>> /\ y \in {g1, g2, g3, g4, g5, g6}
    BY <1>8, <1>9, <1>10, <1>11, <1>12, <1>13, <1>15, <1>16, <1>17, <1>18, <1>19
<1>. QED BY <1>5, <1>14, <1>19, <1>20 DEF G, S

---------------------------------------------------------------------------
(* What one test says.                                                     *)

(* What is put together and never changes. *)
Given ==
    /\ config \in Configs
    /\ request \in Requests
    /\ answer \in [{config.resolvers[i] : i \in DOMAIN config.resolvers}
                     -> Results \cup {ErrLookup, OtherError}]

Errors == {ErrLookup, OtherError}

(* The resolvers of a route that was not refused are resolvers that answer.*)
LEMMA ResolversAnswer ==
    ASSUME Given, NEW rc \in RouteConfigs, ~RouteRefused(rc, config)
    PROVE  /\ ResolversOf(rc, config) \in Seq(STRING)
           /\ \A i \in DOMAIN ResolversOf(rc, config) :
                 answer[ResolversOf(rc, config)[i]] \in Results \cup Errors
<1>1. config.resolvers \in Seq(STRING) /\ rc.resolver \in STRING
    BY DEF Given, Configs, RouteConfigs
<1>2. \A i \in DOMAIN config.resolvers : answer[config.resolvers[i]] \in Results \cup Errors
    BY DEF Given, Errors
<1>3. CASE rc.resolver = ""
    BY <1>1, <1>2, <1>3 DEF ResolversOf
<1>4. CASE rc.resolver # ""
    <2>1. PICK i \in DOMAIN config.resolvers : config.resolvers[i] = rc.resolver
        BY <1>4 DEF RouteRefused, InSeq
    <2>2. ResolversOf(rc, config) = <<rc.resolver>>
        BY <1>4 DEF ResolversOf
    <2>3. DOMAIN <<rc.resolver>> = {1} /\ <<rc.resolver>>[1] = rc.resolver
        OBVIOUS
    <2>. QED BY <1>1, <1>2, <2>1, <2>2, <2>3
<1>. QED BY <1>3, <1>4

(* The first member of a set of indices. *)
LEMMA FirstIndex ==
    ASSUME NEW I, I \subseteq Nat, I # {}
    PROVE  LET f == CHOOSE i \in I : \A j \in I : i <= j
           IN  f \in I /\ \A j \in I : f <= j
BY LeastNat

(* A lookup that succeeds gives the addresses the target is known by; one  *)
(* that fails does so because no resolver of the route knows better.       *)
LEMMA LookupIs ==
    ASSUME Given, NEW rc \in RouteConfigs, ~RouteRefused(rc, config)
    PROVE  LET r == RouteOf(rc, config)
               rs == ResolversOf(rc, config)
           IN  /\ Lookup(r) \notin Errors =>
                     /\ Lookup(r) \in Results
                     /\ Known(rc) = {ip \in IPs : FirstAddress(Lookup(r)) = <<ip>>}
               /\ Lookup(r) \in Errors =>
                     \A i \in DOMAIN rs : answer[rs[i]] = ErrLookup
                                          \/ \E j \in 1..i : answer[rs[j]] = OtherError
<1>. DEFINE r == RouteOf(rc, config)
            rs == ResolversOf(rc, config)
            tried == {i \in DOMAIN rs : answer[rs[i]] # ErrLookup}
            f == CHOOSE i \in tried : \A j \in tried : i <= j
            ok == {i \in DOMAIN rs : answer[rs[i]] \notin Errors}
            g == CHOOSE i \in ok : \A j \in ok : i <= j
<1>1. rs \in Seq(STRING) /\ \A i \in DOMAIN rs : answer[rs[i]] \in Results \cup Errors
    BY ResolversAnswer
<1>2. r.resolvers = rs
    BY DEF RouteOf
<1>3. Lookup(r) = IF tried = {} THEN ErrLookup ELSE answer[rs[f]]
    BY <1>2 DEF Lookup
<1>4. Known(rc) = IF ok = {} THEN {} ELSE {ip \in IPs : FirstAddress(answer[rs[g]]) = <<ip>>}
    BY DEF Known, Errors
<1>. HIDE DEF r, rs
<1>5. /\ tried \subseteq Nat /\ ok \subseteq Nat
    BY <1>1
<1>6. tried # {} => f \in tried /\ \A j \in tried : f <= j
    BY <1>5, FirstIndex
<1>7. ok # {} => g \in ok /\ \A j \in ok : g <= j
    BY <1>5, FirstIndex
<1>. HIDE DEF f, g
<1>8. ASSUME Lookup(r) \notin Errors
      PROVE  /\ Lookup(r) \in Results
             /\ Known(rc) = {ip \in IPs : FirstAddress(Lookup(r)) = <<ip>>}
    <2>1. tried # {} /\ Lookup(r) = answer[rs[f]]
        BY <1>3, <1>8 DEF Errors
    <2>2. f \in ok
        BY <1>6, <1>8, <2>1
    <2>3. ok \subseteq tried
        BY DEF Errors
    <2>4. g = f
        BY <1>5, <1>6, <1>7, <2>1, <2>2, <2>3
    <2>. QED BY <1>1, <1>4, <1>6, <1>8, <2>1, <2>2, <2>4
<1>9. ASSUME Lookup(r) \in Errors, NEW i \in DOMAIN rs, answer[rs[i]] # ErrLookup
      PROVE  \E j \in 1..i : answer[rs[j]] = OtherError
    <2>1. i \in tried /\ f \in tried /\ f <= i
        BY <1>6, <1>9
    <2>2. answer[rs[f]] = OtherError
        BY <1>3, <1>9, <2>1 DEF Errors
    <2>3. f \in 1..i
        BY <1>1, <2>1
    <2>. QED BY <2>2, <2>3
<1>. QED BY <1>8, <1>9 DEF r, rs

(* The first address of a result, when it has one. *)
LEMMA FirstAddressIs ==
    ASSUME NEW res \in Results, FirstAddress(res) # <<>>
    PROVE  /\ FirstAddress(res)[1] \in IPs
           /\ FirstAddress(res) = <<FirstAddress(res)[1]>>
BY DEF FirstAddress, Results

(* What the comments on RouteConfig say of one field of a route. *)
FieldHolds(rc, kind) ==
    \/ kind = "network" /\ request.network = rc.network
    \/ kind = "fromServers" /\ Holds(rc, "fromServers", request.server \in rc.fromServers)
    \/ kind = "fromIPs" /\ Holds(rc, "fromIPs", request.source \in rc.fromIPs)
    \/ kind = "fromCountries" /\ Holds(rc, "fromCountries", InCountry({request.source}, rc.fromCountries))
    \/ kind = "fromPorts" /\ Holds(rc, "fromPorts", request.sourcePort \in rc.fromPorts)
    \/ kind = "toDomains" /\ Holds(rc, "toDomains", request.target \in rc.toDomains /\ Expected(rc))
    \/ kind = "expectedIPs" /\ Holds(rc, "expectedIPs", TargetIPs(rc, TRUE) \cap rc.expectedIPs # {})
    \/ kind = "expectedCountries" /\ Holds(rc, "expectedCountries", InCountry(TargetIPs(rc, TRUE), rc.expectedCountries))
    \/ kind = "toIPs" /\ Holds(rc, "toIPs", TargetIPs(rc, ~rc.disableNameResolution) \cap rc.toIPs # {})
    \/ kind = "toCountries" /\ Holds(rc, "toCountries", InCountry(TargetIPs(rc, ~rc.disableNameResolution), rc.toCountries))
    \/ kind = "toPorts" /\ Holds(rc, "toPorts", request.targetPort \in rc.toPorts)

Verdicts == {"met", "not", "error"}

(* The target is among some addresses. *)
LEMMA TargetInIPs ==
    ASSUME Given, NEW rc \in RouteConfigs, ~RouteRefused(rc, config), NEW resolve \in BOOLEAN, NEW set
    PROVE  LET r == RouteOf(rc, config)
               m == TargetMeets(r, resolve, InIPs, set)
           IN  /\ m \in Verdicts
               /\ m = "met" => TargetIPs(rc, resolve) \cap set # {}
               /\ m = "not" => TargetIPs(rc, resolve) \cap set = {}
               /\ m = "error" => resolve /\ request.target \notin IPs /\ Lookup(r) \in Errors
<1>. DEFINE r == RouteOf(rc, config)
            m == TargetMeets(r, resolve, InIPs, set)
            a == FirstAddress(Lookup(r))
<1>1. /\ Lookup(r) \notin Errors => Lookup(r) \in Results /\ Known(rc) = {ip \in IPs : a = <<ip>>}
    BY LookupIs
<1>2. Lookup(r) \notin Errors /\ a # <<>> => a[1] \in IPs /\ a = <<a[1]>>
    BY <1>1, FirstAddressIs
<1>3. m = IF request.target \in IPs THEN InIPs(request.target, set)
          ELSE IF ~resolve THEN "not"
          ELSE IF Lookup(r) \in Errors THEN "error"
          ELSE IF a = <<>> THEN "not" ELSE InIPs(a[1], set)
    BY DEF TargetMeets, Errors
<1>4. TargetIPs(rc, resolve) =
          IF request.target \in IPs THEN {request.target} ELSE IF resolve THEN Known(rc) ELSE {}
    BY DEF TargetIPs
<1>. SUFFICES /\ m \in Verdicts
              /\ m = "met" => TargetIPs(rc, resolve) \cap set # {}
              /\ m = "not" => TargetIPs(rc, resolve) \cap set = {}
              /\ m = "error" => resolve /\ request.target \notin IPs /\ Lookup(r) \in Errors
    OBVIOUS
<1>. HIDE DEF r, m, a
<1>5. CASE request.target \in IPs
    BY <1>3, <1>4, <1>5 DEF InIPs, MetIf, Verdicts
<1>6. CASE request.target \notin IPs /\ ~resolve
    BY <1>3, <1>4, <1>6 DEF Verdicts
<1>7. CASE request.target \notin IPs /\ resolve /\ Lookup(r) \in Errors
    BY <1>3, <1>7 DEF Verdicts
<1>8. CASE request.target \notin IPs /\ resolve /\ Lookup(r) \notin Errors /\ a = <<>>
    <2>1. Known(rc) = {}
        BY <1>1, <1>8
    <2>. QED BY <1>3, <1>4, <1>8, <2>1 DEF Verdicts
<1>9. CASE request.target \notin IPs /\ resolve /\ Lookup(r) \notin Errors /\ a # <<>>
    <2>1. Known(rc) = {a[1]}
        BY <1>1, <1>2, <1>9
    <2>. QED BY <1>3, <1>4, <1>9, <2>1 DEF InIPs, MetIf, Verdicts
<1>. QED BY <1>5, <1>6, <1>7, <1>8, <1>9

(* The target is in some countries. *)
LEMMA TargetInCountries ==
    ASSUME Given, NEW rc \in RouteConfigs, ~RouteRefused(rc, config), NEW resolve \in BOOLEAN, NEW set
    PROVE  LET r == RouteOf(rc, config)
               m == TargetMeets(r, resolve, InCountries, set)
           IN  /\ m \in Verdicts
               /\ m = "met" => InCountry(TargetIPs(rc, resolve), set)
               /\ m = "not" => ~InCountry(TargetIPs(rc, resolve), set)
               /\ m = "error" =>
                     \/ resolve /\ request.target \notin IPs /\ Lookup(r) \in Errors
                     \/ \E ip \in TargetIPs(rc, resolve) : CountryOf[ip] = GeoIPError
<1>. DEFINE r == RouteOf(rc, config)
            m == TargetMeets(r, resolve, InCountries, set)
            a == FirstAddress(Lookup(r))
<1>1. /\ Lookup(r) \notin Errors => Lookup(r) \in Results /\ Known(rc) = {ip \in IPs : a = <<ip>>}
    BY LookupIs
<1>2. Lookup(r) \notin Errors /\ a # <<>> => a[1] \in IPs /\ a = <<a[1]>>
    BY <1>1, FirstAddressIs
<1>3. m = IF request.target \in IPs THEN InCountries(request.target, set)
          ELSE IF ~resolve THEN "not"
          ELSE IF Lookup(r) \in Errors THEN "error"
          ELSE IF a = <<>> THEN "not" ELSE InCountries(a[1], set)
    BY DEF TargetMeets, Errors
<1>4. TargetIPs(rc, resolve) =
          IF request.target \in IPs THEN {request.target} ELSE IF resolve THEN Known(rc) ELSE {}
    BY DEF TargetIPs
<1>. SUFFICES /\ m \in Verdicts
              /\ m = "met" => InCountry(TargetIPs(rc, resolve), set)
              /\ m = "not" => ~InCountry(TargetIPs(rc, resolve), set)
              /\ m = "error" =>
                    \/ resolve /\ request.target \notin IPs /\ Lookup(r) \in Errors
                    \/ \E ip \in TargetIPs(rc, resolve) : CountryOf[ip] = GeoIPError
    OBVIOUS
<1>. HIDE DEF r, m, a
<1>5. CASE request.target \in IPs
    BY <1>3, <1>4, <1>5 DEF InCountries, MetIf, Verdicts, InCountry
<1>6. CASE request.target \notin IPs /\ ~resolve
    BY <1>3, <1>4, <1>6 DEF Verdicts, InCountry
<1>7. CASE request.target \notin IPs /\ resolve /\ Lookup(r) \in Errors
    BY <1>3, <1>7 DEF Verdicts
<1>8. CASE request.target \notin IPs /\ resolve /\ Lookup(r) \notin Errors /\ a = <<>>
    <2>1. Known(rc) = {}
        BY <1>1, <1>8
    <2>. QED BY <1>3, <1>4, <1>8, <2>1 DEF Verdicts, InCountry
<1>9. CASE request.target \notin IPs /\ resolve /\ Lookup(r) \notin Errors /\ a # <<>>
    <2>1. Known(rc) = {a[1]}
        BY <1>1, <1>2, <1>9
    <2>. QED BY <1>3, <1>4, <1>9, <2>1 DEF InCountries, MetIf, Verdicts, InCountry
<1>. QED BY <1>5, <1>6, <1>7, <1>8, <1>9

(* Inversion turns a verdict around and leaves an error alone. *)
LEMMA InvertedIs ==
    ASSUME NEW t, NEW m \in Verdicts
    PROVE  /\ Inverted(t, m) \in Verdicts
           /\ Inverted(t, m) = "met" => IF t.invert THEN m = "not" ELSE m = "met"
           /\ Inverted(t, m) = "not" => IF t.invert THEN m = "met" ELSE m = "not"
           /\ Inverted(t, m) = "error" => m = "error"
BY DEF Inverted, Verdicts

(* A group says what its first member says that is met or fails. *)
LEMMA GroupIs ==
    ASSUME NEW r, NEW S, NEW group \in Seq(S),
           \A t : InSeq(t, group) => Inverted(t, Plain(r, t)) \in Verdicts
    PROVE  /\ GroupMet(r, group) \in Verdicts
           /\ GroupMet(r, group) = "not" =>
                 \A t : InSeq(t, group) => Inverted(t, Plain(r, t)) = "not"
           /\ GroupMet(r, group) # "not" =>
                 \E t : InSeq(t, group) /\ Inverted(t, Plain(r, t)) = GroupMet(r, group)
<1>. DEFINE result == [i \in DOMAIN group |-> Inverted(group[i], Plain(r, group[i]))]
            decided == {i \in DOMAIN group : result[i] # "not"}
            f == CHOOSE i \in decided : \A j \in decided : i <= j
<1>1. GroupMet(r, group) = IF decided = {} THEN "not" ELSE result[f]
    BY DEF GroupMet
<1>2. \A i \in DOMAIN group : InSeq(group[i], group)
    BY DEF InSeq
<1>3. \A t : InSeq(t, group) => \E i \in DOMAIN group : t = group[i]
    BY DEF InSeq
<1>4. decided \subseteq Nat
    OBVIOUS
<1>5. decided # {} => f \in decided
    BY <1>4, FirstIndex
<1>. HIDE DEF f
<1>6. CASE decided = {}
    <2>1. \A i \in DOMAIN group : Inverted(group[i], Plain(r, group[i])) = "not"
        BY <1>6
    <2>. QED BY <1>1, <1>3, <1>6, <2>1 DEF Verdicts
<1>7. CASE decided # {}
    <2>1. /\ f \in DOMAIN group
          /\ result[f] = Inverted(group[f], Plain(r, group[f]))
          /\ result[f] # "not"
        BY <1>5, <1>7
    <2>. QED BY <1>1, <1>2, <1>7, <2>1
<1>. QED BY <1>6, <1>7

(* A cause for the failure of a match. *)
Cause(rc) ==
    LET rs == ResolversOf(rc, config)
    IN  \/ rc.fromCountries # {} /\ CountryOf[request.source] = GeoIPError
        \/ rc.toCountries \cup rc.expectedCountries # {}
           /\ \E ip \in TargetIPs(rc, TRUE) : CountryOf[ip] = GeoIPError
        \/ /\ request.target \in Domains /\ NeedsResolver(rc)
           /\ \A i \in DOMAIN rs : answer[rs[i]] = ErrLookup
                                  \/ \E j \in 1..i : answer[rs[j]] = OtherError

(* What a verdict on a field stands for. *)
Stands(rc, kind, m) ==
    /\ m \in Verdicts
    /\ m = "met" => FieldHolds(rc, kind)
    /\ m = "not" => ~FieldHolds(rc, kind)
    /\ m = "error" => Cause(rc)

(* A failed lookup is a cause, where the route may look up. *)
LEMMA FailedLookupIsCause ==
    ASSUME Given, NEW rc \in RouteConfigs, ~RouteRefused(rc, config), NeedsResolver(rc),
           request.target \notin IPs, Lookup(RouteOf(rc, config)) \in Errors
    PROVE  Cause(rc)
<1>1. request.target \in Domains
    BY DEF Given, Requests
<1>2. LET rs == ResolversOf(rc, config)
      IN  \A i \in DOMAIN rs : answer[rs[i]] = ErrLookup
                              \/ \E j \in 1..i : answer[rs[j]] = OtherError
    BY LookupIs
<1>. QED BY <1>1, <1>2 DEF Cause

(* The fields of a test without expected addresses. *)
LEMMA TestIs ==
    ASSUME NEW rc, NEW kind, NEW set
    PROVE  LET t == Test(kind, set, rc)
           IN  t.kind = kind /\ t.set = set /\ t.expected = <<>> /\ (t.invert <=> kind \in rc.invert)
BY DEF Test

(* The tests of the addresses a matched domain resolves to. *)
LEMMA ExpectedIPsTest ==
    ASSUME Given, NEW rc \in RouteConfigs, ~RouteRefused(rc, config), rc.expectedIPs # {}
    PROVE  LET t == Test("expectedIPs", rc.expectedIPs, rc)
           IN  Stands(rc, "expectedIPs", Inverted(t, Plain(RouteOf(rc, config), t)))
<1>. DEFINE r == RouteOf(rc, config)
            t == Test("expectedIPs", rc.expectedIPs, rc)
            m == TargetMeets(r, TRUE, InIPs, rc.expectedIPs)
            b == TargetIPs(rc, TRUE) \cap rc.expectedIPs # {}
<1>1. t.kind = "expectedIPs" /\ t.set = rc.expectedIPs /\ (t.invert <=> "expectedIPs" \in rc.invert)
    BY TestIs
<1>2. Plain(r, t) = m
    BY <1>1 DEF Plain
<1>3. /\ m \in Verdicts /\ (m = "met" => b) /\ (m = "not" => ~b)
      /\ m = "error" => request.target \notin IPs /\ Lookup(r) \in Errors
    BY TargetInIPs
<1>4. m = "error" => Cause(rc)
    BY <1>3, FailedLookupIsCause DEF NeedsResolver, HasExpectedIP
<1>5. FieldHolds(rc, "expectedIPs") <=> IF "expectedIPs" \in rc.invert THEN ~b ELSE b
    BY DEF FieldHolds, Holds
<1>. HIDE DEF m, t, r
<1>6. LET i == Inverted(t, m)
      IN  /\ i \in Verdicts
          /\ i = "met" => IF t.invert THEN m = "not" ELSE m = "met"
          /\ i = "not" => IF t.invert THEN m = "met" ELSE m = "not"
          /\ i = "error" => m = "error"
    BY <1>3, InvertedIs
<1>7. Stands(rc, "expectedIPs", Inverted(t, m))
    BY <1>1, <1>3, <1>4, <1>5, <1>6 DEF Stands
<1>. QED BY <1>2, <1>7 DEF t, r

(* The verdict on the countries expected is what the field says. *)
LEMMA ExpectedCountriesTest ==
    ASSUME Given, NEW rc \in RouteConfigs, ~RouteRefused(rc, config), rc.expectedCountries # {}
    PROVE  LET t == Test("expectedCountries", rc.expectedCountries, rc)
           IN  Stands(rc, "expectedCountries", Inverted(t, Plain(RouteOf(rc, config), t)))
<1>. DEFINE r == RouteOf(rc, config)
            t == Test("expectedCountries", rc.expectedCountries, rc)
            m == TargetMeets(r, TRUE, InCountries, rc.expectedCountries)
            b == InCountry(TargetIPs(rc, TRUE), rc.expectedCountries)
<1>1. t.kind = "expectedCountries" /\ t.set = rc.expectedCountries /\ (t.invert <=> "expectedCountries" \in rc.invert)
    BY TestIs
<1>2. Plain(r, t) = m
    BY <1>1 DEF Plain
<1>3. /\ m \in Verdicts /\ (m = "met" => b) /\ (m = "not" => ~b)
      /\ m = "error" => \/ request.target \notin IPs /\ Lookup(r) \in Errors
                        \/ \E ip \in TargetIPs(rc, TRUE) : CountryOf[ip] = GeoIPError
    BY TargetInCountries
<1>4. m = "error" => Cause(rc)
    <2>1. CASE request.target \notin IPs /\ Lookup(r) \in Errors
        BY <2>1, FailedLookupIsCause DEF NeedsResolver, HasExpectedIP
    <2>2. CASE \E ip \in TargetIPs(rc, TRUE) : CountryOf[ip] = GeoIPError
        BY <2>2 DEF Cause
    <2>. QED BY <1>3, <2>1, <2>2
<1>5. FieldHolds(rc, "expectedCountries") <=> IF "expectedCountries" \in rc.invert THEN ~b ELSE b
    BY DEF FieldHolds, Holds
<1>. HIDE DEF m, t, r
<1>6. LET i == Inverted(t, m)
      IN  /\ i \in Verdicts
          /\ i = "met" => IF t.invert THEN m = "not" ELSE m = "met"
          /\ i = "not" => IF t.invert THEN m = "met" ELSE m = "not"
          /\ i = "error" => m = "error"
    BY <1>3, InvertedIs
<1>7. Stands(rc, "expectedCountries", Inverted(t, m))
    BY <1>1, <1>3, <1>4, <1>5, <1>6 DEF Stands
<1>. QED BY <1>2, <1>7 DEF t, r

(* The tests of the target's address. *)
LEMMA ToIPsTest ==
    ASSUME Given, NEW rc \in RouteConfigs, ~RouteRefused(rc, config), rc.toIPs # {}
    PROVE  LET t == Test("toIPs", rc.toIPs, rc)
           IN  Stands(rc, "toIPs", Inverted(t, Plain(RouteOf(rc, config), t)))
<1>. DEFINE r == RouteOf(rc, config)
            t == Test("toIPs", rc.toIPs, rc)
            m == TargetMeets(r, r.resolve, InIPs, rc.toIPs)
            b == TargetIPs(rc, ~rc.disableNameResolution) \cap rc.toIPs # {}
<1>1. t.kind = "toIPs" /\ t.set = rc.toIPs /\ (t.invert <=> "toIPs" \in rc.invert)
    BY TestIs
<1>2. Plain(r, t) = m
    BY <1>1 DEF Plain
<1>. DEFINE v == r.resolve
<1>3. /\ m \in Verdicts /\ (m = "met" => b) /\ (m = "not" => ~b)
      /\ m = "error" => ~rc.disableNameResolution /\ request.target \notin IPs /\ Lookup(r) \in Errors
    <2>1. v \in BOOLEAN /\ (v <=> ~rc.disableNameResolution)
        BY DEF RouteOf, RouteConfigs
    <2>2. TargetIPs(rc, v) = TargetIPs(rc, ~rc.disableNameResolution)
        BY <2>1 DEF TargetIPs
    <2>3. /\ m \in Verdicts
          /\ m = "met" => TargetIPs(rc, v) \cap rc.toIPs # {}
          /\ m = "not" => TargetIPs(rc, v) \cap rc.toIPs = {}
          /\ m = "error" => v /\ request.target \notin IPs /\ Lookup(r) \in Errors
        BY <2>1, TargetInIPs
    <2>. HIDE DEF v, m, r
    <2>. QED BY <2>1, <2>2, <2>3
<1>4. m = "error" => Cause(rc)
    BY <1>3, FailedLookupIsCause DEF NeedsResolver
<1>5. FieldHolds(rc, "toIPs") <=> IF "toIPs" \in rc.invert THEN ~b ELSE b
    BY DEF FieldHolds, Holds
<1>. HIDE DEF m, t, r
<1>6. LET i == Inverted(t, m)
      IN  /\ i \in Verdicts
          /\ i = "met" => IF t.invert THEN m = "not" ELSE m = "met"
          /\ i = "not" => IF t.invert THEN m = "met" ELSE m = "not"
          /\ i = "error" => m = "error"
    BY <1>3, InvertedIs
<1>7. Stands(rc, "toIPs", Inverted(t, m))
    BY <1>1, <1>3, <1>4, <1>5, <1>6 DEF Stands
<1>. QED BY <1>2, <1>7 DEF t, r

(* The verdict on the countries of the destination is what the field says. *)
LEMMA ToCountriesTest ==
    ASSUME Given, NEW rc \in RouteConfigs, ~RouteRefused(rc, config), rc.toCountries # {}
    PROVE  LET t == Test("toCountries", rc.toCountries, rc)
           IN  Stands(rc, "toCountries", Inverted(t, Plain(RouteOf(rc, config), t)))
<1>. DEFINE r == RouteOf(rc, config)
            t == Test("toCountries", rc.toCountries, rc)
            m == TargetMeets(r, r.resolve, InCountries, rc.toCountries)
            b == InCountry(TargetIPs(rc, ~rc.disableNameResolution), rc.toCountries)
<1>1. t.kind = "toCountries" /\ t.set = rc.toCountries /\ (t.invert <=> "toCountries" \in rc.invert)
    BY TestIs
<1>2. Plain(r, t) = m
    BY <1>1 DEF Plain
<1>. DEFINE v == r.resolve
<1>3. /\ m \in Verdicts /\ (m = "met" => b) /\ (m = "not" => ~b)
      /\ m = "error" =>
            \/ ~rc.disableNameResolution /\ request.target \notin IPs /\ Lookup(r) \in Errors
            \/ \E ip \in TargetIPs(rc, TRUE) : CountryOf[ip] = GeoIPError
    <2>1. v \in BOOLEAN /\ (v <=> ~rc.disableNameResolution)
        BY DEF RouteOf, RouteConfigs
    <2>2. /\ TargetIPs(rc, v) = TargetIPs(rc, ~rc.disableNameResolution)
          /\ TargetIPs(rc, v) \subseteq TargetIPs(rc, TRUE)
        BY <2>1 DEF TargetIPs
    <2>3. /\ m \in Verdicts
          /\ m = "met" => InCountry(TargetIPs(rc, v), rc.toCountries)
          /\ m = "not" => ~InCountry(TargetIPs(rc, v), rc.toCountries)
          /\ m = "error" => \/ v /\ request.target \notin IPs /\ Lookup(r) \in Errors
                            \/ \E ip \in TargetIPs(rc, v) : CountryOf[ip] = GeoIPError
        BY <2>1, TargetInCountries
    <2>. HIDE DEF v, m, r
    <2>. QED BY <2>1, <2>2, <2>3
<1>4. m = "error" => Cause(rc)
    <2>1. CASE ~rc.disableNameResolution /\ request.target \notin IPs /\ Lookup(r) \in Errors
        BY <2>1, FailedLookupIsCause DEF NeedsResolver
    <2>2. CASE \E ip \in TargetIPs(rc, TRUE) : CountryOf[ip] = GeoIPError
        BY <2>2 DEF Cause
    <2>. QED BY <1>3, <2>1, <2>2
<1>5. FieldHolds(rc, "toCountries") <=> IF "toCountries" \in rc.invert THEN ~b ELSE b
    BY DEF FieldHolds, Holds
<1>. HIDE DEF m, t, r
<1>6. LET i == Inverted(t, m)
      IN  /\ i \in Verdicts
          /\ i = "met" => IF t.invert THEN m = "not" ELSE m = "met"
          /\ i = "not" => IF t.invert THEN m = "met" ELSE m = "not"
          /\ i = "error" => m = "error"
    BY <1>3, InvertedIs
<1>7. Stands(rc, "toCountries", Inverted(t, m))
    BY <1>1, <1>3, <1>4, <1>5, <1>6 DEF Stands
<1>. QED BY <1>2, <1>7 DEF t, r

(* The tests of the other fields of the request. *)
LEMMA FromCountriesTest ==
    ASSUME Given, NEW rc \in RouteConfigs, ~RouteRefused(rc, config), rc.fromCountries # {}
    PROVE  LET t == Test("fromCountries", rc.fromCountries, rc)
           IN  Stands(rc, "fromCountries", Inverted(t, Plain(RouteOf(rc, config), t)))
<1>. DEFINE r == RouteOf(rc, config)
            t == Test("fromCountries", rc.fromCountries, rc)
            m == InCountries(request.source, rc.fromCountries)
            b == InCountry({request.source}, rc.fromCountries)
<1>1. t.kind = "fromCountries" /\ t.set = rc.fromCountries /\ (t.invert <=> "fromCountries" \in rc.invert)
    BY TestIs
<1>2. Plain(r, t) = m
    BY <1>1 DEF Plain
<1>3. /\ m \in Verdicts /\ (m = "met" => b) /\ (m = "not" => ~b)
      /\ m = "error" => CountryOf[request.source] = GeoIPError
    BY DEF InCountries, InCountry, MetIf, Verdicts
<1>4. m = "error" => Cause(rc)
    BY <1>3 DEF Cause
<1>5. FieldHolds(rc, "fromCountries") <=> IF "fromCountries" \in rc.invert THEN ~b ELSE b
    BY DEF FieldHolds, Holds
<1>. HIDE DEF m, t, r
<1>6. LET i == Inverted(t, m)
      IN  /\ i \in Verdicts
          /\ i = "met" => IF t.invert THEN m = "not" ELSE m = "met"
          /\ i = "not" => IF t.invert THEN m = "met" ELSE m = "not"
          /\ i = "error" => m = "error"
    BY <1>3, InvertedIs
<1>7. Stands(rc, "fromCountries", Inverted(t, m))
    BY <1>1, <1>3, <1>4, <1>5, <1>6 DEF Stands
<1>. QED BY <1>2, <1>7 DEF t, r

(* The verdict on the source address is what the field says. *)
LEMMA FromIPsTest ==
    ASSUME Given, NEW rc \in RouteConfigs, ~RouteRefused(rc, config), rc.fromIPs # {}
    PROVE  LET t == Test("fromIPs", rc.fromIPs, rc)
           IN  Stands(rc, "fromIPs", Inverted(t, Plain(RouteOf(rc, config), t)))
<1>. DEFINE r == RouteOf(rc, config)
            t == Test("fromIPs", rc.fromIPs, rc)
            m == InIPs(request.source, rc.fromIPs)
            b == request.source \in rc.fromIPs
<1>1. t.kind = "fromIPs" /\ t.set = rc.fromIPs /\ (t.invert <=> "fromIPs" \in rc.invert)
    BY TestIs
<1>2. Plain(r, t) = m
    BY <1>1 DEF Plain
<1>3. m \in Verdicts /\ (m = "met" => b) /\ (m = "not" => ~b) /\ m # "error"
    BY DEF InIPs, MetIf, Verdicts
<1>4. m = "error" => Cause(rc)
    BY <1>3
<1>5. FieldHolds(rc, "fromIPs") <=> IF "fromIPs" \in rc.invert THEN ~b ELSE b
    BY DEF FieldHolds, Holds
<1>. HIDE DEF m, t, r
<1>6. LET i == Inverted(t, m)
      IN  /\ i \in Verdicts
          /\ i = "met" => IF t.invert THEN m = "not" ELSE m = "met"
          /\ i = "not" => IF t.invert THEN m = "met" ELSE m = "not"
          /\ i = "error" => m = "error"
    BY <1>3, InvertedIs
<1>7. Stands(rc, "fromIPs", Inverted(t, m))
    BY <1>1, <1>3, <1>4, <1>5, <1>6 DEF Stands
<1>. QED BY <1>2, <1>7 DEF t, r

(* The verdict on the server is what the field says. *)
LEMMA FromServersTest ==
    ASSUME Given, NEW rc \in RouteConfigs, ~RouteRefused(rc, config), rc.fromServers # {}
    PROVE  LET t == Test("fromServers", rc.fromServers, rc)
           IN  Stands(rc, "fromServers", Inverted(t, Plain(RouteOf(rc, config), t)))
<1>. DEFINE r == RouteOf(rc, config)
            t == Test("fromServers", rc.fromServers, rc)
            m == MetIf(request.server \in rc.fromServers)
            b == request.server \in rc.fromServers
<1>1. t.kind = "fromServers" /\ t.set = rc.fromServers /\ (t.invert <=> "fromServers" \in rc.invert)
    BY TestIs
<1>2. Plain(r, t) = m
    BY <1>1 DEF Plain
<1>3. m \in Verdicts /\ (m = "met" => b) /\ (m = "not" => ~b) /\ m # "error"
    BY DEF MetIf, Verdicts
<1>4. m = "error" => Cause(rc)
    BY <1>3
<1>5. FieldHolds(rc, "fromServers") <=> IF "fromServers" \in rc.invert THEN ~b ELSE b
    BY DEF FieldHolds, Holds
<1>. HIDE DEF m, t, r
<1>6. LET i == Inverted(t, m)
      IN  /\ i \in Verdicts
          /\ i = "met" => IF t.invert THEN m = "not" ELSE m = "met"
          /\ i = "not" => IF t.invert THEN m = "met" ELSE m = "not"
          /\ i = "error" => m = "error"
    BY <1>3, InvertedIs
<1>7. Stands(rc, "fromServers", Inverted(t, m))
    BY <1>1, <1>3, <1>4, <1>5, <1>6 DEF Stands
<1>. QED BY <1>2, <1>7 DEF t, r

(* The verdict on the source port is what the field says. *)
LEMMA FromPortsTest ==
    ASSUME Given, NEW rc \in RouteConfigs, ~RouteRefused(rc, config), rc.fromPorts # {}
    PROVE  LET t == Test("fromPorts", rc.fromPorts, rc)
           IN  Stands(rc, "fromPorts", Inverted(t, Plain(RouteOf(rc, config), t)))
<1>. DEFINE r == RouteOf(rc, config)
            t == Test("fromPorts", rc.fromPorts, rc)
            m == MetIf(request.sourcePort \in rc.fromPorts)
            b == request.sourcePort \in rc.fromPorts
<1>1. t.kind = "fromPorts" /\ t.set = rc.fromPorts /\ (t.invert <=> "fromPorts" \in rc.invert)
    BY TestIs
<1>2. Plain(r, t) = m
    BY <1>1 DEF Plain
<1>3. m \in Verdicts /\ (m = "met" => b) /\ (m = "not" => ~b) /\ m # "error"
    BY DEF MetIf, Verdicts
<1>4. m = "error" => Cause(rc)
    BY <1>3
<1>5. FieldHolds(rc, "fromPorts") <=> IF "fromPorts" \in rc.invert THEN ~b ELSE b
    BY DEF FieldHolds, Holds
<1>. HIDE DEF m, t, r
<1>6. LET i == Inverted(t, m)
      IN  /\ i \in Verdicts
          /\ i = "met" => IF t.invert THEN m = "not" ELSE m = "met"
          /\ i = "not" => IF t.invert THEN m = "met" ELSE m = "not"
          /\ i = "error" => m = "error"
    BY <1>3, InvertedIs
<1>7. Stands(rc, "fromPorts", Inverted(t, m))
    BY <1>1, <1>3, <1>4, <1>5, <1>6 DEF Stands
<1>. QED BY <1>2, <1>7 DEF t, r

(* The verdict on the destination port is what the field says. *)
LEMMA ToPortsTest ==
    ASSUME Given, NEW rc \in RouteConfigs, ~RouteRefused(rc, config), rc.toPorts # {}
    PROVE  LET t == Test("toPorts", rc.toPorts, rc)
           IN  Stands(rc, "toPorts", Inverted(t, Plain(RouteOf(rc, config), t)))
<1>. DEFINE r == RouteOf(rc, config)
            t == Test("toPorts", rc.toPorts, rc)
            m == MetIf(request.targetPort \in rc.toPorts)
            b == request.targetPort \in rc.toPorts
<1>1. t.kind = "toPorts" /\ t.set = rc.toPorts /\ (t.invert <=> "toPorts" \in rc.invert)
    BY TestIs
<1>2. Plain(r, t) = m
    BY <1>1 DEF Plain
<1>3. m \in Verdicts /\ (m = "met" => b) /\ (m = "not" => ~b) /\ m # "error"
    BY DEF MetIf, Verdicts
<1>4. m = "error" => Cause(rc)
    BY <1>3
<1>5. FieldHolds(rc, "toPorts") <=> IF "toPorts" \in rc.invert THEN ~b ELSE b
    BY DEF FieldHolds, Holds
<1>. HIDE DEF m, t, r
<1>6. LET i == Inverted(t, m)
      IN  /\ i \in Verdicts
          /\ i = "met" => IF t.invert THEN m = "not" ELSE m = "met"
          /\ i = "not" => IF t.invert THEN m = "met" ELSE m = "not"
          /\ i = "error" => m = "error"
    BY <1>3, InvertedIs
<1>7. Stands(rc, "toPorts", Inverted(t, m))
    BY <1>1, <1>3, <1>4, <1>5, <1>6 DEF Stands
<1>. QED BY <1>2, <1>7 DEF t, r

(* The verdict on the network is what the field says. *)
LEMMA NetworkTest ==
    ASSUME Given, NEW rc \in RouteConfigs
    PROVE  LET t == Test("network", {rc.network}, rc)
           IN  Stands(rc, "network", Inverted(t, Plain(RouteOf(rc, config), t)))
<1>. DEFINE r == RouteOf(rc, config)
            t == Test("network", {rc.network}, rc)
            m == MetIf(request.network \in {rc.network})
<1>1. t.kind = "network" /\ t.set = {rc.network} /\ (t.invert <=> "network" \in rc.invert)
    BY TestIs
<1>2. ~t.invert
    BY <1>1 DEF RouteConfigs, Invertible
<1>3. Plain(r, t) = m
    BY <1>1 DEF Plain
<1>4. FieldHolds(rc, "network") <=> request.network = rc.network
    BY DEF FieldHolds
<1>. HIDE DEF t, r
<1>5. Inverted(t, m) = m
    BY <1>2 DEF Inverted
<1>6. Stands(rc, "network", Inverted(t, m))
    BY <1>4, <1>5 DEF Stands, MetIf, Verdicts
<1>. QED BY <1>3, <1>6 DEF t, r

(* The test of the target's domain, with what it must resolve to. *)
LEMMA DomainTestIs ==
    ASSUME Given, NEW rc \in RouteConfigs, ~RouteRefused(rc, config), rc.toDomains # {}
    PROVE  Stands(rc, "toDomains", Meet(RouteOf(rc, config), DomainTest(rc)))
<1>. DEFINE r == RouteOf(rc, config)
            t == DomainTest(rc)
            e == ExpectedTests(rc)
            p == MetIf(request.target \in rc.toDomains)
            u == Test("expectedIPs", rc.expectedIPs, rc)
            w == Test("expectedCountries", rc.expectedCountries, rc)
            S == {u, w}
            b == request.target \in rc.toDomains /\ Expected(rc)
            m == IF e # <<>> /\ p = "met" THEN GroupMet(r, e) ELSE p
<1>1. /\ t.kind = "toDomains" /\ t.set = rc.toDomains /\ t.expected = e
      /\ t.invert <=> "toDomains" \in rc.invert
    BY DEF DomainTest, Test
<1>2. /\ e \in Seq(S)
      /\ \A y : InSeq(y, e) <=> \/ rc.expectedIPs # {} /\ y = u
                                \/ rc.expectedCountries # {} /\ y = w
      /\ e = <<>> <=> rc.expectedIPs = {} /\ rc.expectedCountries = {}
    BY ExpectedAlternatives
<1>3. Plain(r, t) = p
    BY <1>1 DEF Plain
<1>4. Meet(r, t) = Inverted(t, m)
    BY <1>1, <1>3 DEF Meet
<1>5. /\ rc.expectedIPs # {} => Stands(rc, "expectedIPs", Inverted(u, Plain(r, u)))
      /\ rc.expectedCountries # {} => Stands(rc, "expectedCountries", Inverted(w, Plain(r, w)))
    BY ExpectedIPsTest, ExpectedCountriesTest
<1>6. /\ Expected(rc) <=>
            (rc.expectedIPs # {} \/ rc.expectedCountries # {} =>
                \/ rc.expectedIPs # {} /\ FieldHolds(rc, "expectedIPs")
                \/ rc.expectedCountries # {} /\ FieldHolds(rc, "expectedCountries"))
    BY DEF Expected, HasExpectedIP, FieldHolds
<1>7. FieldHolds(rc, "toDomains") <=> IF "toDomains" \in rc.invert THEN ~b ELSE b
    BY DEF FieldHolds, Holds
<1>8. p \in {"met", "not"} /\ (p = "met" <=> request.target \in rc.toDomains)
    BY DEF MetIf
<1>. HIDE DEF r, t, e, p, u, w, S
<1>9. \A y : InSeq(y, e) => Inverted(y, Plain(r, y)) \in Verdicts
    BY <1>2, <1>5 DEF Stands
<1>10. /\ GroupMet(r, e) \in Verdicts
       /\ GroupMet(r, e) = "not" => \A y : InSeq(y, e) => Inverted(y, Plain(r, y)) = "not"
       /\ GroupMet(r, e) # "not" => \E y : InSeq(y, e) /\ Inverted(y, Plain(r, y)) = GroupMet(r, e)
    BY <1>2, <1>9, GroupIs
<1>11. e # <<>> => /\ GroupMet(r, e) \in Verdicts
                   /\ GroupMet(r, e) = "met" => Expected(rc)
                   /\ GroupMet(r, e) = "not" => ~Expected(rc)
                   /\ GroupMet(r, e) = "error" => Cause(rc)
    <2>. SUFFICES ASSUME e # <<>>
                  PROVE  /\ GroupMet(r, e) \in Verdicts
                         /\ GroupMet(r, e) = "met" => Expected(rc)
                         /\ GroupMet(r, e) = "not" => ~Expected(rc)
                         /\ GroupMet(r, e) = "error" => Cause(rc)
        OBVIOUS
    <2>1. CASE GroupMet(r, e) = "not"
        <3>1. rc.expectedIPs # {} => ~FieldHolds(rc, "expectedIPs")
            BY <1>2, <1>5, <1>10, <2>1 DEF Stands
        <3>2. rc.expectedCountries # {} => ~FieldHolds(rc, "expectedCountries")
            BY <1>2, <1>5, <1>10, <2>1 DEF Stands
        <3>. QED BY <1>2, <1>6, <2>1, <3>1, <3>2 DEF Verdicts
    <2>2. CASE GroupMet(r, e) # "not"
        <3>1. PICK y : InSeq(y, e) /\ Inverted(y, Plain(r, y)) = GroupMet(r, e)
            BY <1>10, <2>2
        <3>2. CASE rc.expectedIPs # {} /\ y = u
            BY <1>5, <1>6, <1>10, <2>2, <3>1, <3>2 DEF Stands
        <3>3. CASE rc.expectedCountries # {} /\ y = w
            BY <1>5, <1>6, <1>10, <2>2, <3>1, <3>3 DEF Stands
        <3>. QED BY <1>2, <3>1, <3>2, <3>3
    <2>. QED BY <2>1, <2>2
<1>12. /\ m \in Verdicts /\ (m = "met" => b) /\ (m = "not" => ~b)
       /\ m = "error" => Cause(rc)
    <2>1. CASE e = <<>>
        BY <1>2, <1>6, <1>8, <2>1 DEF Verdicts
    <2>2. CASE e # <<>> /\ p = "met"
        BY <1>8, <1>11, <2>2
    <2>3. CASE e # <<>> /\ p # "met"
        BY <1>8, <2>3 DEF Verdicts
    <2>. QED BY <2>1, <2>2, <2>3
<1>. HIDE DEF m
<1>13. LET i == Inverted(t, m)
       IN  /\ i \in Verdicts
           /\ i = "met" => IF t.invert THEN m = "not" ELSE m = "met"
           /\ i = "not" => IF t.invert THEN m = "met" ELSE m = "not"
           /\ i = "error" => m = "error"
    BY <1>12, InvertedIs
<1>14. Stands(rc, "toDomains", Inverted(t, m))
    BY <1>1, <1>7, <1>12, <1>13 DEF Stands
<1>. QED BY <1>4, <1>14 DEF t, r

(* The tests a route makes: one for each field that is given. *)
Asked(rc, t) ==
    \/ rc.network # "" /\ t = Test("network", {rc.network}, rc)
    \/ rc.fromServers # {} /\ t = Test("fromServers", rc.fromServers, rc)
    \/ rc.fromIPs # {} /\ t = Test("fromIPs", rc.fromIPs, rc)
    \/ rc.fromCountries # {} /\ t = Test("fromCountries", rc.fromCountries, rc)
    \/ rc.fromPorts # {} /\ t = Test("fromPorts", rc.fromPorts, rc)
    \/ rc.toDomains # {} /\ t = DomainTest(rc)
    \/ rc.toIPs # {} /\ t = Test("toIPs", rc.toIPs, rc)
    \/ rc.toCountries # {} /\ t = Test("toCountries", rc.toCountries, rc)
    \/ rc.toPorts # {} /\ t = Test("toPorts", rc.toPorts, rc)

(* A test without expected addresses only looks at its field. *)
LEMMA MeetPlain ==
    ASSUME NEW r, NEW t, t.expected = <<>>
    PROVE  Meet(r, t) = Inverted(t, Plain(r, t))
BY DEF Meet

(* Every test says of its field what the configuration says of it. *)
LEMMA TestSays ==
    ASSUME Given, NEW rc \in RouteConfigs, ~RouteRefused(rc, config), NEW t, Asked(rc, t)
    PROVE  Stands(rc, t.kind, Meet(RouteOf(rc, config), t))
<1>1. CASE rc.network # "" /\ t = Test("network", {rc.network}, rc)
    <2>1. t.kind = "network" /\ t.expected = <<>>
        BY <1>1 DEF Test
    <2>2. Stands(rc, "network", Inverted(t, Plain(RouteOf(rc, config), t)))
        BY <1>1, NetworkTest
    <2>. QED BY <2>1, <2>2, MeetPlain
<1>2. CASE rc.fromServers # {} /\ t = Test("fromServers", rc.fromServers, rc)
    <2>1. t.kind = "fromServers" /\ t.expected = <<>>
        BY <1>2, TestIs
    <2>2. Stands(rc, "fromServers", Inverted(t, Plain(RouteOf(rc, config), t)))
        BY <1>2, FromServersTest
    <2>. QED BY <2>1, <2>2, MeetPlain
<1>3. CASE rc.fromIPs # {} /\ t = Test("fromIPs", rc.fromIPs, rc)
    <2>1. t.kind = "fromIPs" /\ t.expected = <<>>
        BY <1>3, TestIs
    <2>2. Stands(rc, "fromIPs", Inverted(t, Plain(RouteOf(rc, config), t)))
        BY <1>3, FromIPsTest
    <2>. QED BY <2>1, <2>2, MeetPlain
<1>4. CASE rc.fromCountries # {} /\ t = Test("fromCountries", rc.fromCountries, rc)
    <2>1. t.kind = "fromCountries" /\ t.expected = <<>>
        BY <1>4, TestIs
    <2>2. Stands(rc, "fromCountries", Inverted(t, Plain(RouteOf(rc, config), t)))
        BY <1>4, FromCountriesTest
    <2>. QED BY <2>1, <2>2, MeetPlain
<1>5. CASE rc.fromPorts # {} /\ t = Test("fromPorts", rc.fromPorts, rc)
    <2>1. t.kind = "fromPorts" /\ t.expected = <<>>
        BY <1>5, TestIs
    <2>2. Stands(rc, "fromPorts", Inverted(t, Plain(RouteOf(rc, config), t)))
        BY <1>5, FromPortsTest
    <2>. QED BY <2>1, <2>2, MeetPlain
<1>6. CASE rc.toIPs # {} /\ t = Test("toIPs", rc.toIPs, rc)
    <2>1. t.kind = "toIPs" /\ t.expected = <<>>
        BY <1>6, TestIs
    <2>2. Stands(rc, "toIPs", Inverted(t, Plain(RouteOf(rc, config), t)))
        BY <1>6, ToIPsTest
    <2>. QED BY <2>1, <2>2, MeetPlain
<1>7. CASE rc.toCountries # {} /\ t = Test("toCountries", rc.toCountries, rc)
    <2>1. t.kind = "toCountries" /\ t.expected = <<>>
        BY <1>7, TestIs
    <2>2. Stands(rc, "toCountries", Inverted(t, Plain(RouteOf(rc, config), t)))
        BY <1>7, ToCountriesTest
    <2>. QED BY <2>1, <2>2, MeetPlain
<1>8. CASE rc.toPorts # {} /\ t = Test("toPorts", rc.toPorts, rc)
    <2>1. t.kind = "toPorts" /\ t.expected = <<>>
        BY <1>8, TestIs
    <2>2. Stands(rc, "toPorts", Inverted(t, Plain(RouteOf(rc, config), t)))
        BY <1>8, ToPortsTest
    <2>. QED BY <2>1, <2>2, MeetPlain
<1>9. CASE rc.toDomains # {} /\ t = DomainTest(rc)
    <2>1. t.kind = "toDomains"
        BY <1>9 DEF DomainTest, Test
    <2>. QED BY <1>9, <2>1, DomainTestIs
<1>. QED BY <1>1, <1>2, <1>3, <1>4, <1>5, <1>6, <1>7, <1>8, <1>9 DEF Asked

(* An alternative of a group holds. *)
OneHolds(rc, g) == \E t : InSeq(t, g) /\ FieldHolds(rc, t.kind)

(* The group of one test, and the tests of the groups. *)
LEMMA SingleGroup ==
    ASSUME NEW rc, NEW t, NEW g, g = <<t>> \/ g = <<>>
    PROVE  /\ \A y : InSeq(y, g) <=> g # <<>> /\ y = t
           /\ OneHolds(rc, g) <=> g # <<>> /\ FieldHolds(rc, t.kind)
<1>1. \A y : InSeq(y, g) <=> g # <<>> /\ y = t
    <2>1. t \in {t}
        OBVIOUS
    <2>. QED BY <2>1, AtMostOne
<1>. QED BY <1>1 DEF OneHolds

(* The groups of a route, one by one: what they ask, and when one of their *)
(* alternatives holds.                                                     *)
LEMMA GroupsAre ==
    ASSUME NEW rc
    PROVE  LET g1 == AddIf(rc.network # "", Test("network", {rc.network}, rc))
               g2 == AddIf(rc.fromServers # {}, Test("fromServers", rc.fromServers, rc))
               g3 == SourceTests(rc)
               g4 == AddIf(rc.fromPorts # {}, Test("fromPorts", rc.fromPorts, rc))
               g5 == DestTests(rc)
               g6 == AddIf(rc.toPorts # {}, Test("toPorts", rc.toPorts, rc))
           IN  /\ \A t : (\E g \in {g1, g2, g3, g4, g5, g6} : InSeq(t, g)) => Asked(rc, t)
               /\ (g1 # <<>> => OneHolds(rc, g1)) <=> (rc.network # "" => FieldHolds(rc, "network"))
               /\ (g2 # <<>> => OneHolds(rc, g2)) <=> (rc.fromServers # {} => FieldHolds(rc, "fromServers"))
               /\ (g3 # <<>> => OneHolds(rc, g3)) <=>
                     (rc.fromIPs # {} \/ rc.fromCountries # {} =>
                         \/ rc.fromIPs # {} /\ FieldHolds(rc, "fromIPs")
                         \/ rc.fromCountries # {} /\ FieldHolds(rc, "fromCountries"))
               /\ (g4 # <<>> => OneHolds(rc, g4)) <=> (rc.fromPorts # {} => FieldHolds(rc, "fromPorts"))
               /\ (g5 # <<>> => OneHolds(rc, g5)) <=>
                     (rc.toDomains # {} \/ rc.toIPs # {} \/ rc.toCountries # {} =>
                         \/ rc.toDomains # {} /\ FieldHolds(rc, "toDomains")
                         \/ rc.toIPs # {} /\ FieldHolds(rc, "toIPs")
                         \/ rc.toCountries # {} /\ FieldHolds(rc, "toCountries"))
               /\ (g6 # <<>> => OneHolds(rc, g6)) <=> (rc.toPorts # {} => FieldHolds(rc, "toPorts"))
<1>. DEFINE t1 == Test("network", {rc.network}, rc)
            t2 == Test("fromServers", rc.fromServers, rc)
            t3 == Test("fromIPs", rc.fromIPs, rc)
            t4 == Test("fromCountries", rc.fromCountries, rc)
            t5 == Test("fromPorts", rc.fromPorts, rc)
            t6 == DomainTest(rc)
            t7 == Test("toIPs", rc.toIPs, rc)
            t8 == Test("toCountries", rc.toCountries, rc)
            t9 == Test("toPorts", rc.toPorts, rc)
            g1 == AddIf(rc.network # "", t1)
            g2 == AddIf(rc.fromServers # {}, t2)
            g3 == SourceTests(rc)
            g4 == AddIf(rc.fromPorts # {}, t5)
            g5 == DestTests(rc)
            g6 == AddIf(rc.toPorts # {}, t9)
<1>1. /\ t1.kind = "network" /\ t2.kind = "fromServers" /\ t3.kind = "fromIPs"
      /\ t4.kind = "fromCountries" /\ t5.kind = "fromPorts" /\ t6.kind = "toDomains"
      /\ t7.kind = "toIPs" /\ t8.kind = "toCountries" /\ t9.kind = "toPorts"
    BY DEF Test, DomainTest
<1>2. /\ (g1 = <<t1>> \/ g1 = <<>>) /\ (g1 = <<>> <=> rc.network = "")
      /\ (g2 = <<t2>> \/ g2 = <<>>) /\ (g2 = <<>> <=> rc.fromServers = {})
      /\ (g4 = <<t5>> \/ g4 = <<>>) /\ (g4 = <<>> <=> rc.fromPorts = {})
      /\ (g6 = <<t9>> \/ g6 = <<>>) /\ (g6 = <<>> <=> rc.toPorts = {})
    BY DEF AddIf
<1>3. /\ \A t : InSeq(t, g3) <=> \/ rc.fromIPs # {} /\ t = t3
                                 \/ rc.fromCountries # {} /\ t = t4
      /\ g3 = <<>> <=> rc.fromIPs = {} /\ rc.fromCountries = {}
    BY SourceAlternatives
<1>4. /\ \A t : InSeq(t, g5) <=> \/ rc.toDomains # {} /\ t = t6
                                 \/ rc.toIPs # {} /\ t = t7
                                 \/ rc.toCountries # {} /\ t = t8
      /\ g5 = <<>> <=> rc.toDomains = {} /\ rc.toIPs = {} /\ rc.toCountries = {}
    BY DestAlternatives
<1>5. \A t : Asked(rc, t) <=>
        \/ rc.network # "" /\ t = t1
        \/ rc.fromServers # {} /\ t = t2
        \/ rc.fromIPs # {} /\ t = t3
        \/ rc.fromCountries # {} /\ t = t4
        \/ rc.fromPorts # {} /\ t = t5
        \/ rc.toDomains # {} /\ t = t6
        \/ rc.toIPs # {} /\ t = t7
        \/ rc.toCountries # {} /\ t = t8
        \/ rc.toPorts # {} /\ t = t9
    BY DEF Asked
<1>. HIDE DEF t1, t2, t3, t4, t5, t6, t7, t8, t9, g1, g2, g3, g4, g5, g6
<1>6. /\ \A t : InSeq(t, g1) <=> g1 # <<>> /\ t = t1
      /\ OneHolds(rc, g1) <=> g1 # <<>> /\ FieldHolds(rc, t1.kind)
    BY <1>2, SingleGroup
<1>7. /\ \A t : InSeq(t, g2) <=> g2 # <<>> /\ t = t2
      /\ OneHolds(rc, g2) <=> g2 # <<>> /\ FieldHolds(rc, t2.kind)
    BY <1>2, SingleGroup
<1>8. /\ \A t : InSeq(t, g4) <=> g4 # <<>> /\ t = t5
      /\ OneHolds(rc, g4) <=> g4 # <<>> /\ FieldHolds(rc, t5.kind)
    BY <1>2, SingleGroup
<1>9. /\ \A t : InSeq(t, g6) <=> g6 # <<>> /\ t = t9
      /\ OneHolds(rc, g6) <=> g6 # <<>> /\ FieldHolds(rc, t9.kind)
    BY <1>2, SingleGroup
<1>10. OneHolds(rc, g3) <=> \/ rc.fromIPs # {} /\ FieldHolds(rc, "fromIPs")
                            \/ rc.fromCountries # {} /\ FieldHolds(rc, "fromCountries")
    <2>1. ASSUME OneHolds(rc, g3)
          PROVE  \/ rc.fromIPs # {} /\ FieldHolds(rc, "fromIPs")
                 \/ rc.fromCountries # {} /\ FieldHolds(rc, "fromCountries")
        BY <1>1, <1>3, <2>1 DEF OneHolds
    <2>2. ASSUME rc.fromIPs # {}, FieldHolds(rc, "fromIPs") PROVE OneHolds(rc, g3)
        BY <1>1, <1>3, <2>2 DEF OneHolds
    <2>3. ASSUME rc.fromCountries # {}, FieldHolds(rc, "fromCountries") PROVE OneHolds(rc, g3)
        BY <1>1, <1>3, <2>3 DEF OneHolds
    <2>. QED BY <2>1, <2>2, <2>3
<1>11. OneHolds(rc, g5) <=> \/ rc.toDomains # {} /\ FieldHolds(rc, "toDomains")
                            \/ rc.toIPs # {} /\ FieldHolds(rc, "toIPs")
                            \/ rc.toCountries # {} /\ FieldHolds(rc, "toCountries")
    <2>1. ASSUME OneHolds(rc, g5)
          PROVE  \/ rc.toDomains # {} /\ FieldHolds(rc, "toDomains")
                 \/ rc.toIPs # {} /\ FieldHolds(rc, "toIPs")
                 \/ rc.toCountries # {} /\ FieldHolds(rc, "toCountries")
        BY <1>1, <1>4, <2>1 DEF OneHolds
    <2>2. ASSUME rc.toDomains # {}, FieldHolds(rc, "toDomains") PROVE OneHolds(rc, g5)
        BY <1>1, <1>4, <2>2 DEF OneHolds
    <2>3. ASSUME rc.toIPs # {}, FieldHolds(rc, "toIPs") PROVE OneHolds(rc, g5)
        BY <1>1, <1>4, <2>3 DEF OneHolds
    <2>4. ASSUME rc.toCountries # {}, FieldHolds(rc, "toCountries") PROVE OneHolds(rc, g5)
        BY <1>1, <1>4, <2>4 DEF OneHolds
    <2>. QED BY <2>1, <2>2, <2>3, <2>4
<1>12. \A t : (\E g \in {g1, g2, g3, g4, g5, g6} : InSeq(t, g)) => Asked(rc, t)
    BY <1>2, <1>3, <1>4, <1>5, <1>6, <1>7, <1>8, <1>9
<1>13. /\ (g1 # <<>> => OneHolds(rc, g1)) <=> (rc.network # "" => FieldHolds(rc, "network"))
       /\ (g2 # <<>> => OneHolds(rc, g2)) <=> (rc.fromServers # {} => FieldHolds(rc, "fromServers"))
       /\ (g4 # <<>> => OneHolds(rc, g4)) <=> (rc.fromPorts # {} => FieldHolds(rc, "fromPorts"))
       /\ (g6 # <<>> => OneHolds(rc, g6)) <=> (rc.toPorts # {} => FieldHolds(rc, "toPorts"))
    BY <1>1, <1>2, <1>6, <1>7, <1>8, <1>9
<1>14. (g3 # <<>> => OneHolds(rc, g3)) <=>
          (rc.fromIPs # {} \/ rc.fromCountries # {} =>
              \/ rc.fromIPs # {} /\ FieldHolds(rc, "fromIPs")
              \/ rc.fromCountries # {} /\ FieldHolds(rc, "fromCountries"))
    BY <1>3, <1>10
<1>15. (g5 # <<>> => OneHolds(rc, g5)) <=>
          (rc.toDomains # {} \/ rc.toIPs # {} \/ rc.toCountries # {} =>
              \/ rc.toDomains # {} /\ FieldHolds(rc, "toDomains")
              \/ rc.toIPs # {} /\ FieldHolds(rc, "toIPs")
              \/ rc.toCountries # {} /\ FieldHolds(rc, "toCountries"))
    BY <1>4, <1>11
<1>. QED BY <1>12, <1>13, <1>14, <1>15 DEF g1, g2, g3, g4, g5, g6, t1, t2, t5, t9

(* A route matches by its fields when every criterion has an alternative   *)
(* that holds; each alternative is a test of a field that is given.        *)
LEMMA CriteriaMean ==
    ASSUME Given, NEW rc \in RouteConfigs
    PROVE  /\ \A g, t : InSeq(g, Criteria(rc)) /\ InSeq(t, g) => Asked(rc, t)
           /\ Matches(rc) <=> \A g : InSeq(g, Criteria(rc)) => OneHolds(rc, g)
<1>. DEFINE g1 == AddIf(rc.network # "", Test("network", {rc.network}, rc))
            g2 == AddIf(rc.fromServers # {}, Test("fromServers", rc.fromServers, rc))
            g3 == SourceTests(rc)
            g4 == AddIf(rc.fromPorts # {}, Test("fromPorts", rc.fromPorts, rc))
            g5 == DestTests(rc)
            g6 == AddIf(rc.toPorts # {}, Test("toPorts", rc.toPorts, rc))
<1>1. /\ \A t : (\E g \in {g1, g2, g3, g4, g5, g6} : InSeq(t, g)) => Asked(rc, t)
      /\ (g1 # <<>> => OneHolds(rc, g1)) <=> (rc.network # "" => FieldHolds(rc, "network"))
      /\ (g2 # <<>> => OneHolds(rc, g2)) <=> (rc.fromServers # {} => FieldHolds(rc, "fromServers"))
      /\ (g3 # <<>> => OneHolds(rc, g3)) <=>
            (rc.fromIPs # {} \/ rc.fromCountries # {} =>
                \/ rc.fromIPs # {} /\ FieldHolds(rc, "fromIPs")
                \/ rc.fromCountries # {} /\ FieldHolds(rc, "fromCountries"))
      /\ (g4 # <<>> => OneHolds(rc, g4)) <=> (rc.fromPorts # {} => FieldHolds(rc, "fromPorts"))
      /\ (g5 # <<>> => OneHolds(rc, g5)) <=>
            (rc.toDomains # {} \/ rc.toIPs # {} \/ rc.toCountries # {} =>
                \/ rc.toDomains # {} /\ FieldHolds(rc, "toDomains")
                \/ rc.toIPs # {} /\ FieldHolds(rc, "toIPs")
                \/ rc.toCountries # {} /\ FieldHolds(rc, "toCountries"))
      /\ (g6 # <<>> => OneHolds(rc, g6)) <=> (rc.toPorts # {} => FieldHolds(rc, "toPorts"))
    BY GroupsAre
<1>2. \A g : InSeq(g, Criteria(rc)) <=> g # <<>> /\ g \in {g1, g2, g3, g4, g5, g6}
    BY CriteriaAreGroups DEF GroupsOf
<1>3. /\ rc.network \in {"", request.network} <=> (rc.network # "" => FieldHolds(rc, "network"))
      /\ rc.fromServers # {} =>
            (FieldHolds(rc, "fromServers") <=> Holds(rc, "fromServers", request.server \in rc.fromServers))
      /\ rc.fromPorts # {} =>
            (FieldHolds(rc, "fromPorts") <=> Holds(rc, "fromPorts", request.sourcePort \in rc.fromPorts))
      /\ rc.toPorts # {} =>
            (FieldHolds(rc, "toPorts") <=> Holds(rc, "toPorts", request.targetPort \in rc.toPorts))
    BY DEF FieldHolds
<1>4. /\ FieldHolds(rc, "fromIPs") <=> Holds(rc, "fromIPs", request.source \in rc.fromIPs)
      /\ FieldHolds(rc, "fromCountries") <=>
            Holds(rc, "fromCountries", InCountry({request.source}, rc.fromCountries))
    BY DEF FieldHolds
<1>5. LET resolve == ~rc.disableNameResolution
      IN  /\ FieldHolds(rc, "toDomains") <=>
                Holds(rc, "toDomains", request.target \in rc.toDomains /\ Expected(rc))
          /\ FieldHolds(rc, "toIPs") <=> Holds(rc, "toIPs", TargetIPs(rc, resolve) \cap rc.toIPs # {})
          /\ FieldHolds(rc, "toCountries") <=>
                Holds(rc, "toCountries", InCountry(TargetIPs(rc, resolve), rc.toCountries))
    BY DEF FieldHolds
<1>6. /\ rc.fromIPs \cup rc.fromCountries # {} <=> rc.fromIPs # {} \/ rc.fromCountries # {}
      /\ rc.toDomains \cup rc.toIPs \cup rc.toCountries # {} <=>
            rc.toDomains # {} \/ rc.toIPs # {} \/ rc.toCountries # {}
    OBVIOUS
<1>. HIDE DEF g1, g2, g3, g4, g5, g6
<1>7. Matches(rc) <=>
        /\ rc.network # "" => FieldHolds(rc, "network")
        /\ rc.fromServers # {} => FieldHolds(rc, "fromServers")
        /\ rc.fromPorts # {} => FieldHolds(rc, "fromPorts")
        /\ rc.toPorts # {} => FieldHolds(rc, "toPorts")
        /\ rc.fromIPs # {} \/ rc.fromCountries # {} =>
              \/ rc.fromIPs # {} /\ FieldHolds(rc, "fromIPs")
              \/ rc.fromCountries # {} /\ FieldHolds(rc, "fromCountries")
        /\ rc.toDomains # {} \/ rc.toIPs # {} \/ rc.toCountries # {} =>
              \/ rc.toDomains # {} /\ FieldHolds(rc, "toDomains")
              \/ rc.toIPs # {} /\ FieldHolds(rc, "toIPs")
              \/ rc.toCountries # {} /\ FieldHolds(rc, "toCountries")
    BY <1>3, <1>4, <1>5, <1>6, ZenonT(40) DEF Matches
<1>8. \A g, t : InSeq(g, Criteria(rc)) /\ InSeq(t, g) => Asked(rc, t)
    BY <1>1, <1>2
<1>9. Matches(rc) <=> \A g : InSeq(g, Criteria(rc)) => OneHolds(rc, g)
    BY <1>1, <1>2, <1>7
<1>. QED BY <1>8, <1>9

(* What a test says depends on the request and the answers alone. *)
LEMMA SameVerdict ==
    ASSUME UNCHANGED <<request, answer>>
    PROVE  \A r, t : Meet(r, t)' = Meet(r, t)
<1>1. \A r : Lookup(r)' = Lookup(r)
    BY DEF Lookup
<1>2. \A r, set : /\ TargetMeets(r, TRUE, InIPs, set)' = TargetMeets(r, TRUE, InIPs, set)
                  /\ TargetMeets(r, TRUE, InCountries, set)' = TargetMeets(r, TRUE, InCountries, set)
                  /\ TargetMeets(r, r.resolve, InIPs, set)' = TargetMeets(r, r.resolve, InIPs, set)
                  /\ TargetMeets(r, r.resolve, InCountries, set)' = TargetMeets(r, r.resolve, InCountries, set)
    BY <1>1 DEF TargetMeets
<1>3. ASSUME NEW r, NEW t PROVE Plain(r, t)' = Plain(r, t)
    <2>1. CASE t.kind = "network"
        BY <1>2, <2>1 DEF Plain
    <2>2. CASE t.kind = "fromServers"
        BY <1>2, <2>2 DEF Plain
    <2>3. CASE t.kind = "fromIPs"
        BY <1>2, <2>3 DEF Plain
    <2>4. CASE t.kind = "fromCountries"
        BY <1>2, <2>4 DEF Plain
    <2>5. CASE t.kind = "fromPorts"
        BY <1>2, <2>5 DEF Plain
    <2>6. CASE t.kind = "toDomains"
        BY <1>2, <2>6 DEF Plain
    <2>7. CASE t.kind = "expectedIPs"
        BY <1>2, <2>7 DEF Plain
    <2>8. CASE t.kind = "expectedCountries"
        BY <1>2, <2>8 DEF Plain
    <2>9. CASE t.kind = "toIPs"
        BY <1>2, <2>9 DEF Plain
    <2>10. CASE t.kind = "toCountries"
        BY <1>2, <2>10 DEF Plain
    <2>11. CASE t.kind \notin {"network", "fromServers", "fromIPs", "fromCountries", "fromPorts", "toDomains",
                               "expectedIPs", "expectedCountries", "toIPs", "toCountries"}
        BY <2>11 DEF Plain
    <2>. QED BY <2>1, <2>2, <2>3, <2>4, <2>5, <2>6, <2>7, <2>8, <2>9, <2>10, <2>11
<1>4. ASSUME NEW r, NEW group PROVE GroupMet(r, group)' = GroupMet(r, group)
    <2>. DEFINE result == [i \in DOMAIN group |-> Inverted(group[i], Plain(r, group[i]))]
                first(f) == LET decided == {i \in DOMAIN group : f[i] # "not"}
                            IN  IF decided = {} THEN "not"
                                ELSE f[CHOOSE i \in decided : \A j \in decided : i <= j]
    <2>1. result' = result
        BY <1>3
    <2>2. GroupMet(r, group) = first(result)
        BY DEF GroupMet
    <2>3. GroupMet(r, group)' = first(result')
        BY DEF GroupMet
    <2>. HIDE DEF result
    <2>. QED BY <2>1, <2>2, <2>3
<1>. QED BY <1>3, <1>4 DEF Meet

---------------------------------------------------------------------------
(* The inductive invariant.                                                *)

Running == outcome \notin {"config", "refused"}

(* The router is built from a configuration that was not refused. *)
Built ==
    Running =>
        /\ DefaultsFound
        /\ \A i \in DOMAIN config.routes : ~RouteRefused(config.routes[i], config)
        /\ \A i \in 1..Len(config.routes) : routes[i] = RouteOf(config.routes[i], config)
        /\ routes[Len(config.routes) + 1] = DefaultRoute(config)

(* The cursor stays within the routes, their criteria and their groups. *)
Cursor ==
    /\ at \in [route : Nat, criterion : Nat, alternative : Nat]
    /\ ~Running => at = Start
    /\ Running =>
          /\ at.route \in 1..Len(config.routes) + 1
          /\ at.criterion \in 1..Len(CurrentRoute.criteria) + 1
          /\ at.criterion <= Len(CurrentRoute.criteria) => at.alternative \in 1..Len(CurrentGroup)

(* A criterion of a route has no alternative that is met. *)
Skipped(r) ==
    \E g \in DOMAIN r.criteria : \A k \in DOMAIN r.criteria[g] : Meet(r, r.criteria[g][k]) = "not"

(* The routes behind the cursor have a criterion none of whose             *)
(* alternatives is met; of the current route the criteria behind it have   *)
(* one that is, and the alternatives behind it are not met.                *)
Trail ==
    Running =>
        /\ \A i \in 1..at.route - 1 : Skipped(routes[i])
        /\ \A g \in 1..at.criterion - 1 : \E k \in DOMAIN CurrentRoute.criteria[g] :
              Meet(CurrentRoute, CurrentRoute.criteria[g][k]) = "met"
        /\ at.criterion <= Len(CurrentRoute.criteria) =>
              \A k \in 1..at.alternative - 1 : Meet(CurrentRoute, CurrentGroup[k]) = "not"

(* How a match ends. *)
Ending ==
    /\ outcome \in {"config", "refused", "matching", "answered", "error"}
    /\ outcome # "answered" => client = ErrRejected
    /\ outcome = "answered" =>
          /\ at.criterion > Len(CurrentRoute.criteria)
          /\ client = IF request.network = "tcp" THEN CurrentRoute.tcp ELSE CurrentRoute.udp
    /\ outcome = "error" => at.criterion <= Len(CurrentRoute.criteria) /\ CurrentResult = "error"

IInv == Given /\ Built /\ Cursor /\ Trail /\ Ending

(* The shape of the criteria of a route: sequences of groups of at least   *)
(* one alternative.                                                        *)
LEMMA CriteriaShape ==
    ASSUME NEW rc
    PROVE  /\ Len(Criteria(rc)) \in Nat
           /\ DOMAIN Criteria(rc) = 1..Len(Criteria(rc))
           /\ \A g \in 1..Len(Criteria(rc)) : /\ Len(Criteria(rc)[g]) \in Nat \ {0}
                                             /\ DOMAIN Criteria(rc)[g] = 1..Len(Criteria(rc)[g])
<1>. DEFINE cr == Criteria(rc)
            S == TestsOf(rc)
<1>1. cr \in Seq(Seq(S) \ {<<>>})
    BY CriteriaAreGroups
<1>. HIDE DEF cr, S
<1>2. Len(cr) \in Nat /\ DOMAIN cr = 1..Len(cr) /\ \A g \in 1..Len(cr) : cr[g] \in Seq(S) \ {<<>>}
    BY <1>1
<1>3. \A s \in Seq(S) \ {<<>>} : Len(s) \in Nat \ {0} /\ DOMAIN s = 1..Len(s)
    BY EmptySeq
<1>4. \A g \in 1..Len(cr) : Len(cr[g]) \in Nat \ {0} /\ DOMAIN cr[g] = 1..Len(cr[g])
    BY <1>2, <1>3
<1>. QED BY <1>2, <1>4 DEF cr

(* The criteria of a route are those made from its configuration. *)
LEMMA CriteriaOfRoute ==
    ASSUME NEW rc, NEW c
    PROVE  RouteOf(rc, c).criteria = Criteria(rc)
BY DEF RouteOf

(* The routes of the router. *)
LEMMA RouteShapes ==
    ASSUME Given, Built, Running
    PROVE  /\ Len(config.routes) \in Nat
           /\ DOMAIN config.routes = 1..Len(config.routes)
           /\ \A i \in 1..Len(config.routes) :
                 /\ config.routes[i] \in RouteConfigs
                 /\ routes[i].criteria = Criteria(config.routes[i])
           /\ routes[Len(config.routes) + 1].criteria = <<>>
           /\ \A i \in 1..Len(config.routes) + 1 :
                 /\ Len(routes[i].criteria) \in Nat
                 /\ DOMAIN routes[i].criteria = 1..Len(routes[i].criteria)
                 /\ \A g \in 1..Len(routes[i].criteria) :
                       /\ Len(routes[i].criteria[g]) \in Nat \ {0}
                       /\ DOMAIN routes[i].criteria[g] = 1..Len(routes[i].criteria[g])
<1>. DEFINE n == Len(config.routes)
<1>1. config.routes \in Seq(RouteConfigs)
    BY DEF Given, Configs
<1>2. n \in Nat /\ DOMAIN config.routes = 1..n /\ \A i \in 1..n : config.routes[i] \in RouteConfigs
    BY <1>1
<1>3. \A i \in 1..n : routes[i].criteria = Criteria(config.routes[i])
    BY CriteriaOfRoute DEF Built
<1>4. routes[n + 1].criteria = <<>>
    BY DEF Built, DefaultRoute
<1>. HIDE DEF n
<1>5. ASSUME NEW i \in 1..n + 1
      PROVE  /\ Len(routes[i].criteria) \in Nat
             /\ DOMAIN routes[i].criteria = 1..Len(routes[i].criteria)
             /\ \A g \in 1..Len(routes[i].criteria) :
                   /\ Len(routes[i].criteria[g]) \in Nat \ {0}
                   /\ DOMAIN routes[i].criteria[g] = 1..Len(routes[i].criteria[g])
    <2>1. CASE i \in 1..n
        BY <1>3, <2>1, CriteriaShape
    <2>2. CASE i = n + 1
        <3>1. Len(<<>>) = 0 /\ DOMAIN <<>> = 1..0
            OBVIOUS
        <3>. QED BY <1>4, <2>2, <3>1
    <2>. QED BY <1>2, <2>1, <2>2
<1>. QED BY <1>2, <1>3, <1>4, <1>5 DEF n

(* The invariant holds before the configuration is read. *)
LEMMA InitEstablishes ==
    Init => IInv
<1>. SUFFICES ASSUME Init PROVE IInv
    OBVIOUS
<1>1. PICK k \in Cases : /\ config \in k.configs
                         /\ request \in k.requests
                         /\ answer \in [{config.resolvers[i] : i \in DOMAIN config.resolvers} -> k.answers]
    BY DEF Init
<1>2. /\ k.configs \subseteq Configs /\ k.requests \subseteq Requests
      /\ k.answers \subseteq Results \cup {ErrLookup, OtherError}
    BY RouterAssumption
<1>3. Given
    <2>. DEFINE D == {config.resolvers[i] : i \in DOMAIN config.resolvers}
                A == Results \cup {ErrLookup, OtherError}
    <2>1. answer \in [D -> k.answers] /\ k.answers \subseteq A
        BY <1>1, <1>2
    <2>. HIDE DEF D, A
    <2>2. answer \in [D -> A]
        BY <2>1
    <2>. QED BY <1>1, <1>2, <2>2 DEF Given, D, A
<1>4. outcome = "config" /\ at = Start /\ client = ErrRejected
    BY DEF Init
<1>5. Start \in [route : Nat, criterion : Nat, alternative : Nat]
    BY DEF Start
<1>. QED BY <1>3, <1>4, <1>5 DEF IInv, Running, Built, Cursor, Trail, Ending

(* A configuration is refused: no router. *)
LEMMA ConfigRefusedKeeps ==
    ASSUME IInv, ConfigRefused
    PROVE  IInv'
<1>1. outcome = "config" /\ outcome' = "refused" /\ UNCHANGED <<config, routes, request, answer, at, client>>
    BY DEF ConfigRefused
<1>2. Given'
    BY <1>1 DEF IInv, Given
<1>3. at = Start /\ at \in [route : Nat, criterion : Nat, alternative : Nat] /\ client = ErrRejected
    BY <1>1 DEF IInv, Cursor, Ending, Running
<1>. QED BY <1>1, <1>2, <1>3 DEF IInv, Running, Built, Cursor, Trail, Ending

(* The router is built with one route more than is configured. *)
LEMMA NewRouterKeeps ==
    ASSUME IInv, NewRouter
    PROVE  IInv'
<1>. DEFINE n == Len(config.routes)
            rs == [i \in DOMAIN config.routes |-> RouteOf(config.routes[i], config)]
            d == DefaultRoute(config)
<1>1. /\ outcome = "config" /\ outcome' = "matching" /\ UNCHANGED <<config, request, answer, at, client>>
      /\ DefaultsFound
      /\ \A i \in DOMAIN config.routes : ~RouteRefused(config.routes[i], config)
      /\ routes' = Append(rs, d)
    BY DEF NewRouter
<1>2. n \in Nat /\ DOMAIN config.routes = 1..n
    BY DEF IInv, Given, Configs
<1>3. /\ \A i \in 1..n : routes'[i] = RouteOf(config.routes[i], config)
      /\ routes'[n + 1] = d
    <2>. DEFINE S == {RouteOf(config.routes[i], config) : i \in 1..n}
    <2>1. rs \in [1..n -> S]
        BY <1>2
    <2>2. rs \in Seq(S) /\ Len(rs) = n
        BY <1>2, <2>1
    <2>. HIDE DEF S, rs, d, n
    <2>3. \A i \in 1..n : Append(rs, d)[i] = rs[i]
        BY <1>2, <2>2
    <2>4. Append(rs, d)[n + 1] = d
        BY <1>2, <2>2
    <2>. QED BY <1>1, <1>2, <2>3, <2>4 DEF rs
<1>4. Given'
    BY <1>1 DEF IInv, Given
<1>5. Built'
    BY <1>1, <1>2, <1>3 DEF Built, Running, DefaultsFound
<1>6. at = Start /\ at' = Start /\ client' = ErrRejected
    BY <1>1 DEF IInv, Cursor, Ending, Running
<1>7. Start.route = 1 /\ Start.criterion = 1 /\ Start.alternative = 1
    BY DEF Start
<1>8. /\ Len(routes'[1].criteria) \in Nat
      /\ 1 <= Len(routes'[1].criteria) => Len(routes'[1].criteria[1]) \in Nat \ {0}
    <2>1. CASE n = 0
        BY <1>3, <2>1 DEF DefaultRoute
    <2>2. CASE n # 0
        <3>1. routes'[1].criteria = Criteria(config.routes[1])
            BY <1>2, <1>3, <2>2, CriteriaOfRoute
        <3>. QED BY <3>1, CriteriaShape
    <2>. QED BY <2>1, <2>2
<1>9. Cursor'
    <2>1. CurrentRoute' = routes'[1] /\ CurrentGroup' = routes'[1].criteria[1]
        BY <1>6, <1>7 DEF CurrentRoute, CurrentGroup
    <2>2. Start \in [route : Nat, criterion : Nat, alternative : Nat]
        BY DEF Start
    <2>3. 1 \in 1..n + 1
        BY <1>2
    <2>4. Running'
        BY <1>1 DEF Running
    <2>. QED BY <1>1, <1>6, <1>7, <1>8, <2>1, <2>2, <2>3, <2>4 DEF Cursor
<1>10. Trail'
    BY <1>6, <1>7 DEF Trail
<1>11. Ending'
    BY <1>1, <1>6 DEF Ending
<1>. QED BY <1>4, <1>5, <1>9, <1>10, <1>11 DEF IInv

(* A step of a match leaves what it works on alone. *)
LEMMA StillBuilt ==
    ASSUME IInv, Running, UNCHANGED <<config, routes, request, answer>>
    PROVE  /\ Given' /\ Built'
           /\ \A r, t : Meet(r, t)' = Meet(r, t)
           /\ \A r : Skipped(r)' <=> Skipped(r)
<1>1. Given'
    BY DEF IInv, Given
<1>2. Built'
    BY DEF IInv, Built, DefaultsFound
<1>3. \A r, t : Meet(r, t)' = Meet(r, t)
    BY SameVerdict
<1>4. \A r : Skipped(r)' <=> Skipped(r)
    BY <1>3 DEF Skipped
<1>. QED BY <1>1, <1>2, <1>3, <1>4

(* A test fails, and Match returns its error. *)
LEMMA TestFailsKeeps ==
    ASSUME IInv, TestFails
    PROVE  IInv'
<1>1. /\ outcome = "matching" /\ at.criterion <= Len(CurrentRoute.criteria) /\ CurrentResult = "error"
      /\ outcome' = "error" /\ UNCHANGED <<config, routes, request, answer, at, client>>
    BY DEF TestFails, Testing
<1>2. Running /\ Running'
    BY <1>1 DEF Running
<1>3. /\ Given' /\ Built'
      /\ \A r, t : Meet(r, t)' = Meet(r, t)
      /\ \A r : Skipped(r)' <=> Skipped(r)
    BY <1>1, <1>2, StillBuilt
<1>4. CurrentRoute' = CurrentRoute /\ CurrentGroup' = CurrentGroup
    BY <1>1 DEF CurrentRoute, CurrentGroup
<1>5. Cursor'
    BY <1>1, <1>2, <1>4 DEF IInv, Cursor
<1>6. Trail'
    BY <1>1, <1>2, <1>3, <1>4 DEF IInv, Trail
<1>7. CurrentResult' = "error"
    BY <1>1, <1>3, <1>4 DEF CurrentResult
<1>8. Ending'
    BY <1>1, <1>4, <1>7 DEF IInv, Ending
<1>. QED BY <1>3, <1>5, <1>6, <1>8 DEF IInv

(* All criteria of a route are met, and Match answers with its client. *)
LEMMA MatchedKeeps ==
    ASSUME IInv, Matched
    PROVE  IInv'
<1>1. /\ outcome = "matching" /\ at.criterion > Len(CurrentRoute.criteria) /\ outcome' = "answered"
      /\ client' = IF request.network = "tcp" THEN CurrentRoute.tcp ELSE CurrentRoute.udp
      /\ UNCHANGED <<config, routes, request, answer, at>>
    BY DEF Matched
<1>2. Running /\ Running'
    BY <1>1 DEF Running
<1>3. /\ Given' /\ Built'
      /\ \A r, t : Meet(r, t)' = Meet(r, t)
      /\ \A r : Skipped(r)' <=> Skipped(r)
    BY <1>1, <1>2, StillBuilt
<1>4. CurrentRoute' = CurrentRoute /\ CurrentGroup' = CurrentGroup
    BY <1>1 DEF CurrentRoute, CurrentGroup
<1>5. Cursor'
    BY <1>1, <1>2, <1>4 DEF IInv, Cursor
<1>6. Trail'
    BY <1>1, <1>2, <1>3, <1>4 DEF IInv, Trail
<1>7. Ending'
    BY <1>1, <1>4 DEF Ending
<1>. QED BY <1>3, <1>5, <1>6, <1>7 DEF IInv

(* A test is met: the cursor moves to the next criterion. *)
LEMMA TestMetKeeps ==
    ASSUME IInv, TestMet
    PROVE  IInv'
<1>. DEFINE cr == CurrentRoute.criteria
<1>1. /\ outcome = "matching" /\ outcome' = "matching" /\ at.criterion <= Len(cr) /\ CurrentResult = "met"
      /\ at' = [at EXCEPT !.criterion = @ + 1, !.alternative = 1]
      /\ UNCHANGED <<config, routes, request, answer, client>>
    BY DEF TestMet, Testing
<1>2. Running /\ Running'
    BY <1>1 DEF Running
<1>3. /\ Given' /\ Built'
      /\ \A r, t : Meet(r, t)' = Meet(r, t)
      /\ \A r : Skipped(r)' <=> Skipped(r)
    BY <1>1, <1>2, StillBuilt
<1>4. /\ at \in [route : Nat, criterion : Nat, alternative : Nat]
      /\ at.route \in 1..Len(config.routes) + 1
      /\ at.criterion \in 1..Len(cr) /\ at.alternative \in 1..Len(cr[at.criterion])
    BY <1>1, <1>2 DEF IInv, Cursor, CurrentGroup
<1>5. /\ at' \in [route : Nat, criterion : Nat, alternative : Nat]
      /\ at'.route = at.route /\ at'.criterion = at.criterion + 1 /\ at'.alternative = 1
    <2>1. at' = [route |-> at.route, criterion |-> at.criterion + 1, alternative |-> 1]
        BY <1>1, <1>4
    <2>. QED BY <1>4, <2>1
<1>6. CurrentRoute' = CurrentRoute /\ CurrentGroup' = cr[at.criterion + 1]
    BY <1>1, <1>5 DEF CurrentRoute, CurrentGroup
<1>7. /\ Len(cr) \in Nat
      /\ \A g \in 1..Len(cr) : Len(cr[g]) \in Nat \ {0} /\ DOMAIN cr[g] = 1..Len(cr[g])
    BY <1>2, <1>4, RouteShapes DEF IInv, CurrentRoute
<1>8. Meet(CurrentRoute, cr[at.criterion][at.alternative]) = "met"
    BY <1>1 DEF CurrentResult, CurrentGroup
<1>9. /\ \A i \in 1..at.route - 1 : Skipped(routes[i])
      /\ \A g \in 1..at.criterion - 1 : \E k \in DOMAIN cr[g] : Meet(CurrentRoute, cr[g][k]) = "met"
    BY <1>2 DEF IInv, Trail
<1>. HIDE DEF cr
<1>10. at.criterion + 1 \in 1..Len(cr) + 1
    BY <1>4, <1>7
<1>11. at.criterion + 1 <= Len(cr) => 1 \in 1..Len(cr[at.criterion + 1])
    BY <1>4, <1>7
<1>12. Cursor'
    BY <1>1, <1>2, <1>4, <1>5, <1>6, <1>10, <1>11 DEF Cursor, cr
<1>13. \A g \in 1..at.criterion : \E k \in DOMAIN cr[g] : Meet(CurrentRoute, cr[g][k]) = "met"
    <2>. SUFFICES ASSUME NEW g \in 1..at.criterion
                  PROVE  \E k \in DOMAIN cr[g] : Meet(CurrentRoute, cr[g][k]) = "met"
        OBVIOUS
    <2>1. CASE g = at.criterion
        BY <1>4, <1>7, <1>8, <2>1
    <2>2. CASE g # at.criterion
        <3>1. g \in 1..at.criterion - 1
            BY <1>4, <2>2
        <3>. QED BY <1>9, <3>1
    <2>. QED BY <2>1, <2>2
<1>14. Trail'
    <2>1. at'.criterion - 1 = at.criterion
        BY <1>4, <1>5
    <2>2. 1..at'.alternative - 1 = {}
        BY <1>5
    <2>3. (\A i \in 1..at.route - 1 : Skipped(routes[i]))'
        BY <1>1, <1>3, <1>5, <1>9
    <2>4. (\A g \in 1..at.criterion - 1 : \E k \in DOMAIN CurrentRoute.criteria[g] :
              Meet(CurrentRoute, CurrentRoute.criteria[g][k]) = "met")'
        BY <1>3, <1>6, <1>13, <2>1 DEF cr
    <2>. QED BY <1>5, <2>2, <2>3, <2>4 DEF Trail
<1>15. Ending'
    BY <1>1 DEF IInv, Ending
<1>. QED BY <1>3, <1>12, <1>14, <1>15 DEF IInv

(* A test is not met: the next alternative, or the next route. *)
LEMMA TestNotMetKeeps ==
    ASSUME IInv, TestNotMet
    PROVE  IInv'
<1>. DEFINE cr == CurrentRoute.criteria
            group == cr[at.criterion]
            n == Len(config.routes)
<1>1. /\ outcome = "matching" /\ outcome' = "matching" /\ at.criterion <= Len(cr) /\ CurrentResult = "not"
      /\ at' = IF at.alternative < Len(group) THEN [at EXCEPT !.alternative = @ + 1]
               ELSE [route |-> at.route + 1, criterion |-> 1, alternative |-> 1]
      /\ UNCHANGED <<config, routes, request, answer, client>>
    BY DEF TestNotMet, Testing, CurrentGroup
<1>2. Running /\ Running'
    BY <1>1 DEF Running
<1>3. /\ Given' /\ Built'
      /\ \A r, t : Meet(r, t)' = Meet(r, t)
      /\ \A r : Skipped(r)' <=> Skipped(r)
    BY <1>1, <1>2, StillBuilt
<1>4. /\ at \in [route : Nat, criterion : Nat, alternative : Nat]
      /\ at.route \in 1..n + 1
      /\ at.criterion \in 1..Len(cr) /\ at.alternative \in 1..Len(group)
    BY <1>1, <1>2 DEF IInv, Cursor, CurrentGroup
<1>5. /\ n \in Nat /\ routes[n + 1].criteria = <<>>
      /\ \A i \in 1..n + 1 :
            /\ Len(routes[i].criteria) \in Nat
            /\ DOMAIN routes[i].criteria = 1..Len(routes[i].criteria)
            /\ \A g \in 1..Len(routes[i].criteria) :
                  /\ Len(routes[i].criteria[g]) \in Nat \ {0}
                  /\ DOMAIN routes[i].criteria[g] = 1..Len(routes[i].criteria[g])
    BY <1>2, RouteShapes DEF IInv
<1>6. cr = routes[at.route].criteria /\ CurrentRoute = routes[at.route]
    BY DEF CurrentRoute
<1>7. Len(group) \in Nat \ {0} /\ DOMAIN group = 1..Len(group) /\ DOMAIN cr = 1..Len(cr)
    BY <1>4, <1>5, <1>6
<1>8. Meet(CurrentRoute, group[at.alternative]) = "not"
    BY <1>1 DEF CurrentResult, CurrentGroup
<1>9. /\ \A i \in 1..at.route - 1 : Skipped(routes[i])
      /\ \A g \in 1..at.criterion - 1 : \E k \in DOMAIN cr[g] : Meet(CurrentRoute, cr[g][k]) = "met"
      /\ \A k \in 1..at.alternative - 1 : Meet(CurrentRoute, group[k]) = "not"
    BY <1>1, <1>2 DEF IInv, Trail, CurrentGroup
<1>10. \A k \in 1..at.alternative : Meet(CurrentRoute, group[k]) = "not"
    <2>. SUFFICES ASSUME NEW k \in 1..at.alternative PROVE Meet(CurrentRoute, group[k]) = "not"
        OBVIOUS
    <2>. HIDE DEF group
    <2>1. CASE k = at.alternative
        BY <1>8, <2>1
    <2>2. CASE k # at.alternative
        <3>1. k \in 1..at.alternative - 1
            BY <1>4, <2>2
        <3>. QED BY <1>9, <3>1
    <2>. QED BY <2>1, <2>2
<1>11. Ending'
    BY <1>1 DEF IInv, Ending
<1>12. CASE at.alternative < Len(group)
    <2>1. /\ at' \in [route : Nat, criterion : Nat, alternative : Nat]
          /\ at'.route = at.route /\ at'.criterion = at.criterion /\ at'.alternative = at.alternative + 1
        BY <1>1, <1>4, <1>12
    <2>2. CurrentRoute' = CurrentRoute /\ CurrentGroup' = group
        BY <1>1, <2>1 DEF CurrentRoute, CurrentGroup
    <2>. HIDE DEF group, cr
    <2>3. at.alternative + 1 \in 1..Len(group) /\ at'.alternative - 1 = at.alternative
        BY <1>4, <1>7, <1>12, <2>1
    <2>4. at.criterion \in 1..Len(cr) + 1
        BY <1>4, <1>5, <1>6
    <2>5. Cursor'
        BY <1>1, <1>2, <1>4, <2>1, <2>2, <2>3, <2>4 DEF Cursor, cr
    <2>6. (\A i \in 1..at.route - 1 : Skipped(routes[i]))'
        BY <1>1, <1>3, <1>9, <2>1
    <2>7. (\A g \in 1..at.criterion - 1 : \E k \in DOMAIN CurrentRoute.criteria[g] :
              Meet(CurrentRoute, CurrentRoute.criteria[g][k]) = "met")'
        BY <1>3, <1>9, <2>1, <2>2 DEF cr
    <2>8. (\A k \in 1..at.alternative - 1 : Meet(CurrentRoute, CurrentGroup[k]) = "not")'
        BY <1>3, <1>10, <2>2, <2>3
    <2>9. Trail'
        BY <2>6, <2>7, <2>8 DEF Trail
    <2>. QED BY <1>3, <1>11, <2>5, <2>9 DEF IInv
<1>13. CASE ~(at.alternative < Len(group))
    <2>1. at' = [route |-> at.route + 1, criterion |-> 1, alternative |-> 1]
        BY <1>1, <1>13
    <2>2. /\ at' \in [route : Nat, criterion : Nat, alternative : Nat]
          /\ at'.route = at.route + 1 /\ at'.criterion = 1 /\ at'.alternative = 1
        BY <1>4, <2>1
    <2>3. CurrentRoute' = routes[at.route + 1] /\ CurrentGroup' = routes[at.route + 1].criteria[1]
        BY <1>1, <2>2 DEF CurrentRoute, CurrentGroup
    <2>. HIDE DEF group, cr, n
    <2>4. at.route # n + 1
        <3>1. Len(<<>>) = 0
            OBVIOUS
        <3>. QED BY <1>4, <1>5, <1>6, <3>1
    <2>5. at.route + 1 \in 1..n + 1 /\ at.route + 1 - 1 = at.route
        BY <1>4, <1>5, <2>4
    <2>6. Cursor'
        <3>1. 1 \in 1..Len(routes[at.route + 1].criteria) + 1
            BY <1>5, <2>5
        <3>2. 1 <= Len(routes[at.route + 1].criteria) => 1 \in 1..Len(routes[at.route + 1].criteria[1])
            <4>. DEFINE next == routes[at.route + 1].criteria
            <4>1. Len(next) \in Nat /\ \A g \in 1..Len(next) : Len(next[g]) \in Nat \ {0}
                BY <1>5, <2>5
            <4>. HIDE DEF next
            <4>2. 1 <= Len(next) => 1 \in 1..Len(next[1])
                BY <4>1
            <4>. QED BY <4>2 DEF next
        <3>. QED BY <1>1, <1>2, <2>2, <2>3, <2>5, <3>1, <3>2 DEF Cursor, n
    <2>7. at.alternative = Len(group)
        BY <1>4, <1>7, <1>13
    <2>8. \A k \in DOMAIN group : Meet(CurrentRoute, group[k]) = "not"
        BY <1>7, <1>10, <2>7
    <2>9. \A i \in 1..at.route : Skipped(routes[i])
        <3>. SUFFICES ASSUME NEW i \in 1..at.route PROVE Skipped(routes[i])
            OBVIOUS
        <3>1. CASE i = at.route
            <4>1. at.criterion \in DOMAIN routes[i].criteria
                BY <1>4, <1>6, <1>7, <3>1
            <4>2. routes[i].criteria[at.criterion] = group
                BY <1>6, <3>1 DEF group
            <4>. QED BY <1>6, <2>8, <3>1, <4>1, <4>2 DEF Skipped
        <3>2. CASE i # at.route
            <4>1. i \in 1..at.route - 1
                BY <1>4, <3>2
            <4>. QED BY <1>9, <4>1
        <3>. QED BY <3>1, <3>2
    <2>10. (\A i \in 1..at.route - 1 : Skipped(routes[i]))'
        <3>1. at'.route - 1 = at.route
            BY <1>4, <2>2
        <3>. QED BY <1>1, <1>3, <2>9, <3>1
    <2>11. 1..at'.criterion - 1 = {} /\ 1..at'.alternative - 1 = {}
        BY <2>2
    <2>12. Trail'
        BY <2>10, <2>11 DEF Trail
    <2>. QED BY <1>3, <1>11, <2>6, <2>12 DEF IInv
<1>. QED BY <1>12, <1>13

(* The invariant of the router. *)
THEOREM Invariance == Spec => []IInv
<1>1. Init => IInv
    BY InitEstablishes
<1>2. IInv /\ [Next]_vars => IInv'
    <2>. SUFFICES ASSUME IInv, [Next]_vars PROVE IInv'
        OBVIOUS
    <2>1. CASE ConfigRefused
        BY <2>1, ConfigRefusedKeeps
    <2>2. CASE NewRouter
        BY <2>2, NewRouterKeeps
    <2>3. CASE TestFails
        BY <2>3, TestFailsKeeps
    <2>4. CASE TestMet
        BY <2>4, TestMetKeeps
    <2>5. CASE TestNotMet
        BY <2>5, TestNotMetKeeps
    <2>6. CASE Matched
        BY <2>6, MatchedKeeps
    <2>7. CASE UNCHANGED vars
        <3>1. UNCHANGED <<config, routes, request, answer, at, outcome, client>>
            BY <2>7 DEF vars
        <3>2. (Running' <=> Running) /\ CurrentRoute' = CurrentRoute /\ CurrentGroup' = CurrentGroup
            BY <3>1 DEF Running, CurrentRoute, CurrentGroup
        <3>3. \A r, t : Meet(r, t)' = Meet(r, t)
            BY <3>1, SameVerdict
        <3>4. \A r : Skipped(r)' <=> Skipped(r)
            BY <3>3 DEF Skipped
        <3>5. CurrentResult' = CurrentResult
            BY <3>1, <3>2, <3>3 DEF CurrentResult
        <3>6. Given' /\ Built'
            BY <3>1, <3>2 DEF IInv, Given, Built, DefaultsFound
        <3>7. Cursor'
            BY <3>1, <3>2 DEF IInv, Cursor
        <3>8. Trail'
            BY <3>1, <3>2, <3>3, <3>4 DEF IInv, Trail
        <3>9. Ending'
            BY <3>1, <3>2, <3>5 DEF IInv, Ending
        <3>. QED BY <3>6, <3>7, <3>8, <3>9 DEF IInv
    <2>. QED BY <2>1, <2>2, <2>3, <2>4, <2>5, <2>6, <2>7 DEF Next, Finished
<1>. QED BY <1>1, <1>2, PTL DEF Spec

---------------------------------------------------------------------------
(* What follows from it.                                                   *)

(* The alternatives of a criterion are tests of fields that are given, and *)
(* say what the configuration says of them.                                *)
LEMMA AlternativeStands ==
    ASSUME Given, NEW rc \in RouteConfigs, ~RouteRefused(rc, config),
           NEW g \in DOMAIN Criteria(rc), NEW k \in DOMAIN Criteria(rc)[g]
    PROVE  LET t == Criteria(rc)[g][k]
           IN  Asked(rc, t) /\ Stands(rc, t.kind, Meet(RouteOf(rc, config), t))
<1>. DEFINE group == Criteria(rc)[g]
            t == group[k]
<1>1. InSeq(group, Criteria(rc)) /\ InSeq(t, group)
    BY DEF InSeq
<1>. HIDE DEF group, t
<1>2. Asked(rc, t)
    BY <1>1, CriteriaMean
<1>3. Stands(rc, t.kind, Meet(RouteOf(rc, config), t))
    BY <1>2, TestSays
<1>. QED BY <1>2, <1>3 DEF t, group

(* A route whose criteria are all met matches by its fields, a route that  *)
(* is skipped does not.                                                    *)
LEMMA RoutesMean ==
    ASSUME Given, NEW rc \in RouteConfigs, ~RouteRefused(rc, config)
    PROVE  LET r == RouteOf(rc, config)
           IN  /\ (\A g \in DOMAIN r.criteria :
                        \E k \in DOMAIN r.criteria[g] : Meet(r, r.criteria[g][k]) = "met")
                       => Matches(rc)
               /\ Skipped(r) => ~Matches(rc)
<1>. DEFINE r == RouteOf(rc, config)
            cr == Criteria(rc)
<1>1. r.criteria = cr
    BY CriteriaOfRoute
<1>2. Matches(rc) <=> \A g : InSeq(g, cr) => OneHolds(rc, g)
    BY CriteriaMean
<1>3. \A g \in DOMAIN cr : \A k \in DOMAIN cr[g] : Stands(rc, cr[g][k].kind, Meet(r, cr[g][k]))
    BY AlternativeStands
<1>. HIDE DEF r, cr
<1>4. ASSUME \A g \in DOMAIN cr : \E k \in DOMAIN cr[g] : Meet(r, cr[g][k]) = "met"
      PROVE  Matches(rc)
    <2>. SUFFICES ASSUME NEW g \in DOMAIN cr PROVE OneHolds(rc, cr[g])
        BY <1>2 DEF InSeq
    <2>1. PICK k \in DOMAIN cr[g] : Meet(r, cr[g][k]) = "met"
        BY <1>4
    <2>2. FieldHolds(rc, cr[g][k].kind)
        BY <1>3, <2>1 DEF Stands
    <2>3. InSeq(cr[g][k], cr[g])
        BY DEF InSeq
    <2>. QED BY <2>2, <2>3 DEF OneHolds
<1>5. ASSUME Skipped(r) PROVE ~Matches(rc)
    <2>1. PICK g \in DOMAIN cr : \A k \in DOMAIN cr[g] : Meet(r, cr[g][k]) = "not"
        BY <1>1, <1>5 DEF Skipped
    <2>2. \A k \in DOMAIN cr[g] : ~FieldHolds(rc, cr[g][k].kind)
        BY <1>3, <2>1 DEF Stands
    <2>3. ~OneHolds(rc, cr[g])
        BY <2>2 DEF OneHolds, InSeq
    <2>4. InSeq(cr[g], cr)
        BY DEF InSeq
    <2>. QED BY <1>2, <2>3, <2>4
<1>. QED BY <1>1, <1>4, <1>5 DEF r

(* The route that answers is the first that matches by its fields. *)
LEMMA InvMatches ==
    ASSUME IInv
    PROVE  FirstMatchingRoute
<1>. SUFFICES ASSUME outcome = "answered"
              PROVE  /\ at.route <= Len(config.routes) => Matches(config.routes[at.route])
                     /\ \A i \in 1..at.route - 1 : ~Matches(config.routes[i])
    BY DEF FirstMatchingRoute
<1>. DEFINE n == Len(config.routes)
<1>1. Running
    BY DEF Running
<1>2. /\ n \in Nat /\ DOMAIN config.routes = 1..n
      /\ \A i \in 1..n : config.routes[i] \in RouteConfigs
      /\ \A i \in 1..n : ~RouteRefused(config.routes[i], config)
      /\ \A i \in 1..n : routes[i] = RouteOf(config.routes[i], config)
    BY <1>1, RouteShapes DEF IInv, Built
<1>3. /\ at.route \in 1..n + 1 /\ at.criterion > Len(CurrentRoute.criteria)
      /\ at.criterion \in 1..Len(CurrentRoute.criteria) + 1
      /\ DOMAIN CurrentRoute.criteria = 1..Len(CurrentRoute.criteria)
      /\ Len(CurrentRoute.criteria) \in Nat
    BY <1>1, RouteShapes DEF IInv, Cursor, Ending, CurrentRoute
<1>4. /\ \A i \in 1..at.route - 1 : Skipped(routes[i])
      /\ \A g \in 1..at.criterion - 1 : \E k \in DOMAIN CurrentRoute.criteria[g] :
            Meet(CurrentRoute, CurrentRoute.criteria[g][k]) = "met"
    BY <1>1 DEF IInv, Trail
<1>. HIDE DEF n
<1>5. ASSUME at.route <= n PROVE Matches(config.routes[at.route])
    <2>. DEFINE rc == config.routes[at.route]
                r == RouteOf(rc, config)
    <2>1. at.route \in 1..n
        BY <1>2, <1>3, <1>5
    <2>2. CurrentRoute = r /\ rc \in RouteConfigs /\ ~RouteRefused(rc, config) /\ Given
        BY <1>2, <2>1 DEF CurrentRoute, IInv
    <2>3. 1..at.criterion - 1 = DOMAIN CurrentRoute.criteria
        BY <1>3
    <2>4. \A g \in DOMAIN r.criteria : \E k \in DOMAIN r.criteria[g] : Meet(r, r.criteria[g][k]) = "met"
        BY <1>4, <2>2, <2>3
    <2>. QED BY <2>2, <2>4, RoutesMean
<1>6. ASSUME NEW i \in 1..at.route - 1 PROVE ~Matches(config.routes[i])
    <2>. DEFINE rc == config.routes[i]
                r == RouteOf(rc, config)
    <2>1. i \in 1..n
        BY <1>2, <1>3
    <2>2. Skipped(r) /\ rc \in RouteConfigs /\ ~RouteRefused(rc, config) /\ Given
        BY <1>2, <1>4, <2>1 DEF IInv
    <2>. QED BY <2>2, RoutesMean
<1>. QED BY <1>5, <1>6 DEF n

(* The route whose client a request gets is the first one that matches it, *)
(* read as one predicate over its fields: what Route builds of them and    *)
(* what Router.match and Route.Match make of that (router/route.go) is the *)
(* same thing.                                                             *)
THEOREM FirstMatchingRouteTaken == Spec => []FirstMatchingRoute
BY Invariance, InvMatches, PTL

(* The client of a route that was not refused. *)
LEMMA RouteClient ==
    ASSUME NEW c \in Configs, NEW rc \in RouteConfigs, ~RouteRefused(rc, c),
           NEW net \in {"tcp", "udp"}, rc.network \in {"", net}
    PROVE  LET r == RouteOf(rc, c)
               cl == IF net = "tcp" THEN r.tcp ELSE r.udp
           IN  IF cl # ErrRejected THEN cl \in IF net = "tcp" THEN c.tcpClients ELSE c.udpClients
               ELSE rc.client = "reject"
<1>1. rc.client \in STRING /\ ErrRejected \notin STRING
    BY RouterAssumption DEF RouteConfigs
<1>2. ClientsFound(rc, c)
    BY DEF RouteRefused
<1>3. CASE rc.client = "reject"
    <2>1. RouteOf(rc, c).tcp = ErrRejected /\ RouteOf(rc, c).udp = ErrRejected
        BY <1>3 DEF RouteOf
    <2>. QED BY <1>3, <2>1
<1>4. CASE rc.client # "reject" /\ net = "tcp"
    <2>1. RouteOf(rc, c).tcp = rc.client
        BY <1>4 DEF RouteOf
    <2>. QED BY <1>1, <1>2, <1>4, <2>1 DEF ClientsFound
<1>5. CASE rc.client # "reject" /\ net = "udp"
    <2>1. RouteOf(rc, c).udp = rc.client
        BY <1>5 DEF RouteOf
    <2>. QED BY <1>1, <1>2, <1>5, <2>1 DEF ClientsFound
<1>. QED BY <1>3, <1>4, <1>5

(* Stated by itself for the first-order prover, which knows no arithmetic. *)
LEMMA ZeroNotOne == 0 # 1
    OBVIOUS

(* The default client is one of those there are, or none as configured. *)
LEMMA DefaultClientIs ==
    ASSUME NEW clients, NEW name \in STRING, name \in clients \cup {"", "reject"}
    PROVE  LET cl == DefaultClient(name, clients)
           IN  IF cl # ErrRejected THEN cl \in clients ELSE name \in {"", "reject"}
<1>1. CASE name = "" /\ Cardinality(clients) = 1
    <2>1. Cardinality({}) = 0
        BY FS_EmptySet
    <2>2. clients # {}
        <3>1. clients = {} => Cardinality(clients) = 0
            BY <2>1, Zenon
        <3>2. Cardinality(clients) = 1
            BY <1>1, Zenon
        <3>. QED BY <3>1, <3>2, ZeroNotOne, Zenon
    <2>3. (CHOOSE cl \in clients : TRUE) \in clients
        BY <2>2
    <2>. QED BY <1>1, <2>3 DEF DefaultClient
<1>2. CASE ~(name = "" /\ Cardinality(clients) = 1) /\ name \in {"", "reject"}
    <2>1. DefaultClient(name, clients) = ErrRejected
        BY <1>2 DEF DefaultClient
    <2>. QED BY <1>2, <2>1
<1>3. CASE name \notin {"", "reject"}
    <2>1. DefaultClient(name, clients) = name
        BY <1>3 DEF DefaultClient
    <2>2. name # ErrRejected
        BY RouterAssumption
    <2>. QED BY <1>3, <2>1, <2>2
<1>. QED BY <1>1, <1>2, <1>3

(* The client of the answer is the one the route names. *)
LEMMA InvClients ==
    ASSUME IInv
    PROVE  ClientsAsConfigured
<1>. SUFFICES ASSUME outcome = "answered"
              PROVE  IF client # ErrRejected
                     THEN client \in IF request.network = "tcp" THEN config.tcpClients ELSE config.udpClients
                     ELSE IF at.route <= Len(config.routes) THEN config.routes[at.route].client = "reject"
                     ELSE (IF request.network = "tcp" THEN config.defaultTCP ELSE config.defaultUDP)
                              \in {"", "reject"}
    BY DEF ClientsAsConfigured
<1>. DEFINE n == Len(config.routes)
            net == request.network
<1>1. Running
    BY DEF Running
<1>2. /\ n \in Nat /\ DOMAIN config.routes = 1..n
      /\ \A i \in 1..n : config.routes[i] \in RouteConfigs
      /\ \A i \in 1..n : ~RouteRefused(config.routes[i], config)
      /\ \A i \in 1..n : routes[i] = RouteOf(config.routes[i], config)
      /\ routes[n + 1] = DefaultRoute(config)
      /\ DefaultsFound
    BY <1>1, RouteShapes DEF IInv, Built
<1>3. net \in {"tcp", "udp"} /\ config \in Configs
    BY DEF IInv, Given, Requests
<1>4. /\ at.route \in 1..n + 1
      /\ client = IF net = "tcp" THEN CurrentRoute.tcp ELSE CurrentRoute.udp
    BY <1>1 DEF IInv, Cursor, Ending
<1>. HIDE DEF n, net
<1>5. CASE at.route <= n
    <2>. DEFINE rc == config.routes[at.route]
    <2>1. at.route \in 1..n
        BY <1>2, <1>4, <1>5
    <2>2. CurrentRoute = RouteOf(rc, config) /\ rc \in RouteConfigs /\ ~RouteRefused(rc, config)
        BY <1>2, <2>1 DEF CurrentRoute
    <2>3. Matches(rc)
        BY <1>5, InvMatches DEF FirstMatchingRoute, n
    <2>4. rc.network \in {"", net}
        BY <2>3 DEF Matches, net
    <2>. HIDE DEF rc
    <2>5. IF client # ErrRejected THEN client \in IF net = "tcp" THEN config.tcpClients ELSE config.udpClients
          ELSE rc.client = "reject"
        BY <1>3, <1>4, <2>2, <2>4, RouteClient
    <2>. QED BY <1>5, <2>5 DEF net, n, rc
<1>6. CASE ~(at.route <= n)
    <2>1. at.route = n + 1
        BY <1>2, <1>4, <1>6
    <2>2. CurrentRoute = DefaultRoute(config)
        BY <1>2, <2>1 DEF CurrentRoute
    <2>3. /\ CurrentRoute.tcp = DefaultClient(config.defaultTCP, config.tcpClients)
          /\ CurrentRoute.udp = DefaultClient(config.defaultUDP, config.udpClients)
        BY <2>2 DEF DefaultRoute
    <2>4. config.defaultTCP \in STRING /\ config.defaultUDP \in STRING
        BY <1>3 DEF Configs
    <2>5. CASE net = "tcp"
        <3>1. IF client # ErrRejected THEN client \in config.tcpClients ELSE config.defaultTCP \in {"", "reject"}
            BY <1>2, <1>4, <2>3, <2>4, <2>5, DefaultClientIs DEF DefaultsFound
        <3>. QED BY <1>6, <2>5, <3>1 DEF net, n
    <2>6. CASE net = "udp"
        <3>1. IF client # ErrRejected THEN client \in config.udpClients ELSE config.defaultUDP \in {"", "reject"}
            <4>1. client = DefaultClient(config.defaultUDP, config.udpClients)
                BY <1>4, <2>3, <2>6
            <4>2. config.defaultUDP \in config.udpClients \cup {"", "reject"}
                BY <1>2 DEF DefaultsFound
            <4>. QED BY <2>4, <4>1, <4>2, DefaultClientIs
        <3>. QED BY <1>6, <2>6, <3>1 DEF net, n
    <2>. QED BY <1>3, <2>5, <2>6
<1>. QED BY <1>5, <1>6

(* The test at the cursor is a test of a route that was not refused. *)
LEMMA CursorTest ==
    ASSUME IInv, Running, at.criterion <= Len(CurrentRoute.criteria)
    PROVE  LET rc == config.routes[at.route]
           IN  /\ rc \in RouteConfigs /\ ~RouteRefused(rc, config)
               /\ Asked(rc, CurrentGroup[at.alternative])
               /\ Stands(rc, CurrentGroup[at.alternative].kind, CurrentResult)
<1>. DEFINE n == Len(config.routes)
            rc == config.routes[at.route]
            cr == CurrentRoute.criteria
            t == CurrentGroup[at.alternative]
<1>1. /\ n \in Nat /\ DOMAIN config.routes = 1..n
      /\ \A i \in 1..n : config.routes[i] \in RouteConfigs
      /\ \A i \in 1..n : ~RouteRefused(config.routes[i], config)
      /\ \A i \in 1..n : routes[i] = RouteOf(config.routes[i], config)
      /\ routes[n + 1].criteria = <<>>
    BY RouteShapes DEF IInv, Built
<1>2. /\ at.route \in 1..n + 1 /\ at.criterion \in 1..Len(cr) /\ at.alternative \in 1..Len(CurrentGroup)
    BY DEF IInv, Cursor
<1>3. at.route \in 1..n
    <2>1. Len(<<>>) = 0
        OBVIOUS
    <2>. QED BY <1>1, <1>2, <2>1 DEF CurrentRoute
<1>4. CurrentRoute = RouteOf(rc, config) /\ rc \in RouteConfigs /\ ~RouteRefused(rc, config) /\ Given
    BY <1>1, <1>3 DEF CurrentRoute, IInv
<1>5. cr = Criteria(rc)
    BY <1>4, CriteriaOfRoute
<1>6. at.criterion \in DOMAIN Criteria(rc) /\ at.alternative \in DOMAIN Criteria(rc)[at.criterion]
    BY <1>2, <1>5, CriteriaShape DEF CurrentGroup
<1>7. t = Criteria(rc)[at.criterion][at.alternative]
    BY <1>5 DEF CurrentGroup
<1>8. CurrentResult = Meet(RouteOf(rc, config), t)
    BY <1>4 DEF CurrentResult
<1>. HIDE DEF rc, t
<1>9. Asked(rc, t) /\ Stands(rc, t.kind, Meet(RouteOf(rc, config), t))
    BY <1>4, <1>6, <1>7, AlternativeStands
<1>. QED BY <1>4, <1>8, <1>9 DEF rc, t

(* An error comes from the database or from lookups that failed. *)
LEMMA InvCauses ==
    ASSUME IInv
    PROVE  ErrorsHaveACause
<1>. SUFFICES ASSUME outcome = "error" PROVE Cause(config.routes[at.route])
    BY DEF ErrorsHaveACause, Cause
<1>1. Running /\ at.criterion <= Len(CurrentRoute.criteria) /\ CurrentResult = "error"
    BY DEF IInv, Ending, Running
<1>. QED BY <1>1, CursorTest DEF Stands

(* The router answers with what was configured: a client of the network, a *)
(* rejection somebody asked for, or an error with a cause in the database  *)
(* or the resolvers (Router.GetTCPClient, GetUDPClient).                   *)
THEOREM OutcomesCaused == Spec => []OutcomesHaveACause
<1>1. IInv => OutcomesHaveACause
    BY InvClients, InvCauses DEF OutcomesHaveACause
<1>. QED BY <1>1, Invariance, PTL

(* What a test needs, a route that was not refused has. *)
LEMMA TestNeeds ==
    ASSUME NEW rc, NEW t, Asked(rc, t)
    PROVE  /\ t.kind = "fromCountries" => rc.fromCountries # {}
           /\ t.kind = "toCountries" => rc.toCountries # {}
           /\ t.kind = "toIPs" => rc.toIPs # {}
           /\ t.kind \notin {"expectedIPs", "expectedCountries"}
           /\ \A i \in DOMAIN t.expected :
                 \/ t.expected[i].kind = "expectedIPs" /\ rc.expectedIPs # {}
                 \/ t.expected[i].kind = "expectedCountries" /\ rc.expectedCountries # {}
<1>1. CASE rc.toDomains # {} /\ t = DomainTest(rc)
    <2>. DEFINE u == Test("expectedIPs", rc.expectedIPs, rc)
                w == Test("expectedCountries", rc.expectedCountries, rc)
                S == {u, w}
    <2>1. t.kind = "toDomains" /\ t.expected = ExpectedTests(rc)
        BY <1>1 DEF DomainTest, Test
    <2>2. \A y : InSeq(y, ExpectedTests(rc)) <=> \/ rc.expectedIPs # {} /\ y = u
                                                 \/ rc.expectedCountries # {} /\ y = w
        <3>1. u \in S /\ w \in S
            OBVIOUS
        <3>. HIDE DEF S
        <3>. QED BY <3>1, ExpectedAlternatives
    <2>3. u.kind = "expectedIPs" /\ w.kind = "expectedCountries"
        BY TestIs
    <2>4. \A i \in DOMAIN t.expected : InSeq(t.expected[i], ExpectedTests(rc))
        BY <2>1 DEF InSeq
    <2>. HIDE DEF u, w
    <2>. QED BY <2>1, <2>2, <2>3, <2>4
<1>2. ASSUME NEW kind, NEW set, t = Test(kind, set, rc)
      PROVE  t.kind = kind /\ DOMAIN t.expected = {}
    BY <1>2 DEF Test
<1>3. CASE \/ rc.network # "" /\ t = Test("network", {rc.network}, rc)
           \/ rc.fromServers # {} /\ t = Test("fromServers", rc.fromServers, rc)
           \/ rc.fromIPs # {} /\ t = Test("fromIPs", rc.fromIPs, rc)
           \/ rc.fromPorts # {} /\ t = Test("fromPorts", rc.fromPorts, rc)
           \/ rc.toPorts # {} /\ t = Test("toPorts", rc.toPorts, rc)
    <2>1. t.kind \in {"network", "fromServers", "fromIPs", "fromPorts", "toPorts"} /\ DOMAIN t.expected = {}
        BY <1>2, <1>3
    <2>. QED BY <2>1
<1>4. CASE rc.fromCountries # {} /\ t = Test("fromCountries", rc.fromCountries, rc)
    BY <1>2, <1>4
<1>5. CASE rc.toIPs # {} /\ t = Test("toIPs", rc.toIPs, rc)
    BY <1>2, <1>5
<1>6. CASE rc.toCountries # {} /\ t = Test("toCountries", rc.toCountries, rc)
    BY <1>2, <1>6
<1>. QED BY <1>1, <1>3, <1>4, <1>5, <1>6 DEF Asked

(* A lookup is made only with the resolver or database it needs. *)
LEMMA InvMeans ==
    ASSUME IInv
    PROVE  LookupsHaveTheirMeans
<1>. SUFFICES ASSUME Testing PROVE LookupsHaveTheirMeans
    BY DEF LookupsHaveTheirMeans
<1>. DEFINE rc == config.routes[at.route]
            t == CurrentGroup[at.alternative]
            asked == {t.kind} \cup {t.expected[i].kind : i \in DOMAIN t.expected}
<1>1. rc \in RouteConfigs /\ ~RouteRefused(rc, config) /\ Asked(rc, t)
    BY CursorTest DEF Testing, Running
<1>. HIDE DEF rc, t
<1>2. /\ asked \cap {"fromCountries", "toCountries", "expectedCountries"} # {} => NeedsGeoIP(rc)
      /\ asked \cap {"expectedIPs", "expectedCountries"} # {} => NeedsResolver(rc)
      /\ asked \cap {"toIPs", "toCountries"} # {} /\ ~rc.disableNameResolution => NeedsResolver(rc)
    BY <1>1, TestNeeds DEF NeedsGeoIP, NeedsResolver, HasExpectedIP
<1>3. NeedsGeoIP(rc) => config.geoip
    BY <1>1 DEF RouteRefused
<1>4. NeedsResolver(rc) => ResolversOf(rc, config) # <<>>
    BY <1>1 DEF RouteRefused, ResolversOf
<1>. QED BY <1>2, <1>3, <1>4 DEF LookupsHaveTheirMeans, rc, t

(* The types follow from the parts of the invariant. *)
LEMMA InvTypes ==
    ASSUME IInv
    PROVE  TypeOK
<1>1. outcome \in {"config", "refused", "matching", "answered", "error"}
    BY DEF IInv, Ending
<1>2. client \in config.tcpClients \cup config.udpClients \cup {ErrRejected}
    <2>1. CASE outcome = "answered"
        BY <2>1, InvClients DEF ClientsAsConfigured
    <2>2. CASE outcome # "answered"
        BY <2>2 DEF IInv, Ending
    <2>. QED BY <2>1, <2>2
<1>3. outcome \notin {"config", "refused"} =>
          /\ at.route \in 1..Len(config.routes) + 1
          /\ at.criterion \in 1..Len(CurrentRoute.criteria) + 1
          /\ Testing => at.alternative \in 1..Len(CurrentGroup)
    BY DEF IInv, Cursor, Running, Testing
<1>. QED BY <1>1, <1>2, <1>3 DEF TypeOK

(* A match stays within the routes, never runs past the default one, and   *)
(* no test asks a database that is not open or an empty list of resolvers  *)
(* (Router.match panics where the default route does not match).           *)
THEOREM NeverPanics == Spec => []MatchNeverPanics
<1>1. IInv => MatchNeverPanics
    BY InvTypes, InvMeans DEF MatchNeverPanics
<1>. QED BY <1>1, Invariance, PTL

=============================================================================
