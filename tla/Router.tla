------------------------------ MODULE Router ------------------------------
(***************************************************************************)
(* The router: how a route is built from its configuration and how the     *)
(* client of a request is found (router/router.go, router/route.go).       *)
(*                                                                         *)
(* A request is matched against the routes in order, a route criterion by  *)
(* criterion, a group of alternatives member by member; the first route    *)
(* all of whose criteria are met decides.  A criterion may need the GeoIP  *)
(* database or a lookup of the target domain, and either may fail.         *)
(* Prefixes and named prefix sets of a field are one set of addresses, as  *)
(* the set builder makes them, and so are domains and named domain sets.   *)
(***************************************************************************)
EXTENDS Naturals, Sequences, FiniteSets

CONSTANTS
    IPs,        \* IP addresses
    Domains,    \* domain names
    Cases,      \* what is put together: router configurations; requests, as the
                \* relays pass them to GetTCPClient and GetUDPClient; and what a
                \* resolver may answer, a result, ErrLookup or another error
    CountryOf,  \* the GeoIP database: the country of an address, or GeoIPError
    ErrLookup,
    OtherError,
    GeoIPError,
    ErrRejected \* what GetTCPClient and GetUDPClient return for a nil client

VARIABLES
    config,     \* the configuration the router is built from
    routes,     \* the routes of the router, the default one last
    request,    \* the request being matched
    answer,     \* what each resolver answers to a lookup of its target
    at,         \* the next test: a route, a criterion of it, an alternative of that
    outcome,    \* "config", "refused", "matching", "answered" or "error"
    client      \* the client of the answer, ErrRejected for none

vars == <<config, routes, request, answer, at, outcome, client>>

(* The fields that have an Invert flag. *)
Invertible ==
    {"fromServers", "fromIPs", "fromCountries", "fromPorts", "toDomains", "expectedIPs",
     "expectedCountries", "toIPs", "toCountries", "toPorts"}

RouteConfigs ==
    [name : STRING, network : STRING, client : STRING, resolver : STRING, unknownSet : BOOLEAN,
     fromServers : SUBSET STRING, fromIPs : SUBSET IPs, fromCountries : SUBSET STRING, fromPorts : SUBSET Nat,
     toDomains : SUBSET Domains, expectedIPs : SUBSET IPs, expectedCountries : SUBSET STRING,
     toIPs : SUBSET IPs, toCountries : SUBSET STRING, toPorts : SUBSET Nat,
     disableNameResolution : BOOLEAN, invert : SUBSET Invertible]

Configs ==
    [filesLoad : BOOLEAN, geoip : BOOLEAN, resolvers : Seq(STRING), defaultTCP : STRING, defaultUDP : STRING,
     tcpClients : SUBSET STRING, udpClients : SUBSET STRING, routes : Seq(RouteConfigs)]

Requests ==
    [network : {"tcp", "udp"}, server : STRING, source : IPs, sourcePort : Nat,
     target : IPs \cup Domains, targetPort : Nat]

Results == [ipv6 : Seq(IPs), ipv4 : Seq(IPs)]

ASSUME RouterAssumption ==
    /\ IPs \cap Domains = {}
    /\ \A k \in Cases :
          /\ k.configs \subseteq Configs
          /\ k.requests \subseteq Requests
          /\ k.answers \subseteq Results \cup {ErrLookup, OtherError}
    /\ ErrRejected \notin STRING

---------------------------------------------------------------------------
(* Building a route.                                                       *)

(* The empty route configuration: no criterion, everything rejected. *)
EmptyRoute ==
    [name |-> "route", network |-> "", client |-> "reject", resolver |-> "", unknownSet |-> FALSE,
     fromServers |-> {}, fromIPs |-> {}, fromCountries |-> {}, fromPorts |-> {},
     toDomains |-> {}, expectedIPs |-> {}, expectedCountries |-> {},
     toIPs |-> {}, toCountries |-> {}, toPorts |-> {},
     disableNameResolution |-> FALSE, invert |-> {}]

HasExpectedIP(rc) == rc.expectedIPs # {} \/ rc.expectedCountries # {}

NeedsGeoIP(rc) == rc.fromCountries # {} \/ rc.toCountries # {} \/ rc.expectedCountries # {}

(* bug: lookups for the expected addresses of a domain forgotten *)
NeedsResolver_NotExpected(rc) ==
    ~rc.disableNameResolution /\ (rc.toIPs # {} \/ rc.toCountries # {})

NeedsResolver(rc) ==
    \/ HasExpectedIP(rc)
    \/ ~rc.disableNameResolution /\ (rc.toIPs # {} \/ rc.toCountries # {})

(* The resolvers a route looks domains up with, in order. *)
ResolversOf(rc, c) == IF rc.resolver = "" THEN c.resolvers ELSE <<rc.resolver>>

InSeq(x, s) == \E i \in DOMAIN s : s[i] = x

ClientsFound(rc, c) ==
    rc.client # "reject" =>
        /\ rc.network \in {"", "tcp"} => rc.client \in c.tcpClients
        /\ rc.network \in {"", "udp"} => rc.client \in c.udpClients

(* Route returns an error. *)
RouteRefused(rc, c) ==
    \/ rc.name \in {"", "default"}
    \/ ~c.geoip /\ NeedsGeoIP(rc)
    \/ c.resolvers = <<>> /\ NeedsResolver(rc)
    \/ rc.toDomains = {} /\ HasExpectedIP(rc)
    \/ rc.resolver # "" /\ ~InSeq(rc.resolver, c.resolvers)
    \/ rc.network \notin {"", "tcp", "udp"}
    \/ ~ClientsFound(rc, c)
    \/ rc.unknownSet

(* A criterion of a route is a sequence of alternatives, an alternative a  *)
(* test on one field, with what a matched domain must resolve to.          *)
Test(kind, set, rc) ==
    [kind |-> kind, set |-> set, invert |-> kind \in rc.invert, expected |-> <<>>]

AddIf(cond, test) == IF cond THEN <<test>> ELSE <<>>

(* AppendTo: an empty group is no criterion. *)
AppendTo(group) == IF group = <<>> THEN <<>> ELSE <<group>>

(* The alternatives for the addresses a matched domain resolves to. *)
ExpectedTests(rc) ==
    AddIf(rc.expectedIPs # {}, Test("expectedIPs", rc.expectedIPs, rc))
        \o AddIf(rc.expectedCountries # {}, Test("expectedCountries", rc.expectedCountries, rc))

SourceTests(rc) ==
    AddIf(rc.fromIPs # {}, Test("fromIPs", rc.fromIPs, rc))
        \o AddIf(rc.fromCountries # {}, Test("fromCountries", rc.fromCountries, rc))

DestTests(rc) ==
    AddIf(rc.toDomains # {}, [Test("toDomains", rc.toDomains, rc) EXCEPT !.expected = ExpectedTests(rc)])
        \o AddIf(rc.toIPs # {}, Test("toIPs", rc.toIPs, rc))
        \o AddIf(rc.toCountries # {}, Test("toCountries", rc.toCountries, rc))

Criteria(rc) ==
    AppendTo(AddIf(rc.network # "", Test("network", {rc.network}, rc)))
        \o AppendTo(AddIf(rc.fromServers # {}, Test("fromServers", rc.fromServers, rc)))
        \o AppendTo(SourceTests(rc))
        \o AppendTo(AddIf(rc.fromPorts # {}, Test("fromPorts", rc.fromPorts, rc)))
        \o AppendTo(DestTests(rc))
        \o AppendTo(AddIf(rc.toPorts # {}, Test("toPorts", rc.toPorts, rc)))

(* The route of a configuration; on a network it is not for, it has no     *)
(* client.                                                                 *)
RouteOf(rc, c) ==
    [criteria |-> Criteria(rc),
     tcp |-> IF rc.client # "reject" /\ rc.network \in {"", "tcp"} THEN rc.client ELSE ErrRejected,
     udp |-> IF rc.client # "reject" /\ rc.network \in {"", "udp"} THEN rc.client ELSE ErrRejected,
     resolvers |-> ResolversOf(rc, c),
     resolve |-> ~rc.disableNameResolution]

(* The default client: the one named, or the only one there is. *)
DefaultClient(name, clients) ==
    IF name = "" /\ Cardinality(clients) = 1 THEN CHOOSE cl \in clients : TRUE
    ELSE IF name \in {"", "reject"} THEN ErrRejected ELSE name

DefaultRoute(c) ==
    [criteria |-> <<>>, tcp |-> DefaultClient(c.defaultTCP, c.tcpClients),
     udp |-> DefaultClient(c.defaultUDP, c.udpClients), resolvers |-> <<>>, resolve |-> TRUE]

Start == [route |-> 1, criterion |-> 1, alternative |-> 1]

Init ==
    /\ \E k \in Cases :
          /\ config \in k.configs
          /\ request \in k.requests
          /\ answer \in [{config.resolvers[i] : i \in DOMAIN config.resolvers} -> k.answers]
    /\ routes = <<>>
    /\ at = Start
    /\ outcome = "config"
    /\ client = ErrRejected

DefaultsFound ==
    /\ config.defaultTCP \in config.tcpClients \cup {"", "reject"}
    /\ config.defaultUDP \in config.udpClients \cup {"", "reject"}

(* Config.Router returns an error, and the program does not start; the     *)
(* files of the database and of the sets are read in between.              *)
ConfigRefused ==
    /\ outcome = "config"
    /\ \/ ~DefaultsFound
       \/ ~config.filesLoad
       \/ \E i \in DOMAIN config.routes : RouteRefused(config.routes[i], config)
    /\ outcome' = "refused"
    /\ UNCHANGED <<config, routes, request, answer, at, client>>

(* Config.Router returns a router; a relay asks it for a client. *)
NewRouter ==
    /\ outcome = "config"
    /\ DefaultsFound
    /\ config.filesLoad
    /\ \A i \in DOMAIN config.routes : ~RouteRefused(config.routes[i], config)
    /\ routes' = Append([i \in DOMAIN config.routes |-> RouteOf(config.routes[i], config)],
                        DefaultRoute(config))
    /\ outcome' = "matching"
    /\ UNCHANGED <<config, request, answer, at, client>>

---------------------------------------------------------------------------
(* Matching a request.                                                     *)

(* bug: only the first resolver is asked *)
Lookup_First(r) == answer[r.resolvers[1]]

(* lookup: the first resolver that does not report ErrLookup decides. *)
Lookup(r) ==
    LET tried == {i \in DOMAIN r.resolvers : answer[r.resolvers[i]] # ErrLookup}
    IN  IF tried = {} THEN ErrLookup
        ELSE answer[r.resolvers[CHOOSE i \in tried : \A j \in tried : i <= j]]

(* The address of a result that is tested: the first IPv6 one, or the      *)
(* first IPv4 one.                                                         *)
FirstAddress(result) == IF result.ipv6 # <<>> THEN <<result.ipv6[1]>>
                        ELSE IF result.ipv4 # <<>> THEN <<result.ipv4[1]>> ELSE <<>>

MetIf(b) == IF b THEN "met" ELSE "not"

(* matchAddrToGeoIPCountries *)
InCountries(ip, countries) ==
    IF CountryOf[ip] = GeoIPError THEN "error" ELSE MetIf(CountryOf[ip] \in countries)

InIPs(ip, ips) == MetIf(ip \in ips)

(* A test of the target's address, or of what the target resolves to. *)
TargetMeets(r, resolve, InSet(_, _), set) ==
    IF request.target \in IPs THEN InSet(request.target, set)
    ELSE IF ~resolve THEN "not"
    ELSE IF Lookup(r) \in {ErrLookup, OtherError} THEN "error"
    ELSE IF FirstAddress(Lookup(r)) = <<>> THEN "not"
    ELSE InSet(FirstAddress(Lookup(r))[1], set)

(* Meet of the criteria without alternatives of their own. *)
Plain(r, t) ==
    CASE t.kind = "network" -> MetIf(request.network \in t.set)
      [] t.kind = "fromServers" -> MetIf(request.server \in t.set)
      [] t.kind = "fromIPs" -> InIPs(request.source, t.set)
      [] t.kind = "fromCountries" -> InCountries(request.source, t.set)
      [] t.kind = "fromPorts" -> MetIf(request.sourcePort \in t.set)
      [] t.kind = "toDomains" -> MetIf(request.target \in t.set)
      [] t.kind = "expectedIPs" -> TargetMeets(r, TRUE, InIPs, t.set)
      [] t.kind = "expectedCountries" -> TargetMeets(r, TRUE, InCountries, t.set)
      [] t.kind = "toIPs" -> TargetMeets(r, r.resolve, InIPs, t.set)
      [] t.kind = "toCountries" -> TargetMeets(r, r.resolve, InCountries, t.set)
      [] OTHER -> MetIf(request.targetPort \in t.set)  \* "toPorts"

(* InvertedCriterion: an error stays an error. *)
Inverted(t, met) ==
    IF ~t.invert \/ met = "error" THEN met ELSE IF met = "met" THEN "not" ELSE "met"

(* CriterionGroupOR: the first alternative that is met or fails decides. *)
GroupMet(r, group) ==
    LET result == [i \in DOMAIN group |-> Inverted(group[i], Plain(r, group[i]))]
        decided == {i \in DOMAIN group : result[i] # "not"}
    IN  IF decided = {} THEN "not" ELSE result[CHOOSE i \in decided : \A j \in decided : i <= j]

(* bug: what a matched domain resolves to is not tested *)
Meet_NoExpected(r, t) == Inverted(t, Plain(r, t))

(* Meet of a test, DestDomainExpectedIPCriterion included. *)
Meet(r, t) ==
    Inverted(t, IF t.expected # <<>> /\ Plain(r, t) = "met" THEN GroupMet(r, t.expected) ELSE Plain(r, t))

CurrentRoute == routes[at.route]

CurrentGroup == CurrentRoute.criteria[at.criterion]

(* One test of the current route is still to be made. *)
Testing == outcome = "matching" /\ at.criterion <= Len(CurrentRoute.criteria)

CurrentResult == Meet(CurrentRoute, CurrentGroup[at.alternative])

(* The test fails: match returns the error, whatever routes are left. *)
TestFails ==
    /\ Testing
    /\ CurrentResult = "error"
    /\ outcome' = "error"
    /\ UNCHANGED <<config, routes, request, answer, at, client>>

(* An alternative is met: the next criterion is looked at. *)
TestMet ==
    /\ Testing
    /\ CurrentResult = "met"
    /\ at' = [at EXCEPT !.criterion = @ + 1, !.alternative = 1]
    /\ UNCHANGED <<config, routes, request, answer, outcome, client>>

(* An alternative is not met: the next one is tried, or the next route. *)
TestNotMet ==
    /\ Testing
    /\ CurrentResult = "not"
    /\ at' = IF at.alternative < Len(CurrentGroup) THEN [at EXCEPT !.alternative = @ + 1]
             ELSE [route |-> at.route + 1, criterion |-> 1, alternative |-> 1]
    /\ UNCHANGED <<config, routes, request, answer, outcome, client>>

(* Every criterion is met: the route's client, or ErrRejected. *)
Matched ==
    /\ outcome = "matching"
    /\ at.criterion > Len(CurrentRoute.criteria)
    /\ outcome' = "answered"
    /\ client' = IF request.network = "tcp" THEN CurrentRoute.tcp ELSE CurrentRoute.udp
    /\ UNCHANGED <<config, routes, request, answer, at>>

Done == outcome \notin {"config", "matching"}

Finished == Done /\ UNCHANGED vars

Next == ConfigRefused \/ NewRouter \/ TestFails \/ TestMet \/ TestNotMet \/ Matched \/ Finished

Spec == Init /\ [][Next]_vars

---------------------------------------------------------------------------
(* What a route matches, as one predicate over the fields of RouteConfig:  *)
(* every field that is not empty must hold, those on the source address    *)
(* are alternatives of each other, and so are those on the target (what    *)
(* Route does; the comments have each field for itself), and a flag        *)
(* inverts its field alone.  An inverted ToDomains holds for IP targets,   *)
(* against its comment (InvertedDomainsAreDomains).                        *)

(* The addresses a domain is judged by: of the first resolver that knows. *)
Known(rc) ==
    LET rs == ResolversOf(rc, config)
        ok == {i \in DOMAIN rs : answer[rs[i]] \notin {ErrLookup, OtherError}}
    IN  IF ok = {} THEN {} ELSE LET first == CHOOSE i \in ok : \A j \in ok : i <= j
        IN  {ip \in IPs : FirstAddress(answer[rs[first]]) = <<ip>>}

TargetIPs(rc, resolve) ==
    IF request.target \in IPs THEN {request.target} ELSE IF resolve THEN Known(rc) ELSE {}

Holds(rc, kind, b) == IF kind \in rc.invert THEN ~b ELSE b

InCountry(ips, countries) == \E ip \in ips : CountryOf[ip] \in countries

Expected(rc) ==
    HasExpectedIP(rc) =>
        \/ rc.expectedIPs # {} /\ Holds(rc, "expectedIPs", TargetIPs(rc, TRUE) \cap rc.expectedIPs # {})
        \/ rc.expectedCountries # {}
           /\ Holds(rc, "expectedCountries", InCountry(TargetIPs(rc, TRUE), rc.expectedCountries))

Matches(rc) ==
    LET resolve == ~rc.disableNameResolution
    IN  /\ rc.network \in {"", request.network}
        /\ rc.fromServers # {} => Holds(rc, "fromServers", request.server \in rc.fromServers)
        /\ rc.fromPorts # {} => Holds(rc, "fromPorts", request.sourcePort \in rc.fromPorts)
        /\ rc.toPorts # {} => Holds(rc, "toPorts", request.targetPort \in rc.toPorts)
        /\ rc.fromIPs \cup rc.fromCountries # {} =>
             \/ rc.fromIPs # {} /\ Holds(rc, "fromIPs", request.source \in rc.fromIPs)
             \/ rc.fromCountries # {}
                /\ Holds(rc, "fromCountries", InCountry({request.source}, rc.fromCountries))
        /\ rc.toDomains \cup rc.toIPs \cup rc.toCountries # {} =>
             \/ rc.toDomains # {}
                /\ Holds(rc, "toDomains", request.target \in rc.toDomains /\ Expected(rc))
             \/ rc.toIPs # {} /\ Holds(rc, "toIPs", TargetIPs(rc, resolve) \cap rc.toIPs # {})
             \/ rc.toCountries # {}
                /\ Holds(rc, "toCountries", InCountry(TargetIPs(rc, resolve), rc.toCountries))

---------------------------------------------------------------------------
(* Properties.                                                             *)

(* The fields keep their types, and the cursor of match never passes the   *)
(* default route: "did not match default route" never panics.              *)
TypeOK ==
    /\ outcome \in {"config", "refused", "matching", "answered", "error"}
    /\ client \in config.tcpClients \cup config.udpClients \cup {ErrRejected}
    /\ outcome \notin {"config", "refused"} =>
          /\ at.route \in 1..Len(config.routes) + 1
          /\ at.criterion \in 1..Len(CurrentRoute.criteria) + 1
          /\ Testing => at.alternative \in 1..Len(CurrentGroup)

(* The route whose client a request gets matches it, read as one predicate *)
(* over the fields, and no earlier one does: the criteria Route builds,    *)
(* groups of one, nested groups, inverted objects and the short circuits   *)
(* of match do not change what the fields say.                             *)
FirstMatchingRoute ==
    outcome = "answered" =>
        /\ at.route <= Len(config.routes) => Matches(config.routes[at.route])
        /\ \A i \in 1..at.route - 1 : ~Matches(config.routes[i])

(* A client is used on a network it was created for, and a request is     *)
(* rejected only where the configuration says so: by a route to "reject",  *)
(* or by the default route without a client for the network.  A route for  *)
(* one network has no client for the other, and never needs it.            *)
ClientsAsConfigured ==
    outcome = "answered" =>
        IF client # ErrRejected
        THEN client \in IF request.network = "tcp" THEN config.tcpClients ELSE config.udpClients
        ELSE IF at.route <= Len(config.routes) THEN config.routes[at.route].client = "reject"
        ELSE (IF request.network = "tcp" THEN config.defaultTCP ELSE config.defaultUDP) \in {"", "reject"}

(* No test uses a GeoIP database that is not open (a nil dereference) or   *)
(* looks up with an empty list of resolvers (which would fail every time): *)
(* Route refused such a configuration.                                     *)
LookupsHaveTheirMeans ==
    Testing =>
        LET rc == config.routes[at.route]
            t == CurrentGroup[at.alternative]
            asked == {t.kind} \cup {t.expected[i].kind : i \in DOMAIN t.expected}
        IN  /\ asked \cap {"fromCountries", "toCountries", "expectedCountries"} # {} => config.geoip
            /\ \/ asked \cap {"expectedIPs", "expectedCountries"} # {}
               \/ asked \cap {"toIPs", "toCountries"} # {} /\ ~rc.disableNameResolution
               => ResolversOf(rc, config) # <<>>

(* A request fails only for a cause: the database fails on its source or  *)
(* on an address its target stands for, or its target is looked up and     *)
(* each resolver of the route reports ErrLookup or comes after one that    *)
(* reported another error.  A resolver that fails never hides the next.    *)
ErrorsHaveACause ==
    outcome = "error" =>
        LET rc == config.routes[at.route]
            rs == ResolversOf(rc, config)
        IN  \/ rc.fromCountries # {} /\ CountryOf[request.source] = GeoIPError
            \/ rc.toCountries \cup rc.expectedCountries # {}
               /\ \E ip \in TargetIPs(rc, TRUE) : CountryOf[ip] = GeoIPError
            \/ /\ request.target \in Domains /\ NeedsResolver(rc)
               /\ \A i \in DOMAIN rs : answer[rs[i]] = ErrLookup
                                      \/ \E j \in 1..i : answer[rs[j]] = OtherError

(* The router answers with what was configured: a client that exists for   *)
(* the network, a rejection that somebody asked for, an error with a cause.*)
OutcomesHaveACause == ClientsAsConfigured /\ ErrorsHaveACause

(* A match never panics: its cursor stays within the routes, and the       *)
(* database and the resolvers a test uses are there.                       *)
MatchNeverPanics == TypeOK /\ LookupsHaveTheirMeans

(* InvertToDomains: "Match requests to all domains except those in         *)
(* ToDomains or ToDomainSets": a route that only asks for other domains is *)
(* not taken for an IP target.                                             *)
InvertedDomainsAreDomains ==
    (outcome = "answered" /\ at.route <= Len(config.routes)) =>
        LET rc == config.routes[at.route]
        IN  (/\ rc.toDomains # {} /\ "toDomains" \in rc.invert
             /\ rc.toIPs \cup rc.toCountries = {}) => request.target \in Domains

=============================================================================
