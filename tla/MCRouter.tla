----------------------------- MODULE MCRouter -----------------------------
(* Small configurations of the router for TLC. *)
EXTENDS Router, TLC

CONSTANTS a, b, m, d, e

MCIPs == {a, b, m}

MCDomains == {d, e}

MCCountryOf == (a :> "A" @@ b :> "B" @@ m :> GeoIPError)

(* A result with an address of each family, with IPv4 addresses only, and  *)
(* with none.                                                              *)
MCAnswers ==
    {ErrLookup, OtherError, [ipv6 |-> <<b>>, ipv4 |-> <<a>>], [ipv6 |-> <<>>, ipv4 |-> <<a, b>>],
     [ipv6 |-> <<>>, ipv4 |-> <<>>]}

(* Answers that never fail, for the case of the order of routes. *)
TwoAnswers == {ErrLookup, [ipv6 |-> <<b>>, ipv4 |-> <<a>>]}

(* Two resolvers, two clients of which one is for TCP only. *)
Base ==
    [filesLoad |-> TRUE, geoip |-> TRUE, resolvers |-> <<"r", "s">>, defaultTCP |-> "", defaultUDP |-> "x",
     tcpClients |-> {"x", "y"}, udpClients |-> {"x"}, routes |-> <<>>]

Optional(set) == {{}, set}

(* One route with every combination of destination fields and inversions. *)
DestinationRoutes ==
    {[EmptyRoute EXCEPT !.client = "x", !.toDomains = td, !.expectedIPs = ei, !.expectedCountries = ec,
                        !.toIPs = ti, !.toCountries = tc, !.disableNameResolution = dn, !.invert = inv] :
        td \in Optional({d}), ei \in Optional({a}), ec \in Optional({"B"}), ti \in Optional({a}),
        tc \in Optional({"A"}), dn \in BOOLEAN,
        inv \in SUBSET {"toDomains", "expectedIPs", "expectedCountries", "toIPs", "toCountries"}}

DestinationConfigs ==
    {[Base EXCEPT !.routes = <<rc>>] :
        rc \in {rc \in DestinationRoutes :
                  \A k \in rc.invert :
                      rc[k] # {}}}

DestinationRequests ==
    {[network |-> "tcp", server |-> "in", source |-> a, sourcePort |-> 1, target |-> t, targetPort |-> 1] :
        t \in IPs \cup Domains}

(* One route with every combination of source fields and inversions. *)
SourceConfigs ==
    {[Base EXCEPT !.routes = <<rc>>] : rc \in
        {[EmptyRoute EXCEPT !.fromServers = fs, !.fromIPs = fi, !.fromCountries = fc, !.fromPorts = fp,
                            !.toPorts = tp, !.invert = inv] :
            fs \in Optional({"in"}), fi \in Optional({b}), fc \in Optional({"A"}), fp \in Optional({1}),
            tp \in Optional({1}),
            inv \in SUBSET {"fromServers", "fromIPs", "fromCountries", "fromPorts", "toPorts"}}}

(* Routes for one network or both, to a client for one or both, that may   *)
(* lack what they need, two in order.                                      *)
NetworkRoutes ==
    {[EmptyRoute EXCEPT !.network = n, !.client = c, !.toIPs = ti, !.toDomains = td, !.expectedIPs = ei,
                        !.resolver = r] :
        n \in {"", "tcp", "udp"}, c \in {"reject", "x", "y"}, ti \in Optional({a}), td \in Optional({d}),
        ei \in Optional({a}), r \in {"", "s"}}
    \cup {[EmptyRoute EXCEPT !.unknownSet = TRUE], [EmptyRoute EXCEPT !.fromCountries = {"A"}],
          [EmptyRoute EXCEPT !.resolver = "none"], [EmptyRoute EXCEPT !.network = "sctp"],
          [EmptyRoute EXCEPT !.name = "default"]}

NetworkConfigs ==
    {[Base EXCEPT !.routes = <<r1, r2>>, !.defaultTCP = dt] :
        r1 \in NetworkRoutes, r2 \in {r \in NetworkRoutes : r.toDomains = {} /\ r.resolver = ""},
        dt \in {"", "reject", "y"}}
    \cup {[Base EXCEPT !.routes = <<r>>, !.geoip = FALSE, !.resolvers = rs, !.defaultUDP = du] :
        r \in NetworkRoutes, rs \in {<<>>, <<"s">>}, du \in {"", "reject", "none"}}
    \cup {[Base EXCEPT !.filesLoad = FALSE]}

NetworkRequests ==
    {[network |-> n, server |-> "in", source |-> a, sourcePort |-> 1, target |-> t, targetPort |-> 1] :
        n \in {"tcp", "udp"}, t \in {a, d, e}}

SourceRequests ==
    {[network |-> "tcp", server |-> s, source |-> ip, sourcePort |-> sp, target |-> d, targetPort |-> tp] :
        s \in {"in", "out"}, ip \in IPs, sp \in {1, 2}, tp \in {1, 2}}

(* The answers do not matter where no domain is looked up. *)
OneAnswer == {ErrLookup}

MCCases ==
    {[configs |-> DestinationConfigs, requests |-> DestinationRequests, answers |-> MCAnswers],
     [configs |-> SourceConfigs, requests |-> SourceRequests, answers |-> OneAnswer],
     [configs |-> NetworkConfigs, requests |-> NetworkRequests, answers |-> TwoAnswers]}
=============================================================================
