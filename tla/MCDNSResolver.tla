--------------------------- MODULE MCDNSResolver ----------------------------
(* Small instances of DNSResolver for TLC. *)
EXTENDS DNSResolver

CONSTANTS l1, l2, example

SameName == [l \in Lookups |-> example]

Rec(t, ttl) == [type |-> t, ttl |-> ttl]

(* One caller and both clients; two callers that share the cache.          *)
Alone == [clients |-> {"udp", "tcp"}, callers |-> {l1},
          answers |-> {<<>>, <<Rec("CNAME", 1), Rec("A", 2)>>}]

Together == [clients |-> {"tcp"}, callers |-> {l1, l2},
             answers |-> {<<Rec("A", 2), Rec("AAAA", 1)>>, <<Rec("AAAA", 1), Rec("A", 0)>>}]

MCSettings == {Alone, Together}
=============================================================================
