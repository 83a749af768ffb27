---------------------------- MODULE MCUDPRelays -----------------------------
(* Small instances of UDPRelays for TLC. *)
EXTENDS UDPRelays, TLC

CONSTANTS c1, c2, u1, u2, a1, a2, a3

OneUser == [c \in Csids |-> u1]

TwoUsers == (c1 :> u1) @@ (c2 :> u2)

(* Two clients with a session each. *)
Crowd(relay) == [relay |-> relay, clients |-> {c1, c2}, addrs |-> {a1}, sessions |-> 2]

(* One client, with a new session while the last one still ends. *)
Lone(relay) == [relay |-> relay, clients |-> {c1}, addrs |-> {a1}, sessions |-> 2]

(* One client whose address or control message changes. *)
Roamer(relay, addrs) == [relay |-> relay, clients |-> {c1}, addrs |-> addrs, sessions |-> 1]

AllSettings ==
  {Crowd("session"), Crowd("nat"), Lone("sessionMmsg"), Lone("natMmsg"),
   Roamer("session", {a1, a2, a3}), Roamer("sessionMmsg", {a1, a2}),
   Roamer("nat", {a1, a3, NoCmsg}), Roamer("natMmsg", {a1, a3, NoCmsg})}

LiveSettings ==
  {Lone("session")} \union {Roamer(r, {a1}) : r \in {"nat", "sessionMmsg", "natMmsg"}}

SessionSettings == {Crowd("session")}

Symmetry == Permutations(Entries)
=============================================================================
