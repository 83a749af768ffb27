---------------------------- MODULE MCUDPPackets ----------------------------
(* The protocols of the program with their real lengths, one session of a  *)
(* client, and three sessions of a server and one of another client's.     *)
EXTENDS UDPPackets, TLC

Direct == [up |-> 0, down |-> 0, maxPadding |-> 0, tag |-> 0, hasAddr |-> FALSE]

None == [up |-> 0, down |-> 0, maxPadding |-> 0, tag |-> 0, hasAddr |-> TRUE]

Socks5 == [up |-> 3, down |-> 3, maxPadding |-> 0, tag |-> 0, hasAddr |-> TRUE]

(* Separate header 16, identity headers 16 each, message header 11 and 19. *)
Shadowsocks(identityHeaders) ==
  [up |-> 16 + 16 * identityHeaders + 11, down |-> 16 + 19, maxPadding |-> 900, tag |-> 16, hasAddr |-> TRUE]

MCServers == {Direct, None, Socks5, Shadowsocks(0), Shadowsocks(1)}

MCClients == {Direct, None, Socks5, Shadowsocks(0), Shadowsocks(2)}

\* The sender's clock is ahead; by the time they arrive its packets may be
\* as far behind.
Ahead == {1}

CONSTANTS s1, s2, s3, f1

\* The server's sessions with this client are alike.
Symmetry == Permutations({s1, s2, s3})
=============================================================================
