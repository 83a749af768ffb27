----------------------------- MODULE UDPPackets -----------------------------
(***************************************************************************)
(* What happens to the packets themselves in a UDP relay, side by side:    *)
(* the buffer a packet is unpacked and packed again in (PacketHeadroom),   *)
(* which packets of a Shadowsocks 2022 client the server lets through      *)
(* (ShadowPacketServer), and which packets of a server the client returns  *)
(* (ShadowPacketClient).  None of them sees anything of the others, so     *)
(* their steps are not interleaved: part tells which of them a behaviour   *)
(* is about.                                                               *)
(***************************************************************************)
EXTENDS PacketHeadroom, ShadowPacketServer, ShadowPacketClient

VARIABLE part

packetVars == <<part, bufferVars, serverVars, vars>>

(* No packet in the buffer. *)
NoPacket ==
  /\ from = (CHOOSE s \in Servers : TRUE) /\ to = from /\ dir = "up" /\ state = "none"
  /\ limit = 0 /\ front = 0 /\ size = 0 /\ at = 0 /\ len = 0
  /\ addrLen = 0 /\ payload = 0 /\ padding = 0

InitPackets ==
  /\ ServerInit /\ Init
  /\ \/ part = "buffer" /\ BufferInit
     \/ part \in {"server", "client"} /\ NoPacket

NextPackets ==
  \/ part = "buffer" /\ BufferNext /\ UNCHANGED <<part, serverVars, vars>>
  \/ part = "server" /\ ServerNext /\ UNCHANGED <<part, bufferVars, vars>>
  \/ part = "client" /\ Next /\ UNCHANGED <<part, bufferVars, serverVars>>

SpecPackets == InitPackets /\ [][NextPackets]_packetVars
=============================================================================
