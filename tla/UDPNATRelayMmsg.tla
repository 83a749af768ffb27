-------------------------- MODULE UDPNATRelayMmsg ---------------------------
(***************************************************************************)
(* The address-based UDP relay with the batched loops of                   *)
(* service/udp_nat_linux.go.  A combination: sessions and pktinfo of       *)
(* UDPNATRelay, batches and s.mu of UDPSessionRelayMmsg.  Its own: a       *)
(* packet without control message is skipped, which the downlink relies on *)
(* (it dereferences the client's pktinfo as soon as it starts), and the    *)
(* uplink logs errors with the client's address, never with a packet.      *)
(***************************************************************************)
EXTENDS UDPNATRelay, UDPSessionRelayMmsg

(* Skipped: no control message.  Dropped: a bad sockaddr or bad flags, no  *)
(* server session, or not unpacked.                                        *)
NATMmsgBad == NATBadPacket /\ UNCHANGED mmsgVars

(* A good packet of client c with control message a. *)
NATMmsgPacket(c, a) ==
  /\ a # NoCmsg
  /\ NATExisting(c, a) \/ NATNew(c, a)
  /\ UNCHANGED mmsgVars

NATMmsgHandle ==
  \/ NextMessage \/ NATMmsgBad
  \/ \E c \in Csids, a \in Addrs : NATMmsgPacket(c, a)

NATMmsgReceive == Fill \/ Recvmmsg \/ RecvmmsgFails \/ RecvmmsgDeadline

NATMmsgRouter(e) == NATRouter(e) /\ UNCHANGED mmsgVars

NATMmsgSetUp(e) == NATSetUp(e) /\ UNCHANGED mmsgVars

(* relayNatConnToServerConnSendmmsg: read a batch and repack it; with no   *)
(* reply left, read again.                                                 *)
NATMmsgDownRead(e) ==
  /\ At(e, "read") /\ deadline[e] = "armed"
  /\ Goto(e, "write") \/ Goto(e, "read")
  /\ UNCHANGED <<recvSide, out, stopVars, up, chanVars, connVars, key, replyTo, wgVars, mmsgVars>>

(* Load the client's pktinfo and write the batch. *)
NATMmsgDownWrite(e) == NATDownWrite(e) /\ UNCHANGED mmsgVars

NATMmsgDownTimeout(e) == NATDownTimeout(e) /\ UNCHANGED mmsgVars

NATMmsgLeave(e) == MmsgLeave(e)

(* relayServerConnToNatConnSendmmsg *)
NATMmsgUplink(e) ==
  \/ MmsgUpReceive(e) \/ MmsgUpPack(e) \/ MmsgUpNext(e) \/ MmsgUpWrite(e) \/ MmsgUpClose(e)

NATMmsgStop == NATStop /\ UNCHANGED mmsgVars

NATMmsgNext ==
  \/ NATMmsgReceive \/ NATMmsgHandle
  \/ \E e \in Entries :
       \/ NATMmsgRouter(e) \/ NATMmsgSetUp(e) \/ NATMmsgLeave(e) \/ NATMmsgUplink(e)
       \/ NATMmsgDownRead(e) \/ NATMmsgDownWrite(e) \/ NATMmsgDownTimeout(e)
       \/ NatTimeout(e) /\ UNCHANGED mmsgVars
  \/ (StopBegin /\ UNCHANGED mmsgVars) \/ NATMmsgStop
  \/ (Finished /\ UNCHANGED mmsgVars)

NATMmsgSpec == InitMmsg /\ [][NATMmsgNext]_varsMmsg

-----------------------------------------------------------------------------
(* A downlink that runs has a pktinfo to put on its replies, and one whose *)
(* control message parsed: it dereferences the pointer it was started with *)
(* and every pointer it loads later.                                       *)
PktinfoNeverNil ==
  \A e \in Entries :
    pc[e] \in {"read", "write"} =>
      /\ replyTo[e] \in Addrs \ Unparsable
      /\ addrInfo[e] \in Addrs \ Unparsable
=============================================================================
