---------------------------- MODULE UDPNATRelay -----------------------------
(***************************************************************************)
(* The address-based UDP relay of service/udp_nat.go (generic loops).  Its *)
(* goroutines follow the protocol of the session-based relay, so the steps *)
(* are those of UDPSessionRelay, with the members of Csids read as client  *)
(* addresses and those of Addrs as pktinfo control messages; what this     *)
(* relay does differently is defined here.  The packer and the unpacker of *)
(* a client come from one NewSession call in the receive loop, so there is *)
(* no current user and no key to get wrong: user and key never change.     *)
(*                                                                         *)
(* NoCmsg, a member of Addrs, is the empty control message of a socket     *)
(* without pktinfo: it equals the cache of a new entry, so no pktinfo is   *)
(* stored; when the cache is not empty it does not parse.                  *)
(***************************************************************************)
EXTENDS UDPSessionRelay

CONSTANT NoCmsg

ASSUME NATAssumption == NoCmsg \in Unparsable /\ NoCmsg # None

(* Before the table is consulted: the loop itself, and packets that could  *)
(* not be read.                                                            *)
NATReceive == RecvGet \/ RecvRead \/ RecvDeadline

(* A packet that could not be read or unpacked, or NewSession fails.  No   *)
(* entry of a client without one is left behind.                           *)
NATBadPacket ==
  /\ RecvAt("handle")
  /\ PutQueuedPacket
  /\ recv' = "get"
  /\ UNCHANGED <<table, user, stopVars, pc, up, csid, chanVars, connVars, key, addrVars, replyTo, wgVars>>

(* A good packet of client c with control message a.  Cache and pktinfo    *)
(* change together, once the control message has been parsed.              *)
NATExisting(c, a) ==
  LET e == table[c] IN
  /\ RecvAt("handle") /\ e # None
  /\ recv' = "get"
  /\ IF addrCache[e] # a /\ a \in Unparsable
       THEN PutQueuedPacket /\ UNCHANGED <<addrCache, addrInfo, chan>>
       ELSE /\ IF addrCache[e] = a THEN UNCHANGED <<addrCache, addrInfo>>
               ELSE addrCache' = [addrCache EXCEPT ![e] = a] /\ addrInfo' = [addrInfo EXCEPT ![e] = a]
            /\ Enqueue(e)
  /\ Heard(e, a)
  /\ UNCHANGED <<table, user, stopVars, pc, up, csid, closed, clean, connVars, key, replyTo, wgVars>>

(* The pktinfo a new entry gets from a: none when a is empty. *)
FirstPktinfo(a) == IF a = NoCmsg THEN None ELSE a

(* The first good packet of client c. *)
NATNew(c, a) ==
  /\ RecvAt("handle") /\ table[c] = None
  /\ recv' = "get"
  /\ \/ /\ a \in Unparsable \ {NoCmsg}
        /\ PutQueuedPacket
        /\ UNCHANGED <<table, pc, csid, chanVars, connVars, addrVars, replyTo>>
     \/ /\ a \notin Unparsable \ {NoCmsg}
        /\ \E e \in Entries :
             /\ pc[e] = "none" /\ up[e] = "none"
             /\ table' = [table EXCEPT ![c] = e]
             /\ pc' = [pc EXCEPT ![e] = "router"]
             /\ csid' = [csid EXCEPT ![e] = c]
             /\ chan' = [chan EXCEPT ![e] = 1]
             /\ closed' = [closed EXCEPT ![e] = FALSE]
             /\ clean' = [clean EXCEPT ![e] = FALSE]
             /\ state' = [state EXCEPT ![e] = "nil"]
             /\ natConn' = [natConn EXCEPT ![e] = "none"]
             /\ deadline' = [deadline EXCEPT ![e] = "armed"]
             /\ addrCache' = [addrCache EXCEPT ![e] = a]
             /\ addrInfo' = [addrInfo EXCEPT ![e] = FirstPktinfo(a)]
             /\ lastParsed' = [lastParsed EXCEPT ![e] = FirstPktinfo(a)]
             /\ replyTo' = [replyTo EXCEPT ![e] = FirstPktinfo(a)]
        /\ UNCHANGED out
  /\ UNCHANGED <<user, key, stopVars, up, wgVars>>

NATHandle ==
  \/ NATBadPacket
  \/ \E c \in Csids, a \in Addrs : NATExisting(c, a) \/ NATNew(c, a)

(* client.NewSession; there is no NewPacker step. *)
NATNewClientSession(e) ==
  /\ At(e, "newSession")
  /\ Goto(e, "listen") \/ Goto(e, "wgDone")
  /\ UNCHANGED <<recvSide, out, stopVars, up, chanVars, connVars, key, replyTo, wgVars>>

NATRouter(e) == RouterOk(e) \/ RouterFails(e)

NATSetUp(e) == NATNewClientSession(e) \/ ListenUDP(e) \/ SwapState(e) \/ StartRelay(e)

(* The session goroutine's deferred calls. *)
NATLeave(e) == DeferredWgDone(e) \/ Cleanup(e) \/ Drain(e)

(* relayServerConnToNatConnGeneric, and the closing of natConn after it *)
NATUplink(e) == UpReceive(e) \/ UpPack(e) \/ UpWrite(e) \/ UpExtend(e) \/ UpClose(e)

(* relayNatConnToServerConnGeneric: read, unpack and pack a reply ...      *)
NATDownRead(e) ==
  /\ At(e, "read") /\ deadline[e] = "armed"
  /\ Goto(e, "write")
  /\ UNCHANGED <<recvSide, out, stopVars, up, chanVars, connVars, key, replyTo, wgVars>>

(* ... then load the client's pktinfo and write. *)
NATDownWrite(e) ==
  /\ At(e, "write")
  /\ replyTo' = [replyTo EXCEPT ![e] = addrInfo[e]]
  /\ Goto(e, "read")
  /\ UNCHANGED <<recvSide, out, stopVars, up, chanVars, connVars, key, wgVars>>

NATDownTimeout(e) == DownTimeout(e)

(* Stop *)
NATStop == StopMwgWait \/ StopSweep \/ StopWgWait \/ StopWgReturn \/ StopClose

NATNext ==
  \/ NATReceive \/ NATHandle
  \/ \E e \in Entries :
       \/ NATRouter(e) \/ NATSetUp(e)
       \/ NATDownRead(e) \/ NATDownWrite(e) \/ NATDownTimeout(e) \/ NatTimeout(e)
       \/ NATLeave(e) \/ NATUplink(e)
  \/ StopBegin \/ NATStop
  \/ Finished

NATSpec == Init /\ [][NATNext]_vars

-----------------------------------------------------------------------------
(* A client never has two sessions that both take packets of it, though    *)
(* the uplink of an earlier one may still drain: the others have left the  *)
(* table and their channels are closed for good.                           *)
OneOpenSessionPerClient ==
  \A e \in Entries :
    (pc[e] # "none" \/ up[e] # "none") /\ ~closed[e] => table[csid[e]] = e
=============================================================================
