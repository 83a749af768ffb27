------------------------ MODULE UDPSessionRelayMmsg -------------------------
(***************************************************************************)
(* The session-based UDP relay with the loops of                           *)
(* service/udp_session_linux.go, which receive and send in batches with    *)
(* recvmmsg and sendmmsg.  The sessions are set up, stopped and cleaned up *)
(* as in UDPSessionRelay, so those steps are taken from there; the receive *)
(* loop, the uplink and the downlink are defined here.                     *)
(*                                                                         *)
(* The receive loop holds s.mu for a whole batch (Locked): session         *)
(* goroutines run between two messages of it, but none can leave the       *)
(* table.                                                                  *)
(***************************************************************************)
EXTENDS UDPSessionRelay

CONSTANTS
  MaxIov,     \* conn.UIO_MAXIOV: the receive loop's message vector
  BatchSize   \* s.batchSize: the relays' message vectors

ASSUME MmsgAssumption == MaxIov \in Nat \ {0} /\ BatchSize \in Nat \ {0}

VARIABLES
  n,      \* slots of the receive loop's qpvec to fill anew
  left,   \* messages of its batch after the one being handled
  count   \* count[e]: packets in the uplink's batch

mmsgVars == <<n, left, count>>
varsMmsg == <<vars, mmsgVars>>

InitMmsg ==
  /\ Init
  /\ n = MaxIov /\ left = 0 /\ count = [e \in Entries |-> 0]

Locked == recv = "handle" \/ left > 0

PutQueuedPackets(k) == out' = out - k

-----------------------------------------------------------------------------
(* recvFromServerConnRecvmmsg *)

sessionVars == <<table, user, stopVars, pc, up, csid, chanVars, connVars, key, addrVars, replyTo, wgVars, count>>

Fill ==
  /\ RecvAt("get") /\ left = 0
  /\ out' = out + n
  /\ recv' = "read"
  /\ UNCHANGED <<sessionVars, n, left>>

(* A batch of k messages arrives; the first is next. *)
Recvmmsg ==
  /\ RecvRead
  /\ \E k \in 1 .. MaxIov : n' = k /\ left' = k - 1
  /\ UNCHANGED count

(* bug: after a failed read the whole vector is filled anew *)
RecvmmsgFails_Refill ==
  /\ RecvAt("read") /\ serverConn = "open"
  /\ n' = MaxIov
  /\ PutQueuedPackets(1)
  /\ recv' = "get"
  /\ UNCHANGED <<sessionVars, left>>

(* The read fails: the first packet goes back and is the only one to       *)
(* replace.                                                                *)
RecvmmsgFails ==
  /\ RecvAt("read") /\ serverConn = "open"
  /\ n' = 1
  /\ PutQueuedPackets(1)
  /\ recv' = "get"
  /\ UNCHANGED <<sessionVars, left>>

(* bug: an exceeded deadline is treated like any other read error *)
RecvmmsgDeadline_Continue ==
  /\ RecvAt("read") /\ serverConn # "open"
  /\ n' = 1
  /\ PutQueuedPackets(1)
  /\ recv' = "get"
  /\ UNCHANGED <<sessionVars, left>>

(* The deadline Stop sets: the loop ends, the whole vector goes back. *)
RecvmmsgDeadline ==
  /\ RecvAt("read") /\ serverConn # "open"
  /\ PutQueuedPackets(MaxIov)
  /\ recv' = "done"
  /\ UNCHANGED <<sessionVars, n, left>>

(* The next turn of the loop over msgvecn. *)
NextMessage ==
  /\ RecvAt("get") /\ left > 0
  /\ left' = left - 1
  /\ recv' = "handle"
  /\ UNCHANGED <<sessionVars, out, n>>

(* No control message, a bad sockaddr or bad flags, no session info, no    *)
(* unpacker, or not unpacked.                                              *)
HandleBad == RecvBadPacket /\ UNCHANGED mmsgVars

(* A good packet of session c from address a: the address caches, the      *)
(* control message, and the send or the drop.                              *)
HandleExisting(c, a) == RecvExisting(c, a) /\ UNCHANGED mmsgVars

(* The same when c has no session, which is started. *)
HandleNew(c, a) == RecvNew(c, a) /\ UNCHANGED mmsgVars

-----------------------------------------------------------------------------
(* The session goroutine *)

MmsgRouter(e) == (RouterOk(e) \/ RouterFails(e)) /\ UNCHANGED mmsgVars

MmsgSetUp(e) == SetUp(e) /\ UNCHANGED mmsgVars

(* relayNatConnToServerConnSendmmsg: a batch is read, the client's address *)
(* is loaded, the replies are repacked; with none left nothing is written. *)
MmsgDownRead(e) ==
  /\ At(e, "read") /\ deadline[e] = "armed"
  /\ replyTo' = [replyTo EXCEPT ![e] = addrInfo[e]]
  /\ Goto(e, "write") \/ Goto(e, "read")
  /\ UNCHANGED <<recvSide, out, stopVars, up, chanVars, connVars, key, wgVars, mmsgVars>>

(* WriteMsgvec to serverConn; an error is logged. *)
MmsgDownWrite(e) == DownWrite(e) /\ UNCHANGED mmsgVars

MmsgDownTimeout(e) == DownTimeout(e) /\ UNCHANGED mmsgVars

MmsgLeave(e) ==
  /\ DeferredWgDone(e) \/ (Cleanup(e) /\ ~Locked) \/ Drain(e)
  /\ UNCHANGED mmsgVars

-----------------------------------------------------------------------------
(* The uplink goroutine: relayServerConnToNatConnSendmmsg *)

uplinkOthers == <<recvSide, pc, closed, clean, state, natConn, key, replyTo, wgVars, n, left>>

UpGoto(e, label) == up' = [up EXCEPT ![e] = label]

(* "Block on first dequeue op." *)
MmsgUpReceive(e) == UpReceive(e) /\ UNCHANGED mmsgVars

(* bug: the batch goes on to be written although no packet is in it *)
MmsgUpPack_EmptyBatch(e) ==
  /\ UpAt(e, "pack")
  /\ \/ /\ count' = [count EXCEPT ![e] = @ + 1]
        /\ UpGoto(e, IF count[e] + 1 = BatchSize THEN "write" ELSE "next")
        /\ UNCHANGED out
     \/ /\ PutQueuedPackets(1)
        /\ UpGoto(e, "next")
        /\ UNCHANGED count
  /\ UNCHANGED <<uplinkOthers, stopVars, chan, deadline>>

(* A packet that cannot be packed goes back; a full batch is written. *)
MmsgUpPack(e) ==
  /\ UpAt(e, "pack")
  /\ \/ /\ count' = [count EXCEPT ![e] = @ + 1]
        /\ UpGoto(e, IF count[e] + 1 = BatchSize THEN "write" ELSE "next")
        /\ UNCHANGED out
     \/ /\ PutQueuedPackets(1)
        /\ UpGoto(e, IF count[e] = 0 THEN "range" ELSE "next")
        /\ UNCHANGED count
  /\ UNCHANGED <<uplinkOthers, stopVars, chan, deadline>>

(* One more packet if there is one.  "last": the channel is closed, and    *)
(* the variable queuedPacket is now nil.                                   *)
MmsgUpNext(e) ==
  /\ UpAt(e, "next")
  /\ \/ /\ chan[e] > 0
        /\ chan' = [chan EXCEPT ![e] = @ - 1]
        /\ UpGoto(e, "pack")
     \/ /\ chan[e] = 0
        /\ UpGoto(e, IF closed[e] THEN "last" ELSE "write")
        /\ UNCHANGED chan
  /\ UNCHANGED <<uplinkOthers, out, stopVars, count, deadline>>

(* WriteMsgvec, SetReadDeadline(now + natTimeout) whoever set it last, and *)
(* the batch goes back.  After the last batch the loop ends: the channel   *)
(* stays closed and empty, which is where the next turn would end too.     *)
MmsgUpWrite(e) ==
  /\ Running /\ up[e] \in {"write", "last"}
  /\ deadline' = [deadline EXCEPT ![e] = "armed"]
  /\ PutQueuedPackets(count[e])
  /\ count' = [count EXCEPT ![e] = 0]
  /\ UpGoto(e, "range")
  /\ UNCHANGED <<uplinkOthers, stopVars, chan>>

(* A call that fails is logged with queuedPacket's client address: after   *)
(* the last batch queuedPacket is nil, and the program panics.             *)
MmsgUpLogsError(e) ==
  /\ UpAt(e, "last")
  /\ stop' = "panicked"
  /\ UpGoto(e, "nilDeref")
  /\ UNCHANGED <<uplinkOthers, serverConn, out, chan, count, deadline>>

MmsgUpClose(e) == UpClose(e) /\ UNCHANGED mmsgVars

-----------------------------------------------------------------------------
MmsgHandle ==
  \/ NextMessage \/ HandleBad
  \/ \E c \in Csids, a \in Addrs : HandleExisting(c, a) \/ HandleNew(c, a)

MmsgUplink(e) ==
  \/ MmsgUpReceive(e) \/ MmsgUpPack(e) \/ MmsgUpNext(e) \/ MmsgUpWrite(e)
  \/ MmsgUpLogsError(e) \/ MmsgUpClose(e)

MmsgDown(e) ==
  \/ MmsgDownRead(e) \/ MmsgDownWrite(e) \/ MmsgDownTimeout(e)
  \/ NatTimeout(e) /\ UNCHANGED mmsgVars

MmsgStop == StopRest /\ UNCHANGED mmsgVars

NextMmsg ==
  \/ Fill \/ Recvmmsg \/ RecvmmsgFails \/ RecvmmsgDeadline \/ MmsgHandle
  \/ \E e \in Entries :
       MmsgRouter(e) \/ MmsgSetUp(e) \/ MmsgDown(e) \/ MmsgLeave(e) \/ MmsgUplink(e)
  \/ (StopBegin /\ UNCHANGED mmsgVars) \/ MmsgStop
  \/ (Finished /\ UNCHANGED mmsgVars)

SpecMmsg == InitMmsg /\ [][NextMmsg]_varsMmsg

-----------------------------------------------------------------------------
(* Slots of the receive loop's vector whose packet it still owns. *)
Owned ==
  CASE recv = "get" /\ left = 0 -> MaxIov - n
    [] recv = "get" /\ left > 0 -> MaxIov - n + left
    [] recv = "read"            -> MaxIov
    [] recv = "handle"          -> MaxIov - n + left + 1
    [] recv = "done"            -> 0

(* Every queued packet taken from the pool is in one slot of the receive   *)
(* loop, in one channel or in one uplink's batch, or was put back exactly  *)
(* once: whatever part of a batch was handed on, also after a failed read, *)
(* a packet that could not be packed, and when the loop ends.              *)
BatchedPacketsAccountedFor ==
  out = Owned + SumFunction([e \in Entries |-> chan[e] + count[e] + (IF up[e] = "pack" THEN 1 ELSE 0)])

(* The uplink never writes an empty batch (the error path indexes the      *)
(* last packet of it) and never packs a packet it has no slot for.         *)
BatchNeitherEmptyNorOverrun ==
  \A e \in Entries :
    /\ up[e] \in {"write", "last"} => count[e] \in 1 .. BatchSize
    /\ up[e] \in {"pack", "next"} => count[e] < BatchSize

(* A call on natConn that fails is a warning in the log ("Failed to batch  *)
(* write packets to natConn"), after which the relay goes on.              *)
FailedWriteIsAWarning == \A e \in Entries : up[e] # "nilDeref"
=============================================================================
