------------------------ MODULE UDPTransparentRelay -------------------------
(***************************************************************************)
(* The UDP relay for transparent proxying of                               *)
(* service/udp_transparent_linux.go, from the end of Start to the end of   *)
(* Stop, with its batched system calls.                                    *)
(*                                                                         *)
(* Goroutines: the receiver, for every session (an entry, keyed by client  *)
(* address) one that sets it up and relays natConn -> client and one that  *)
(* relays client -> natConn, and the caller of Stop.  Queued packets are   *)
(* counted: what matters is who holds them.  The receiver holds s.mu while *)
(* it works through a batch (recv = "batch"); other code under s.mu is one *)
(* step.  Unlike the other relays, nothing synchronizes entry.natConn with *)
(* Stop, which calls a method of it: on nil that panics.                   *)
(***************************************************************************)
EXTENDS Integers, FiniteSets, FiniteSetsExt

CONSTANTS
  Clients,     \* client addresses
  Sources,     \* addresses replies come from
  Entries,     \* session objects (bound: sessions alive at once)
  Capacity,    \* sendChannelCapacity
  MaxIov,      \* conn.UIO_MAXIOV: the receiver's message vector
  BatchSize,   \* the relays' message vectors
  Bad,         \* a reply that is dropped
  None

ASSUME TransparentAssumption ==
  /\ IsFiniteSet(Entries)
  /\ None \notin Entries \union Clients /\ Bad \notin Sources
  /\ Capacity \in Nat \ {0} /\ MaxIov \in Nat \ {0} /\ BatchSize \in Nat \ {0}

VARIABLES
  recv,        \* receiver: "fill", "read", "batch" or "done"
  n,           \* receiver: slots of qpvec to fill anew
  left,        \* receiver: messages of the batch still to handle
  out,         \* queued packets taken from the pool and not put back
  table,       \* table[c]: the entry of client c, or None
  serverConn,  \* "open", "expired" (its read deadline) or "closed"
  pc,          \* pc[e]: session goroutine; "none" when there is none
  up,          \* up[e]: uplink goroutine; "none" when there is none
  count,       \* count[e]: the uplink's packed packets
  client,      \* client[e]
  chan,        \* chan[e]: number of packets in natConnSendCh
  closed,      \* closed[e]: natConnSendCh is closed
  clean,       \* clean[e]: sendChClean
  socket,      \* socket[e]: the session's socket: "none", "open" or "closed"
  natConn,     \* natConn[e]: entry.natConn is not nil
  deadline,    \* deadline[e]: the socket's read deadline, "armed" or "expired"
  tcMap,       \* tcMap[e]: the sources that have a transparentConn
  msgs,        \* msgs[e][s]: transparentConn.n
  wg,          \* the counter of s.wg
  stop         \* Stop: "idle", "mwait", "sweep", "wait", "stopped", "panicked"

recvVars == <<recv, n, left, table, client>>
chanVars == <<chan, closed, clean>>
connVars == <<socket, natConn, deadline>>
tcVars   == <<tcMap, msgs>>
stopVars == <<serverConn, stop>>
vars == <<recvVars, out, pc, up, count, chanVars, connVars, tcVars, wg, stopVars>>

Init ==
  /\ recv = "fill" /\ n = MaxIov /\ left = 0 /\ out = 0
  /\ table = [c \in Clients |-> None]
  /\ serverConn = "open"
  /\ pc = [e \in Entries |-> "none"]
  /\ up = [e \in Entries |-> "none"]
  /\ count = [e \in Entries |-> 0]
  /\ client = [e \in Entries |-> None]
  /\ chan = [e \in Entries |-> 0]
  /\ closed = [e \in Entries |-> FALSE]
  /\ clean = [e \in Entries |-> FALSE]
  /\ socket = [e \in Entries |-> "none"]
  /\ natConn = [e \in Entries |-> FALSE]
  /\ deadline = [e \in Entries |-> "armed"]
  /\ tcMap = [e \in Entries |-> {}]
  /\ msgs = [e \in Entries |-> [s \in Sources |-> 0]]
  /\ wg = 0
  /\ stop = "idle"

Running == stop # "panicked"
RecvAt(label)  == Running /\ recv = label
At(e, label)   == Running /\ pc[e] = label
UpAt(e, label) == Running /\ up[e] = label
Unlocked == recv # "batch"

Goto(e, label) == pc' = [pc EXCEPT ![e] = label]
PutQueuedPackets(k) == out' = out - k

-----------------------------------------------------------------------------
(* recvFromServerConnRecvmmsg *)

sessionVars == <<pc, up, count, chanVars, connVars, tcVars, wg, stopVars>>

Fill ==
  /\ RecvAt("fill")
  /\ out' = out + n
  /\ recv' = "read"
  /\ UNCHANGED <<n, left, table, client, sessionVars>>

Recvmmsg ==
  /\ RecvAt("read") /\ serverConn = "open"
  /\ \E k \in 1 .. MaxIov : n' = k /\ left' = k
  /\ recv' = "batch"
  /\ UNCHANGED <<out, table, client, sessionVars>>

(* The read fails: the first packet goes back and is the only one to       *)
(* replace.                                                                *)
RecvmmsgFails ==
  /\ RecvAt("read") /\ serverConn = "open"
  /\ n' = 1
  /\ PutQueuedPackets(1)
  /\ recv' = "fill"
  /\ UNCHANGED <<left, table, client, sessionVars>>

(* bug: an exceeded deadline is treated like any other read error *)
RecvmmsgDeadline_Continue ==
  /\ RecvAt("read") /\ serverConn # "open"
  /\ n' = 1
  /\ PutQueuedPackets(1)
  /\ recv' = "fill"
  /\ UNCHANGED <<left, table, client, sessionVars>>

(* The deadline Stop sets: the whole vector goes back. *)
RecvmmsgDeadline ==
  /\ RecvAt("read") /\ serverConn # "open"
  /\ PutQueuedPackets(MaxIov)
  /\ recv' = "done"
  /\ UNCHANGED <<n, left, table, client, sessionVars>>

NextMessage ==
  /\ left' = left - 1
  /\ recv' = IF left = 1 THEN "fill" ELSE "batch"

(* A bad source address, bad flags, or no original destination. *)
HandleBad ==
  /\ RecvAt("batch")
  /\ NextMessage
  /\ PutQueuedPackets(1)
  /\ UNCHANGED <<n, table, client, sessionVars>>

(* The client has a session: send, or drop when the channel is full. *)
HandleExisting(c) ==
  LET e == table[c] IN
  /\ RecvAt("batch") /\ e # None
  /\ NextMessage
  /\ \/ chan[e] < Capacity /\ chan' = [chan EXCEPT ![e] = @ + 1] /\ UNCHANGED out
     \/ chan[e] = Capacity /\ PutQueuedPackets(1) /\ UNCHANGED chan
  /\ UNCHANGED <<n, table, client, pc, up, count, closed, clean, connVars, tcVars, wg, stopVars>>

HandleNew(c) ==
  /\ RecvAt("batch") /\ table[c] = None
  /\ NextMessage
  /\ \E e \in Entries :
       /\ pc[e] = "none" /\ up[e] = "none"
       /\ table' = [table EXCEPT ![c] = e]
       /\ client' = [client EXCEPT ![e] = c]
       /\ Goto(e, "router")
       /\ chan' = [chan EXCEPT ![e] = 1]
       /\ closed' = [closed EXCEPT ![e] = FALSE]
       /\ clean' = [clean EXCEPT ![e] = FALSE]
       /\ socket' = [socket EXCEPT ![e] = "none"]
       /\ natConn' = [natConn EXCEPT ![e] = FALSE]
       /\ deadline' = [deadline EXCEPT ![e] = "armed"]
  /\ UNCHANGED <<n, out, up, count, tcVars, wg, stopVars>>

-----------------------------------------------------------------------------
(* The session goroutine *)

RouterFails(e) ==
  /\ At(e, "router")
  /\ Goto(e, "cleanup")
  /\ UNCHANGED <<recvVars, out, up, count, chanVars, connVars, tcVars, wg, stopVars>>

RouterOk(e) ==
  /\ At(e, "router")
  /\ wg' = wg + 1
  /\ Goto(e, "listen")
  /\ UNCHANGED <<recvVars, out, up, count, chanVars, connVars, tcVars, stopVars>>

(* NewSession, ListenUDP and SetReadDeadline; a failure leaves no socket. *)
ListenUDP(e) ==
  /\ At(e, "listen")
  /\ \/ Goto(e, "start") /\ socket' = [socket EXCEPT ![e] = "open"]
     \/ Goto(e, "wgDone") /\ UNCHANGED socket
  /\ UNCHANGED <<recvVars, out, up, count, chanVars, natConn, deadline, tcVars, wg, stopVars>>

(* "No more early returns!" *)
StartRelay(e) ==
  /\ At(e, "start")
  /\ clean' = [clean EXCEPT ![e] = TRUE]
  /\ natConn' = [natConn EXCEPT ![e] = TRUE]
  /\ wg' = wg + 1
  /\ up' = [up EXCEPT ![e] = "range"]
  /\ Goto(e, "read")
  /\ UNCHANGED <<recvVars, out, count, chan, closed, socket, deadline, tcVars, stopVars>>

(* relayNatConnToTransparentConnSendmmsg: a batch of replies arrives.  A   *)
(* reply that is bad, too large, or whose transparentConn cannot be made   *)
(* is dropped; the others are put into the vector of their source.         *)
DownRead(e) ==
  /\ At(e, "read") /\ deadline[e] = "armed"
  /\ \E k \in 1 .. BatchSize :
       \E batch \in [1 .. k -> Sources \union {Bad}], refused \in SUBSET (Sources \ tcMap[e]) :
         LET kept == {i \in 1 .. k : batch[i] \notin refused \union {Bad}} IN
         /\ \A s \in refused : \E i \in 1 .. k : batch[i] = s
         /\ tcMap' = [tcMap EXCEPT ![e] = @ \union {batch[i] : i \in kept}]
         /\ msgs' = [msgs EXCEPT ![e] = [s \in Sources |->
                       @[s] + Cardinality({i \in kept : batch[i] = s})]]
         /\ Goto(e, IF kept = {} THEN "read" ELSE "flush")
  /\ UNCHANGED <<recvVars, out, up, count, chanVars, connVars, wg, stopVars>>

(* bug: a vector that could not be written is kept *)
DownFlush_KeepsFailed(e) ==
  /\ At(e, "flush")
  /\ \E failed \in SUBSET tcMap[e] :
       msgs' = [msgs EXCEPT ![e] = [s \in Sources |-> IF s \in failed THEN @[s] ELSE 0]]
  /\ Goto(e, "read")
  /\ UNCHANGED <<recvVars, out, up, count, chanVars, connVars, tcMap, wg, stopVars>>

(* Every transparentConn writes its vector; failed or not, it is empty     *)
(* again.                                                                  *)
DownFlush(e) ==
  /\ At(e, "flush")
  /\ msgs' = [msgs EXCEPT ![e] = [s \in Sources |-> IF s \in tcMap[e] THEN 0 ELSE @[s]]]
  /\ Goto(e, "read")
  /\ UNCHANGED <<recvVars, out, up, count, chanVars, connVars, tcMap, wg, stopVars>>

(* os.ErrDeadlineExceeded: the loop ends, every transparentConn is closed. *)
DownTimeout(e) ==
  /\ At(e, "read") /\ deadline[e] = "expired"
  /\ tcMap' = [tcMap EXCEPT ![e] = {}]
  /\ Goto(e, "wgDone")
  /\ UNCHANGED <<recvVars, out, up, count, chanVars, connVars, msgs, wg, stopVars>>

(* natTimeout passes since the deadline was last set. *)
NatTimeout(e) ==
  /\ Running /\ socket[e] = "open" /\ deadline[e] = "armed"
  /\ deadline' = [deadline EXCEPT ![e] = "expired"]
  /\ UNCHANGED <<recvVars, out, pc, up, count, chanVars, socket, natConn, tcVars, wg, stopVars>>

DeferredWgDone(e) ==
  /\ At(e, "wgDone")
  /\ wg' = wg - 1
  /\ Goto(e, "cleanup")
  /\ UNCHANGED <<recvVars, out, up, count, chanVars, connVars, tcVars, stopVars>>

(* bug: the channel is closed but the session stays in the table *)
Cleanup_CloseOnly(e) ==
  /\ At(e, "cleanup") /\ Unlocked
  /\ closed' = [closed EXCEPT ![e] = TRUE]
  /\ Goto(e, IF clean[e] THEN "none" ELSE "drain")
  /\ UNCHANGED <<recvVars, out, up, count, chan, clean, connVars, tcVars, wg, stopVars>>

(* Under s.mu: close the channel, leave the table. *)
Cleanup(e) ==
  /\ At(e, "cleanup") /\ Unlocked
  /\ closed' = [closed EXCEPT ![e] = TRUE]
  /\ table' = [table EXCEPT ![client[e]] = None]
  /\ Goto(e, IF clean[e] THEN "none" ELSE "drain")
  /\ UNCHANGED <<recv, n, left, client, out, up, count, chan, clean, connVars, tcVars, wg, stopVars>>

(* Put the packets of the closed channel back; end when it is empty. *)
Drain(e) ==
  /\ At(e, "drain")
  /\ \/ chan[e] > 0 /\ chan' = [chan EXCEPT ![e] = @ - 1] /\ PutQueuedPackets(1) /\ UNCHANGED pc
     \/ chan[e] = 0 /\ Goto(e, "none") /\ UNCHANGED <<out, chan>>
  /\ UNCHANGED <<recvVars, up, count, closed, clean, connVars, tcVars, wg, stopVars>>

-----------------------------------------------------------------------------
(* The uplink goroutine: relayServerConnToNatConnSendmmsg *)

uplinkOthers == <<recvVars, pc, closed, clean, socket, natConn, tcVars, stopVars>>

(* "Block on first dequeue op." *)
UpReceive(e) ==
  /\ UpAt(e, "range") /\ chan[e] > 0
  /\ chan' = [chan EXCEPT ![e] = @ - 1]
  /\ up' = [up EXCEPT ![e] = "pack"]
  /\ UNCHANGED <<uplinkOthers, out, count, deadline, wg>>

(* A packet that cannot be packed goes back; a full batch is written. *)
UpPack(e) ==
  /\ UpAt(e, "pack")
  /\ \/ /\ count' = [count EXCEPT ![e] = @ + 1]
        /\ up' = [up EXCEPT ![e] = IF count[e] + 1 = BatchSize THEN "write" ELSE "next"]
        /\ UNCHANGED out
     \/ /\ PutQueuedPackets(1)
        /\ up' = [up EXCEPT ![e] = IF count[e] = 0 THEN "range" ELSE "next"]
        /\ UNCHANGED count
  /\ UNCHANGED <<uplinkOthers, chan, deadline, wg>>

(* One more packet if there is one; "last": the channel is closed, the     *)
(* loop ends after this write.                                             *)
UpNext(e) ==
  /\ UpAt(e, "next")
  /\ \/ /\ chan[e] > 0
        /\ chan' = [chan EXCEPT ![e] = @ - 1]
        /\ up' = [up EXCEPT ![e] = "pack"]
     \/ /\ chan[e] = 0
        /\ up' = [up EXCEPT ![e] = IF closed[e] THEN "last" ELSE "write"]
        /\ UNCHANGED chan
  /\ UNCHANGED <<uplinkOthers, out, count, deadline, wg>>

(* WriteMsgvec, SetReadDeadline(now + natTimeout) whoever set it last, and *)
(* the batch goes back; errors are logged.                                 *)
UpWrite(e) ==
  /\ Running /\ up[e] \in {"write", "last"}
  /\ deadline' = [deadline EXCEPT ![e] = "armed"]
  /\ PutQueuedPackets(count[e])
  /\ count' = [count EXCEPT ![e] = 0]
  /\ up' = [up EXCEPT ![e] = IF @ = "last" THEN "close" ELSE "range"]
  /\ UNCHANGED <<uplinkOthers, chan, wg>>

UpClose(e) ==
  /\ UpAt(e, "close") \/ (UpAt(e, "range") /\ chan[e] = 0 /\ closed[e])
  /\ socket' = [socket EXCEPT ![e] = "closed"]
  /\ wg' = wg - 1
  /\ up' = [up EXCEPT ![e] = "none"]
  /\ UNCHANGED <<recvVars, out, pc, count, chanVars, natConn, deadline, tcVars, stopVars>>

-----------------------------------------------------------------------------
(* Stop *)

stopOthers == <<recvVars, out, pc, up, count, chanVars, socket, natConn, tcVars, wg>>

StopBegin ==
  /\ stop = "idle"
  /\ serverConn' = "expired"
  /\ stop' = "mwait"
  /\ UNCHANGED <<stopOthers, deadline>>

StopMwgWait ==
  /\ stop = "mwait" /\ recv = "done"
  /\ stop' = "sweep"
  /\ UNCHANGED <<stopOthers, serverConn, deadline>>

InTable(e) == \E c \in Clients : table[c] = e

(* bug: only the sessions whose relay runs are told, the others passed by *)
StopSweep_SkipsNil ==
  /\ stop = "sweep"
  /\ deadline' = [e \in Entries |-> IF InTable(e) /\ natConn[e] THEN "expired" ELSE deadline[e]]
  /\ stop' = "wait"
  /\ UNCHANGED <<stopOthers, serverConn>>

(* Under s.mu: entry.natConn.SetReadDeadline(now) for every session of the *)
(* table, also for one that has no natConn yet.                            *)
StopSweep ==
  /\ stop = "sweep" /\ Unlocked
  /\ deadline' = [e \in Entries |-> IF InTable(e) /\ natConn[e] THEN "expired" ELSE deadline[e]]
  /\ stop' = IF \A e \in Entries : InTable(e) => natConn[e] THEN "wait" ELSE "panicked"
  /\ UNCHANGED <<stopOthers, serverConn>>

(* s.wg.Wait and serverConn.Close *)
StopWgWait ==
  /\ stop = "wait" /\ wg = 0
  /\ serverConn' = "closed"
  /\ stop' = "stopped"
  /\ UNCHANGED <<stopOthers, deadline>>

-----------------------------------------------------------------------------
Handle == HandleBad \/ \E c \in Clients : HandleExisting(c) \/ HandleNew(c)

Leave(e) == DeferredWgDone(e) \/ Cleanup(e) \/ Drain(e)

Uplink(e) == UpReceive(e) \/ UpPack(e) \/ UpNext(e) \/ UpWrite(e) \/ UpClose(e)

StopRest == StopMwgWait \/ StopSweep \/ StopWgWait

(* The process is over. *)
Finished ==
  /\ stop = "stopped" => \A e \in Entries : pc[e] = "none" /\ up[e] = "none"
  /\ stop \in {"stopped", "panicked"}
  /\ UNCHANGED vars

Next ==
  \/ Fill \/ Recvmmsg \/ RecvmmsgFails \/ RecvmmsgDeadline \/ Handle
  \/ \E e \in Entries :
       \/ RouterOk(e) \/ RouterFails(e) \/ ListenUDP(e) \/ StartRelay(e)
       \/ DownRead(e) \/ DownFlush(e) \/ DownTimeout(e) \/ NatTimeout(e)
       \/ Leave(e) \/ Uplink(e)
  \/ StopBegin \/ StopRest
  \/ Finished

(* Goroutines that can run do, and a mutex is granted.  The NAT timeout is *)
(* certain only while no packet extends it; nothing makes the router       *)
(* answer, packets arrive or somebody call Stop.                           *)
IdleTimeout(e) == chan[e] = 0 /\ up[e] \in {"none", "range"} /\ NatTimeout(e)

Fairness ==
  /\ WF_vars(Fill \/ RecvmmsgDeadline \/ Handle)
  /\ \A e \in Entries :
       /\ WF_vars(ListenUDP(e) \/ StartRelay(e) \/ DownFlush(e) \/ DownTimeout(e))
       /\ SF_vars(Leave(e)) /\ WF_vars(Uplink(e)) /\ WF_vars(IdleTimeout(e))
  /\ WF_vars(StopRest)

Spec == Init /\ [][Next]_vars

FairSpec == Spec /\ Fairness

-----------------------------------------------------------------------------
(* The type invariant. *)
TypeOK ==
  /\ recv \in {"fill", "read", "batch", "done"}
  /\ n \in 0 .. MaxIov /\ left \in 0 .. MaxIov /\ out \in Nat
  /\ table \in [Clients -> Entries \union {None}]
  /\ serverConn \in {"open", "expired", "closed"}
  /\ pc \in [Entries -> {"none", "router", "listen", "start", "read", "flush", "wgDone", "cleanup", "drain"}]
  /\ up \in [Entries -> {"none", "range", "pack", "next", "write", "last", "close"}]
  /\ count \in [Entries -> 0 .. BatchSize]
  /\ client \in [Entries -> Clients \union {None}]
  /\ chan \in [Entries -> 0 .. Capacity]
  /\ closed \in [Entries -> BOOLEAN] /\ clean \in [Entries -> BOOLEAN]
  /\ socket \in [Entries -> {"none", "open", "closed"}]
  /\ natConn \in [Entries -> BOOLEAN]
  /\ deadline \in [Entries -> {"armed", "expired"}]
  /\ tcMap \in [Entries -> SUBSET Sources]
  /\ msgs \in [Entries -> [Sources -> Nat]]
  /\ wg \in Nat
  /\ stop \in {"idle", "mwait", "sweep", "wait", "stopped", "panicked"}

(* Slots of qpvec whose packet the receiver still owns. *)
Owned ==
  CASE recv = "fill"  -> MaxIov - n
    [] recv = "read"  -> MaxIov
    [] recv = "batch" -> MaxIov - n + left
    [] recv = "done"  -> 0

(* Every queued packet taken from the pool is in one slot of the receiver, *)
(* in one channel or in one uplink's batch, or was put back exactly once:  *)
(* after a partial batch, a failed read, a failed pack, a session that did *)
(* not start, and when the receiver ends.                                  *)
PacketsAccountedFor ==
  out = Owned + SumFunction([e \in Entries |-> chan[e] + count[e] + (IF up[e] = "pack" THEN 1 ELSE 0)])

(* The receiver sends only on open channels, and the session of a client   *)
(* is the one it started for that client.                                  *)
TableHoldsLiveSessions ==
  \A c \in Clients : table[c] # None =>
    /\ ~closed[table[c]] /\ client[table[c]] = c
    /\ pc[table[c]] \notin {"none", "drain"}

(* A transparentConn's message vector never takes more than its BatchSize  *)
(* slots (one more would panic), and when the next batch is read into the  *)
(* shared buffers no message still points into them.                       *)
MsgvecsFlushed ==
  \A e \in Entries, s \in Sources :
    /\ msgs[e][s] <= BatchSize
    /\ pc[e] # "flush" => msgs[e][s] = 0

(* No packet is lost sight of: the queued ones are accounted for, and the  *)
(* replies are flushed before their buffers are read into again.           *)
NoPacketForgotten == PacketsAccountedFor /\ MsgvecsFlushed

(* A session that is gone leaves neither its natConn nor any of its        *)
(* transparentConns open, and while one of its directions runs natConn is. *)
SocketsClosed ==
  \A e \in Entries :
    /\ pc[e] = "none" /\ up[e] = "none" => socket[e] # "open" /\ tcMap[e] = {}
    /\ pc[e] \in {"read", "flush"} \/ up[e] # "none" => socket[e] = "open"

(* Table entries and sockets belong to sessions that live: a packet is     *)
(* sent on an open channel, natConn is open while it is used, and a        *)
(* session that is gone leaves nothing behind.                             *)
OnlyLiveSessionsHold == TypeOK /\ TableHoldsLiveSessions /\ SocketsClosed

(* Stop closes serverConn only when no relay goroutine is left ("so        *)
(* in-flight packets can be written out"), and none starts afterwards.     *)
StopWaitsForRelays ==
  stop = "stopped" => \A e \in Entries : pc[e] \notin {"start", "read", "flush"} /\ up[e] = "none"

(* Stop does not hang (the uplink may push the deadline Stop set into the  *)
(* future again: then it is the NAT timeout that ends the session).        *)
StopReturns == stop = "mwait" ~> stop \in {"stopped", "panicked"}

(* "UDPTransparentRelay is like [UDPNATRelay]", where a session that is    *)
(* still being initialized is passed by when the relay is stopped.         *)
StopNeverPanics == stop # "panicked"
=============================================================================
