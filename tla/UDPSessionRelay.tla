-------------------------- MODULE UDPSessionRelay ---------------------------
(***************************************************************************)
(* The session-based UDP relay of service/udp_session.go (the generic      *)
(* receive and relay loops), from the end of Start to the end of Stop.     *)
(*                                                                         *)
(* Goroutines: one that receives from serverConn; for every session, one   *)
(* that sets the session up and then relays natConn -> serverConn          *)
(* ("session"), and one that relays the queued packets to natConn          *)
(* ("uplink"); and the caller of Stop.  Code under s.mu is one step: what  *)
(* it touches is touched elsewhere only under s.mu or by a single atomic   *)
(* operation.  Session objects are entries, reused once both their         *)
(* goroutines are gone.  Queued packets are tokens: what matters is who    *)
(* holds them and whether they are put back into the pool.  A read         *)
(* deadline is "armed" until it is reached or set to the present, then     *)
(* "expired"; a later deadline arms it again.                              *)
(***************************************************************************)
EXTENDS Integers, FiniteSets, FiniteSetsExt

CONSTANTS
  Csids,       \* client session IDs
  Users,       \* users of the server, each with a key of its own
  UserOf,      \* UserOf[c]: the user of client session c
  Addrs,       \* client addresses, each with its pktinfo control message
  Unparsable,  \* the addresses whose control message does not parse
  Entries,     \* session objects (bound: sessions alive at once)
  Capacity,    \* sendChannelCapacity
  None

ASSUME RelayAssumption ==
  /\ UserOf \in [Csids -> Users]
  /\ IsFiniteSet(Entries)
  /\ Unparsable \subseteq Addrs
  /\ None \notin Entries \union Users \union Addrs \union Csids
  /\ Capacity \in Nat \ {0}

VARIABLES
  recv,         \* receive goroutine: "get", "read", "handle" or "done"
  out,          \* queued packets taken from the pool and not put back
  table,        \* table[c]: the entry of session c, or None
  user,         \* server.currentUserCipherConfig; None is the server's own
  serverConn,   \* "open", "expired" (its read deadline) or "closed"
  pc,           \* pc[e]: session goroutine; "none" when there is none
  up,           \* up[e]: uplink goroutine; "none" when there is none
  csid,         \* csid[e]
  chan,         \* chan[e]: number of packets in natConnSendCh
  closed,       \* closed[e]: natConnSendCh is closed
  clean,        \* clean[e]: sendChClean
  state,        \* state[e]: the atomic pointer: "nil", "natConn" or "serverConn"
  natConn,      \* natConn[e]: "none", "open" or "closed"
  deadline,     \* deadline[e]: natConn's read deadline, "armed" or "expired"
  key,          \* key[e]: whose cipher config made serverConnPacker's aead and block
  addrCache,    \* addrCache[e]: clientAddrPortCache and clientPktinfoCache
  addrInfo,     \* addrInfo[e]: clientAddrInfo
  lastParsed,   \* lastParsed[e]: history, where the last packet whose control message
                \* parses came from
  replyTo,      \* replyTo[e]: the downlink's copy of clientAddrInfo
  wg,           \* the counter of s.wg
  waiter,       \* Stop in s.wg.Wait: "none", "waiting" or "released"
  stop          \* Stop: "idle", "mwait", "sweep", "wait", "close", "stopped", "panicked"

addrVars == <<addrCache, addrInfo, lastParsed>>
connVars == <<state, natConn, deadline>>
chanVars == <<chan, closed, clean>>
wgVars   == <<wg, waiter>>
stopVars == <<serverConn, stop>>
vars == <<recv, out, table, user, stopVars, pc, up, csid, chanVars, connVars, key,
          addrVars, replyTo, wgVars>>

Init ==
  /\ recv = "get" /\ out = 0
  /\ table = [c \in Csids |-> None]
  /\ user = None
  /\ serverConn = "open"
  /\ pc = [e \in Entries |-> "none"]
  /\ up = [e \in Entries |-> "none"]
  /\ csid = [e \in Entries |-> None]
  /\ chan = [e \in Entries |-> 0]
  /\ closed = [e \in Entries |-> FALSE]
  /\ clean = [e \in Entries |-> FALSE]
  /\ state = [e \in Entries |-> "nil"]
  /\ natConn = [e \in Entries |-> "none"]
  /\ deadline = [e \in Entries |-> "armed"]
  /\ key = [e \in Entries |-> <<None, None>>]
  /\ addrCache = [e \in Entries |-> None]
  /\ addrInfo = [e \in Entries |-> None]
  /\ lastParsed = [e \in Entries |-> None]
  /\ replyTo = [e \in Entries |-> None]
  /\ wg = 0 /\ waiter = "none"
  /\ stop = "idle"

-----------------------------------------------------------------------------
(* sync.WaitGroup: a Done that brings the counter to zero releases the     *)
(* waiter; Wait, once it runs again, panics unless the counter is zero.    *)

WgAdd == wg' = wg + 1 /\ UNCHANGED waiter

WgDone ==
  /\ wg' = wg - 1
  /\ waiter' = IF wg = 1 /\ waiter = "waiting" THEN "released" ELSE waiter

(* sync.Pool *)
PutQueuedPacket == out' = out - 1

-----------------------------------------------------------------------------
(* Where a goroutine is; a panic ends them all. *)

Running == stop # "panicked"

RecvAt(label) == Running /\ recv = label
At(e, label)   == Running /\ pc[e] = label
UpAt(e, label) == Running /\ up[e] = label

-----------------------------------------------------------------------------
(* recvFromServerConnGeneric *)

RecvGet ==
  /\ RecvAt("get")
  /\ out' = out + 1
  /\ recv' = "read"
  /\ UNCHANGED <<table, user, stopVars, pc, up, csid, chanVars, connVars, key, addrVars, replyTo, wgVars>>

(* A packet arrives. *)
RecvRead ==
  /\ RecvAt("read") /\ serverConn = "open"
  /\ recv' = "handle"
  /\ UNCHANGED <<out, table, user, stopVars, pc, up, csid, chanVars, connVars, key, addrVars, replyTo, wgVars>>

(* The read deadline Stop sets ends the loop. *)
RecvDeadline ==
  /\ RecvAt("read") /\ serverConn # "open"
  /\ PutQueuedPacket
  /\ recv' = "done"
  /\ UNCHANGED <<table, user, stopVars, pc, up, csid, chanVars, connVars, key, addrVars, replyTo, wgVars>>

(* A packet that could not be read, has no session info, names no user, or *)
(* cannot be unpacked.  NewUnpacker has set the current user before the    *)
(* packet of a new session turns out invalid.                              *)
RecvBadPacket ==
  /\ RecvAt("handle")
  /\ PutQueuedPacket
  /\ recv' = "get"
  /\ \/ UNCHANGED user
     \/ \E c \in Csids : table[c] = None /\ user' = UserOf[c]
  /\ UNCHANGED <<table, stopVars, pc, up, csid, chanVars, connVars, key, addrVars, replyTo, wgVars>>

(* select: send, or drop the packet when the channel is full. *)
Enqueue(e) ==
  \/ /\ chan[e] < Capacity
     /\ chan' = [chan EXCEPT ![e] = @ + 1]
     /\ UNCHANGED out
  \/ /\ chan[e] = Capacity
     /\ PutQueuedPacket
     /\ UNCHANGED chan

(* What the history remembers of a packet from a, whatever the caches hold. *)
Heard(e, a) ==
  lastParsed' = IF a \in Unparsable THEN lastParsed ELSE [lastParsed EXCEPT ![e] = a]

(* bug: the new client address is stored only when the packet is queued *)
RecvExisting_Late(c, a) ==
  LET e == table[c] IN
  /\ RecvAt("handle") /\ e # None
  /\ recv' = "get"
  /\ Heard(e, a)
  /\ addrCache' = [addrCache EXCEPT ![e] = a]
  /\ IF addrCache[e] # a /\ a \in Unparsable
       THEN PutQueuedPacket /\ UNCHANGED <<addrInfo, chan>>
       ELSE /\ addrInfo' = IF addrCache[e] = a \/ chan[e] = Capacity THEN addrInfo
                           ELSE [addrInfo EXCEPT ![e] = a]
            /\ Enqueue(e)
  /\ UNCHANGED <<table, user, stopVars, pc, up, csid, closed, clean, connVars, key, replyTo, wgVars>>

(* A good packet of client session c, from client address a, when c has a  *)
(* session: the caches are updated before the control message is parsed.   *)
RecvExisting(c, a) ==
  LET e == table[c] IN
  /\ RecvAt("handle") /\ e # None
  /\ recv' = "get"
  /\ Heard(e, a)
  /\ addrCache' = [addrCache EXCEPT ![e] = a]
  /\ IF addrCache[e] # a /\ a \in Unparsable
       THEN PutQueuedPacket /\ UNCHANGED <<addrInfo, chan>>
       ELSE /\ addrInfo' = IF addrCache[e] = a THEN addrInfo
                           ELSE [addrInfo EXCEPT ![e] = a]
            /\ Enqueue(e)
  /\ UNCHANGED <<table, user, stopVars, pc, up, csid, closed, clean, connVars, key, replyTo, wgVars>>

(* A good packet of client session c when c has no session: NewUnpacker    *)
(* sets the current user; a control message that does not parse leaves no  *)
(* session behind; otherwise the session enters the table, its goroutine   *)
(* starts, and the packet is the first of the new channel.  (What the new  *)
(* goroutine does before s.mu is released commutes with the send.)         *)
RecvNew(c, a) ==
  /\ RecvAt("handle") /\ table[c] = None
  /\ recv' = "get"
  /\ user' = UserOf[c]
  /\ \/ /\ a \in Unparsable
        /\ PutQueuedPacket
        /\ UNCHANGED <<table, pc, csid, chanVars, connVars, key, addrVars, replyTo>>
     \/ /\ a \notin Unparsable
        /\ \E e \in Entries :
             /\ pc[e] = "none" /\ up[e] = "none"
             /\ table' = [table EXCEPT ![c] = e]
             /\ pc' = [pc EXCEPT ![e] = "router"]
             /\ csid' = [csid EXCEPT ![e] = c]
             /\ chan' = [chan EXCEPT ![e] = 1]
             /\ closed' = [closed EXCEPT ![e] = FALSE]
             /\ clean' = [clean EXCEPT ![e] = FALSE]
             /\ state' = [state EXCEPT ![e] = "nil"]
             /\ natConn' = [natConn EXCEPT ![e] = "none"]
             /\ deadline' = [deadline EXCEPT ![e] = "armed"]
             /\ key' = [key EXCEPT ![e] = <<None, None>>]
             /\ addrCache' = [addrCache EXCEPT ![e] = a]
             /\ addrInfo' = [addrInfo EXCEPT ![e] = a]
             /\ Heard(e, a)
             /\ replyTo' = [replyTo EXCEPT ![e] = a]
        /\ UNCHANGED out
  /\ UNCHANGED <<stopVars, up, wgVars>>

-----------------------------------------------------------------------------
(* The session goroutine: initialization *)

Goto(e, label) == pc' = [pc EXCEPT ![e] = label]

recvSide == <<recv, table, user, csid, addrVars>>

(* router.GetUDPClient fails: the goroutine was not counted yet. *)
RouterFails(e) ==
  /\ At(e, "router")
  /\ Goto(e, "cleanup")
  /\ UNCHANGED <<recvSide, out, stopVars, up, chanVars, connVars, key, replyTo, wgVars>>

RouterOk(e) ==
  /\ At(e, "router")
  /\ WgAdd
  /\ Goto(e, "newSession")
  /\ UNCHANGED <<recvSide, out, stopVars, up, chanVars, connVars, key, replyTo>>

(* client.NewSession, and the random session ID of NewPacker *)
NewClientSession(e) ==
  /\ At(e, "newSession")
  /\ Goto(e, "aead") \/ Goto(e, "wgDone")
  /\ UNCHANGED <<recvSide, out, stopVars, up, chanVars, connVars, key, replyTo, wgVars>>

(* NewPacker reads currentUserCipherConfig twice, outside s.mu. *)
NewPackerAEAD(e) ==
  /\ At(e, "aead")
  /\ key' = [key EXCEPT ![e][1] = user]
  /\ Goto(e, "block")
  /\ UNCHANGED <<recvSide, out, stopVars, up, chanVars, connVars, replyTo, wgVars>>

NewPackerBlock(e) ==
  /\ At(e, "block")
  /\ key' = [key EXCEPT ![e][2] = user]
  /\ Goto(e, "listen")
  /\ UNCHANGED <<recvSide, out, stopVars, up, chanVars, connVars, replyTo, wgVars>>

(* conn.ListenUDP and SetReadDeadline; a failure leaves no open socket. *)
ListenUDP(e) ==
  /\ At(e, "listen")
  /\ \/ /\ natConn' = [natConn EXCEPT ![e] = "open"]
        /\ Goto(e, "swap")
     \/ /\ Goto(e, "wgDone")
        /\ UNCHANGED natConn
  /\ UNCHANGED <<recvSide, out, stopVars, up, chanVars, state, deadline, key, replyTo, wgVars>>

(* bug: the uplink is started as soon as natConn is there *)
SwapState_EarlyUplink(e) ==
  /\ At(e, "swap")
  /\ state' = [state EXCEPT ![e] = "natConn"]
  /\ IF state[e] = "nil"
       THEN /\ Goto(e, "start") /\ UNCHANGED natConn
            /\ up' = [up EXCEPT ![e] = "range"]
       ELSE /\ Goto(e, "wgDone") /\ UNCHANGED up
            /\ natConn' = [natConn EXCEPT ![e] = "closed"]
  /\ UNCHANGED <<recvSide, out, stopVars, chanVars, deadline, key, replyTo, wgVars>>

(* entry.state.Swap(natConn): a shutdown that came first ends the session. *)
SwapState(e) ==
  /\ At(e, "swap")
  /\ state' = [state EXCEPT ![e] = "natConn"]
  /\ IF state[e] = "nil"
       THEN Goto(e, "start") /\ UNCHANGED natConn
       ELSE Goto(e, "wgDone") /\ natConn' = [natConn EXCEPT ![e] = "closed"]
  /\ UNCHANGED <<recvSide, out, stopVars, up, chanVars, deadline, key, replyTo, wgVars>>

(* "No more early returns!"  The uplink goroutine starts. *)
StartRelay(e) ==
  /\ At(e, "start")
  /\ clean' = [clean EXCEPT ![e] = TRUE]
  /\ WgAdd
  /\ up' = [up EXCEPT ![e] = "range"]
  /\ Goto(e, "read")
  /\ UNCHANGED <<recvSide, out, stopVars, chan, closed, connVars, key, replyTo>>

-----------------------------------------------------------------------------
(* The session goroutine: relayNatConnToServerConnGeneric *)

(* A reply arrives and is unpacked (one that cannot be read or unpacked    *)
(* leaves the loop where it was); the client's address is loaded.          *)
DownRead(e) ==
  /\ At(e, "read") /\ deadline[e] = "armed"
  /\ replyTo' = [replyTo EXCEPT ![e] = addrInfo[e]]
  /\ Goto(e, "write")
  /\ UNCHANGED <<recvSide, out, stopVars, up, chanVars, connVars, key, wgVars>>

(* Pack and write to serverConn; an error is logged. *)
DownWrite(e) ==
  /\ At(e, "write")
  /\ Goto(e, "read")
  /\ UNCHANGED <<recvSide, out, stopVars, up, chanVars, connVars, key, replyTo, wgVars>>

(* os.ErrDeadlineExceeded *)
DownTimeout(e) ==
  /\ At(e, "read") /\ deadline[e] = "expired"
  /\ Goto(e, "wgDone")
  /\ UNCHANGED <<recvSide, out, stopVars, up, chanVars, connVars, key, replyTo, wgVars>>

(* natTimeout passes since the deadline was last set. *)
NatTimeout(e) ==
  /\ Running /\ natConn[e] = "open" /\ deadline[e] = "armed"
  /\ deadline' = [deadline EXCEPT ![e] = "expired"]
  /\ UNCHANGED <<recvSide, out, stopVars, pc, up, chanVars, state, natConn, key, replyTo, wgVars>>

-----------------------------------------------------------------------------
(* The session goroutine: its deferred calls, last in first out *)

DeferredWgDone(e) ==
  /\ At(e, "wgDone")
  /\ WgDone
  /\ Goto(e, "cleanup")
  /\ UNCHANGED <<recvSide, out, stopVars, up, chanVars, connVars, key, replyTo>>

(* bug: the channel is closed but the session stays in the table *)
Cleanup_NoDelete(e) ==
  /\ At(e, "cleanup")
  /\ closed' = [closed EXCEPT ![e] = TRUE]
  /\ Goto(e, IF clean[e] THEN "none" ELSE "drain")
  /\ UNCHANGED <<recv, out, table, user, csid, addrVars, stopVars, up, chan, clean, connVars, key, replyTo, wgVars>>

(* bug: sendChClean is set although the relay never started *)
Cleanup_NoDrain(e) ==
  /\ At(e, "cleanup")
  /\ closed' = [closed EXCEPT ![e] = TRUE]
  /\ table' = [table EXCEPT ![csid[e]] = None]
  /\ Goto(e, "none")
  /\ UNCHANGED <<recv, out, user, csid, addrVars, stopVars, up, chan, clean, connVars, key, replyTo, wgVars>>

(* Under s.mu: close the channel, leave the table. *)
Cleanup(e) ==
  /\ At(e, "cleanup")
  /\ closed' = [closed EXCEPT ![e] = TRUE]
  /\ table' = [table EXCEPT ![csid[e]] = None]
  /\ Goto(e, IF clean[e] THEN "none" ELSE "drain")
  /\ UNCHANGED <<recv, out, user, csid, addrVars, stopVars, up, chan, clean, connVars, key, replyTo, wgVars>>

(* Put the packets of the closed channel back; end when it is empty. *)
Drain(e) ==
  /\ At(e, "drain")
  /\ \/ /\ chan[e] > 0
        /\ chan' = [chan EXCEPT ![e] = @ - 1]
        /\ PutQueuedPacket
        /\ UNCHANGED pc
     \/ /\ chan[e] = 0 /\ closed[e]
        /\ Goto(e, "none")
        /\ UNCHANGED <<out, chan>>
  /\ UNCHANGED <<recvSide, stopVars, up, closed, clean, connVars, key, replyTo, wgVars>>

-----------------------------------------------------------------------------
(* The uplink goroutine: relayServerConnToNatConnGeneric *)

UpReceive(e) ==
  /\ UpAt(e, "range") /\ chan[e] > 0
  /\ chan' = [chan EXCEPT ![e] = @ - 1]
  /\ up' = [up EXCEPT ![e] = "pack"]
  /\ UNCHANGED <<recvSide, out, stopVars, pc, closed, clean, connVars, key, replyTo, wgVars>>

UpPack(e) ==
  /\ UpAt(e, "pack")
  /\ \/ up' = [up EXCEPT ![e] = "write"] /\ UNCHANGED out
     \/ up' = [up EXCEPT ![e] = "range"] /\ PutQueuedPacket
  /\ UNCHANGED <<recvSide, stopVars, pc, chanVars, connVars, key, replyTo, wgVars>>

(* Write to natConn; an error is logged. *)
UpWrite(e) ==
  /\ UpAt(e, "write")
  /\ up' = [up EXCEPT ![e] = "extend"]
  /\ UNCHANGED <<recvSide, out, stopVars, pc, chanVars, connVars, key, replyTo, wgVars>>

(* SetReadDeadline(now + natTimeout), whoever set it last; put the packet  *)
(* back.                                                                   *)
UpExtend(e) ==
  /\ UpAt(e, "extend")
  /\ deadline' = [deadline EXCEPT ![e] = "armed"]
  /\ PutQueuedPacket
  /\ up' = [up EXCEPT ![e] = "range"]
  /\ UNCHANGED <<recvSide, stopVars, pc, chanVars, state, natConn, key, replyTo, wgVars>>

(* The channel is closed and empty. *)
UpClose(e) ==
  /\ UpAt(e, "range") /\ chan[e] = 0 /\ closed[e]
  /\ natConn' = [natConn EXCEPT ![e] = "closed"]
  /\ WgDone
  /\ up' = [up EXCEPT ![e] = "none"]
  /\ UNCHANGED <<recvSide, out, stopVars, pc, chanVars, state, deadline, key, replyTo>>

-----------------------------------------------------------------------------
(* Stop *)

stopOthers == <<recvSide, out, pc, up, chanVars, natConn, key, replyTo, wg>>

StopBegin ==
  /\ stop = "idle"
  /\ serverConn' = "expired"
  /\ stop' = "mwait"
  /\ UNCHANGED <<stopOthers, state, deadline, waiter>>

(* bug: Stop does not wait for the receive goroutine *)
StopMwgWait_Skipped ==
  /\ stop = "mwait"
  /\ stop' = "sweep"
  /\ UNCHANGED <<stopOthers, serverConn, state, deadline, waiter>>

StopMwgWait ==
  /\ stop = "mwait" /\ recv = "done"
  /\ stop' = "sweep"
  /\ UNCHANGED <<stopOthers, serverConn, state, deadline, waiter>>

InTable(e) == \E c \in Csids : table[c] = e

(* Under s.mu: every session of the table is told to end.  What another    *)
(* session does between two turns of the loop commutes with the turns.     *)
StopSweep ==
  /\ stop = "sweep"
  /\ state' = [e \in Entries |-> IF InTable(e) THEN "serverConn" ELSE state[e]]
  /\ deadline' = [e \in Entries |->
                    IF InTable(e) /\ state[e] # "nil" THEN "expired" ELSE deadline[e]]
  /\ stop' = "wait"
  /\ UNCHANGED <<stopOthers, serverConn, waiter>>

(* s.wg.Wait returns at once, or becomes a waiter. *)
StopWgWait ==
  /\ stop = "wait" /\ waiter = "none"
  /\ IF wg = 0 THEN stop' = "close" /\ UNCHANGED waiter
               ELSE waiter' = "waiting" /\ UNCHANGED stop
  /\ UNCHANGED <<stopOthers, serverConn, state, deadline>>

(* The released waiter runs again. *)
StopWgReturn ==
  /\ stop = "wait" /\ waiter = "released"
  /\ stop' = IF wg = 0 THEN "close" ELSE "panicked"
  /\ waiter' = "none"
  /\ UNCHANGED <<stopOthers, serverConn, state, deadline>>

StopClose ==
  /\ stop = "close"
  /\ serverConn' = "closed"
  /\ stop' = "stopped"
  /\ UNCHANGED <<stopOthers, state, deadline, waiter>>

-----------------------------------------------------------------------------
RecvHandle ==
  \/ RecvBadPacket
  \/ \E c \in Csids, a \in Addrs : RecvExisting(c, a) \/ RecvNew(c, a)

SetUp(e) ==
  \/ NewClientSession(e) \/ NewPackerAEAD(e) \/ NewPackerBlock(e)
  \/ ListenUDP(e) \/ SwapState(e) \/ StartRelay(e)

Leave(e) == DeferredWgDone(e) \/ Cleanup(e) \/ Drain(e)

Uplink(e) == UpReceive(e) \/ UpPack(e) \/ UpWrite(e) \/ UpExtend(e) \/ UpClose(e)

StopRest == StopMwgWait \/ StopSweep \/ StopWgWait \/ StopWgReturn \/ StopClose

(* The process is over, or idle for good. *)
Finished ==
  /\ stop = "stopped" => \A e \in Entries : pc[e] = "none" /\ up[e] = "none"
  /\ stop \in {"stopped", "panicked"}
  /\ UNCHANGED vars

Next ==
  \/ RecvGet \/ RecvRead \/ RecvDeadline \/ RecvHandle
  \/ \E e \in Entries :
       \/ RouterOk(e) \/ RouterFails(e) \/ SetUp(e)
       \/ DownRead(e) \/ DownWrite(e) \/ DownTimeout(e) \/ NatTimeout(e)
       \/ Leave(e) \/ Uplink(e)
  \/ StopBegin \/ StopRest
  \/ Finished

(* The NAT timeout is certain only while no packet extends it.             *)
IdleTimeout(e) == chan[e] = 0 /\ up[e] \in {"none", "range"} /\ NatTimeout(e)

Spec == Init /\ [][Next]_vars

-----------------------------------------------------------------------------
SetupLabels == {"router", "newSession", "aead", "block", "listen", "swap", "start"}
Holding == {"pack", "write", "extend"}

(* The type invariant, of the batched uplinks too (from "next" on). *)
TypeOK ==
  /\ recv \in {"get", "read", "handle", "done"}
  /\ out \in Nat
  /\ table \in [Csids -> Entries \union {None}]
  /\ user \in Users \union {None}
  /\ serverConn \in {"open", "expired", "closed"}
  /\ pc \in [Entries -> SetupLabels \union {"none", "read", "write", "wgDone", "cleanup", "drain"}]
  /\ up \in [Entries -> Holding \union {"none", "range", "next", "last", "nilDeref"}]
  /\ csid \in [Entries -> Csids \union {None}]
  /\ chan \in [Entries -> 0 .. Capacity]
  /\ closed \in [Entries -> BOOLEAN] /\ clean \in [Entries -> BOOLEAN]
  /\ state \in [Entries -> {"nil", "natConn", "serverConn"}]
  /\ natConn \in [Entries -> {"none", "open", "closed"}]
  /\ deadline \in [Entries -> {"armed", "expired"}]
  /\ key \in [Entries -> (Users \union {None}) \X (Users \union {None})]
  /\ addrCache \in [Entries -> Addrs \union {None}]
  /\ addrInfo \in [Entries -> Addrs \union {None}]
  /\ lastParsed \in [Entries -> Addrs \union {None}]
  /\ replyTo \in [Entries -> Addrs \union {None}]
  /\ wg \in Nat
  /\ waiter \in {"none", "waiting", "released"}
  /\ stop \in {"idle", "mwait", "sweep", "wait", "close", "stopped", "panicked"}

(* Every queued packet taken from the pool is held by exactly one of the   *)
(* receive loop, a channel and an uplink, or was put back exactly once, on *)
(* every path: bad packets, full channels, failed sessions, failed packs.  *)
PacketsAccountedFor ==
  out = (IF recv \in {"read", "handle"} THEN 1 ELSE 0)
        + SumFunction([e \in Entries |-> chan[e] + (IF up[e] \in Holding THEN 1 ELSE 0)])

(* The receive loop sends only on channels that are open (a send on a      *)
(* closed one panics), and each session of the table is its own.           *)
TableHoldsLiveSessions ==
  \A c \in Csids : table[c] # None =>
    /\ ~closed[table[c]]
    /\ csid[table[c]] = c
    /\ pc[table[c]] \notin {"none", "drain"}

(* The session goroutine reads the packet that opened the session (router, *)
(* logs) after that packet was handed to the channel: until the relay      *)
(* starts it is still there, so nobody has put it back into the pool.      *)
FirstPacketNotRecycled ==
  \A e \in Entries : pc[e] \in SetupLabels => chan[e] > 0

(* Neither direction of a session uses its natConn before it is open or    *)
(* after it was closed, and a session that is gone leaves no open socket.  *)
NatConnOpenWhileUsed ==
  \A e \in Entries :
    /\ pc[e] \in {"start", "read", "write"} \/ up[e] # "none" => natConn[e] = "open"
    /\ pc[e] = "none" /\ up[e] = "none" => natConn[e] # "open"

(* Stop closes serverConn only when no relay goroutine is left, or can     *)
(* still come, that would write to it ("so in-flight packets can be        *)
(* written out").                                                          *)
StopWaitsForRelays ==
  stop \in {"close", "stopped"} =>
    \A e \in Entries : pc[e] \notin {"start", "read", "write"} /\ up[e] = "none"

(* Replies go to where the session's last packet whose control message     *)
(* parses came from, with that message: a packet is never taken for        *)
(* already stored, because the caches were updated by one that was then    *)
(* dropped, when the stored value is another.  (A second packet in a row   *)
(* with a control message that does not parse finds itself in the caches   *)
(* and is forwarded; the replies go to the address before.)                *)
RepliesFollowClient ==
  \A e \in Entries : InTable(e) => addrInfo[e] = lastParsed[e]

(* Stop does not hang, whatever the sessions and the router are doing.     *)
StopReturns == stop = "mwait" ~> stop \in {"stopped", "panicked"}

(* A session whose downlink ended, or that failed to start, lets go of     *)
(* everything: both goroutines end, the socket is closed, no packet stays. *)
SessionsLetGo ==
  \A e \in Entries :
    pc[e] = "wgDone" ~> \/ stop = "panicked"
                        \/ pc[e] = "none" /\ up[e] = "none" /\ chan[e] = 0 /\ natConn[e] # "open"

(* NewPacker seals a session's replies with the key of the session's user. *)
PackerHasSessionsUser ==
  \A e \in Entries :
    pc[e] \in {"start", "read", "write"} => key[e] = <<UserOf[csid[e]], UserOf[csid[e]]>>

(* A session that is still in the router does not get in the way of Stop.  *)
StopNeverPanics == stop # "panicked"
=============================================================================
