------------------------- MODULE ShadowPacketServer -------------------------
(***************************************************************************)
(* The server side of Shadowsocks 2022 UDP sessions: the client's packer   *)
(* (ShadowPacketClientPacker), a network that delays, reorders, repeats,   *)
(* damages and loses packets, the server's unpacker with its replay filter *)
(* (ShadowPacketServerUnpacker), and how long the filter lives: as long as *)
(* the relay's session, which is evicted when the read deadline of its     *)
(* outgoing socket passes.  The uplink sets that deadline after each       *)
(* packet it has written (service/udp_session.go).                         *)
(*                                                                         *)
(* A packet carries Unix seconds, a truncation of the clock's ticks.       *)
(***************************************************************************)
EXTENDS Filter, Timestamps, FiniteSets, Sequences, SequencesExt

CONSTANTS
  ClientSessions,       \* client session IDs
  MaxCpid,              \* packet IDs (bound)
  NatTimeout,           \* ticks: at least 60 s in the code
  SendChannelCapacity

(* The least timeout a service accepts is 60 s (minNatTimeout), twice the  *)
(* accepted clock difference.                                              *)
ASSUME ServerAssumption ==
  /\ MaxCpid \in Nat /\ SendChannelCapacity \in Nat \ {0} /\ NatTimeout \in Nat
  /\ NatTimeout >= 2 * MaxEpochDiff * Second

VARIABLES
  clock,          \* the server's
  cpid,           \* cpid[c]: the client's next packet ID
  packed,         \* packets the clients packed
  session,        \* session[c]: "none", "setup" or "open"
  filters,        \* filters[c]: the unpacker's filter, "nil" before the first packet
  queue,          \* queue[c]: packets in natConnSendCh
  written,        \* written[c]: packets written since the deadline was last set
  deadline,       \* deadline[c]: the read deadline of natConn
  drain,          \* drain[c]: packets left in the channels of evicted sessions
  forwarded,      \* history: packets written to an outgoing socket
  forwardedAgain, \* history: those written more than once
  raced,          \* history: packets a session had accepted and was evicted
                  \* before the deadline was set for them
  fromAhead       \* history: packets whose timestamps were a full MaxEpochDiff
                  \* ahead of the clock when the deadline was set for them

sessionVars == <<session, filters, queue, written, deadline>>
serverVars == <<clock, cpid, packed, sessionVars, drain, forwarded, forwardedAgain, raced, fromAhead>>

ServerInit ==
  /\ clock = 0 /\ cpid = [c \in ClientSessions |-> 0] /\ packed = {}
  /\ session = [c \in ClientSessions |-> "none"] /\ filters = [c \in ClientSessions |-> EmptyFilter]
  /\ queue = [c \in ClientSessions |-> <<>>] /\ written = [c \in ClientSessions |-> {}]
  /\ deadline = [c \in ClientSessions |-> 0] /\ drain = [c \in ClientSessions |-> <<>>]
  /\ forwarded = {} /\ forwardedAgain = {} /\ raced = {} /\ fromAhead = {}

ServerTick ==
  /\ clock < MaxTime
  /\ clock' = clock + 1
  /\ UNCHANGED <<cpid, packed, sessionVars, drain, forwarded, forwardedAgain, raced, fromAhead>>

(* ShadowPacketClientPacker.PackInPlace: next packet ID, current time *)
ClientPackInPlace(c) ==
  /\ cpid[c] <= MaxCpid
  /\ \E skew \in Skews : packed' = packed \cup {[csid |-> c, cpid |-> cpid[c], ts |-> Unix(clock) + skew]}
  /\ cpid' = [cpid EXCEPT ![c] = @ + 1]
  /\ UNCHANGED <<clock, sessionVars, drain, forwarded, forwardedAgain, raced, fromAhead>>

-----------------------------------------------------------------------------
(* SessionInfo, NewUnpacker and UnpackInPlace *)

(* A session that is not in the table is given a new unpacker, whose       *)
(* filter is only made when a packet passes.                               *)
SessionFilter(c) == IF session[c] = "none" THEN EmptyFilter ELSE filters[c]

(* An intact packet of a known user that passes the filter and the         *)
(* timestamp check; on any error nothing changes.                          *)
Unpacks(p) == IsOk(SessionFilter(p.csid), p.cpid) /\ ValidTimestamp(p.ts, clock)

ServerAccept(p) ==
  /\ Unpacks(p)
  /\ filters' = [filters EXCEPT ![p.csid] = MustAdd(SessionFilter(p.csid), p.cpid)]
  /\ UNCHANGED <<clock, cpid, packed, drain, forwarded, forwardedAgain, raced, fromAhead>>

(* A new session: the table entry, and its goroutine starts to set it up. *)
ReceiveNew(p) ==
  /\ session[p.csid] = "none" /\ ServerAccept(p)
  /\ session' = [session EXCEPT ![p.csid] = "setup"]
  /\ queue' = [queue EXCEPT ![p.csid] = <<p>>] /\ written' = [written EXCEPT ![p.csid] = {}]
  /\ UNCHANGED deadline

(* An existing one; a packet for which the channel has no room is dropped. *)
ReceiveExisting(p) ==
  /\ session[p.csid] # "none" /\ ServerAccept(p)
  /\ queue' = [queue EXCEPT ![p.csid] = IF Len(@) < SendChannelCapacity THEN Append(@, p) ELSE @]
  /\ UNCHANGED <<session, written, deadline>>

-----------------------------------------------------------------------------
(* The session's goroutines *)

SetUp(c) ==
  /\ session[c] = "setup"
  /\ session' = [session EXCEPT ![c] = "open"]
  /\ deadline' = [deadline EXCEPT ![c] = clock + NatTimeout]
  /\ UNCHANGED <<clock, cpid, packed, filters, queue, written, drain, forwarded,
                 forwardedAgain, raced, fromAhead>>

(* Nothing that was queued is sent. *)
SetUpFails(c) ==
  /\ session[c] = "setup"
  /\ session' = [session EXCEPT ![c] = "none"] /\ queue' = [queue EXCEPT ![c] = <<>>]
  /\ UNCHANGED <<clock, cpid, packed, filters, written, deadline, drain, forwarded,
                 forwardedAgain, raced, fromAhead>>

Write(p) ==
  /\ forwarded' = forwarded \cup {p}
  /\ forwardedAgain' = forwardedAgain \cup ({p} \cap forwarded)

(* One packet is written; it may also fail to pack. *)
UplinkWrite(c) ==
  /\ session[c] = "open" /\ queue[c] # <<>> /\ written[c] = {}
  /\ queue' = [queue EXCEPT ![c] = Tail(@)]
  /\ \/ Write(Head(queue[c])) /\ written' = [written EXCEPT ![c] = {Head(queue[c])}]
     \/ UNCHANGED <<forwarded, forwardedAgain, written>>
  /\ UNCHANGED <<clock, cpid, packed, session, filters, deadline, drain, raced, fromAhead>>

(* bug: the deadline is set once, when the session starts *)
UplinkDeadline_Never(c) ==
  /\ written[c] # {} /\ written' = [written EXCEPT ![c] = {}]
  /\ UNCHANGED <<clock, cpid, packed, session, filters, queue, deadline, drain, forwarded,
                 forwardedAgain, raced, fromAhead>>

(* Then the read deadline is set anew. *)
UplinkDeadline(c) ==
  /\ session[c] = "open" /\ written[c] # {}
  /\ written' = [written EXCEPT ![c] = {}]
  /\ deadline' = [deadline EXCEPT ![c] = clock + NatTimeout]
  /\ fromAhead' = fromAhead \cup {p \in written[c] : p.ts - Unix(clock) >= MaxEpochDiff}
  /\ UNCHANGED <<clock, cpid, packed, session, filters, queue, drain, forwarded,
                 forwardedAgain, raced>>

(* The downlink's read ends with the deadline: the session leaves the      *)
(* table and its channel is closed.                                        *)
Evict(c) ==
  /\ session[c] = "open" /\ clock >= deadline[c]
  /\ session' = [session EXCEPT ![c] = "none"]
  /\ queue' = [queue EXCEPT ![c] = <<>>] /\ written' = [written EXCEPT ![c] = {}]
  /\ drain' = [drain EXCEPT ![c] = @ \o queue[c]]
  /\ raced' = raced \cup written[c] \cup ToSet(queue[c])
  /\ UNCHANGED <<clock, cpid, packed, filters, deadline, forwarded, forwardedAgain, fromAhead>>

(* The uplink still sends what is left in the channel. *)
DrainWrite(c) ==
  /\ drain[c] # <<>>
  /\ drain' = [drain EXCEPT ![c] = Tail(@)]
  /\ Write(Head(drain[c]))
  /\ UNCHANGED <<clock, cpid, packed, sessionVars, raced, fromAhead>>

ServerNext ==
  \/ ServerTick
  \/ \E c \in ClientSessions :
       \/ ClientPackInPlace(c)
       \/ SetUp(c) \/ SetUpFails(c)
       \/ UplinkWrite(c) \/ UplinkDeadline(c) \/ Evict(c) \/ DrainWrite(c)
  \/ \E p \in packed : ReceiveNew(p) \/ ReceiveExisting(p)

ServerSpec == ServerInit /\ [][ServerNext]_serverVars

-----------------------------------------------------------------------------
(* The type invariant. *)
ServerTypeOK ==
  /\ clock \in 0 .. MaxTime /\ cpid \in [ClientSessions -> 0 .. MaxCpid + 1]
  /\ session \in [ClientSessions -> {"none", "setup", "open"}]
  /\ filters \in [ClientSessions -> FilterType]
  /\ \A c \in ClientSessions : Len(queue[c]) <= SendChannelCapacity /\ written[c] \subseteq packed
  /\ forwardedAgain \subseteq forwarded /\ forwarded \subseteq packed

(* The packets that may be forwarded twice although the replay filter is   *)
(* gone only when NatTimeout has passed: those with which the session was  *)
(* evicted, accepted and the deadline not yet set for them; and, when the  *)
(* timeout does not also cover the second that is lost by truncation,      *)
(* those from as far ahead as is accepted.                                 *)
Excepted == raced \cup (IF NatTimeout >= (2 * MaxEpochDiff + 1) * Second THEN {} ELSE fromAhead)

RepeatsOnlyExcepted == forwardedAgain \subseteq Excepted

(* Within a session the queue never holds a packet twice, nor one that the *)
(* session has already written.                                            *)
QueuedOnce == \A c \in ClientSessions : IsInjective(queue[c]) /\ written[c] \cap ToSet(queue[c]) = {}

(* A client's packet is forwarded at most once, however often the network  *)
(* repeats it and though the replay filter goes with its session, unless   *)
(* the session was evicted with the packet accepted and the deadline not   *)
(* yet set for it, or the timeout is less than 61 s and the packet's       *)
(* timestamp was the full 30 s ahead; within a session no packet is queued *)
(* twice.                                                                  *)
ForwardedOnce == ServerTypeOK /\ RepeatsOnlyExcepted /\ QueuedOnce

(* "the default duration after which an inactive NAT entry is evicted": an *)
(* entry that is evicted has no packet waiting that was accepted for it.   *)
EvictedOnlyWhenInactive ==
  [][\A c \in ClientSessions :
       session[c] = "open" /\ session'[c] = "none" => queue[c] = <<>>]_serverVars
=============================================================================
