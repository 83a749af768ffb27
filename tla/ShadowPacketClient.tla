------------------------- MODULE ShadowPacketClient -------------------------
(***************************************************************************)
(* The client side of a Shadowsocks 2022 UDP session: the packets server   *)
(* sessions produce (ShadowPacketServerPacker), a network that delays,     *)
(* reorders, duplicates, damages and loses them, and the unpacker of       *)
(* ss2022/packet.go that follows the server session through a change       *)
(* (ShadowPacketClientUnpacker).                                           *)
(*                                                                         *)
(* Time is counted in ticks.  A packet carries Unix seconds, which is a    *)
(* truncation; the unpacker's own times are exact.  UnpackInPlace reads    *)
(* the clock up to three times: for the session check (now), for the       *)
(* timestamp check (t1) and for the last-seen time (t2).                   *)
(***************************************************************************)
EXTENDS Filter, Timestamps, FiniteSets

CONSTANTS
  Sessions,         \* server session IDs (random, never reused)
  ForeignSessions,  \* those that answer another client session of the user
  NoSession,        \* a session ID of which the unpacker holds no cipher
  MaxSpid,          \* bound: packet IDs a server session uses are 0 .. MaxSpid
  MaxPackets,       \* bound: packets sent in all
  CallTicks,        \* bound on the ticks that pass during one UnpackInPlace
  Minute            \* ticks: time.Minute in the code

(* The minute is longer than the accepted clock difference: 60 s to 30 s. *)
ASSUME ClientAssumption ==
  /\ ForeignSessions \subseteq Sessions
  /\ NoSession \notin Sessions
  /\ MaxSpid \in Nat /\ CallTicks \in Nat
  /\ Minute \in Nat /\ Minute >= (MaxEpochDiff + 1) * Second

Spids == 0 .. MaxSpid

Packets == [ssid : Sessions, spid : Spids, ts : Int]

VARIABLES
  now,            \* the client's clock
  spid,           \* spid[s]: the next packet ID of server session s
  sent,           \* every packet a server session has produced
  current,        \* the current server session: [id, filter, seen], seen being
                  \* history: the packet IDs this filter was given
  old,            \* the one before it
  oldLastSeen,    \* oldServerSessionLastSeenTime
  delivered,      \* history: the packets UnpackInPlace has returned
  repeated,       \* history: those it has returned more than once
  outcome         \* what the step's UnpackInPlace returned, if any

vars == <<now, spid, sent, current, old, oldLastSeen, delivered, repeated, outcome>>

NewSession(ssid) == [id |-> ssid, filter |-> EmptyFilter, seen |-> {}]

Nil == NewSession(NoSession)

Accept(session, n) ==
  [id     |-> session.id,
   filter |-> MustAdd(session.filter, n),
   seen   |-> session.seen \union {n}]

(* The zero time.Time is long past. *)
LongAgo == - Minute

Init ==
  /\ now = 0
  /\ spid = [s \in Sessions |-> 0]
  /\ sent = {}
  /\ current = Nil /\ old = Nil
  /\ oldLastSeen = LongAgo
  /\ delivered = {} /\ repeated = {}
  /\ outcome = "none"

Tick ==
  /\ now < MaxTime
  /\ now' = now + 1
  /\ outcome' = "none"
  /\ UNCHANGED <<spid, sent, current, old, oldLastSeen, delivered, repeated>>

(* ShadowPacketServerPacker.PackInPlace: one packet with the next ID and   *)
(* the server's time.                                                      *)
PackInPlace(s) ==
  /\ spid[s] <= MaxSpid
  /\ Cardinality(sent) < MaxPackets
  /\ \E skew \in Skews :
       sent' = sent \union {[ssid |-> s, spid |-> spid[s], ts |-> Unix(now) + skew]}
  /\ spid' = [spid EXCEPT ![s] = @ + 1]
  /\ outcome' = "none"
  /\ UNCHANGED <<now, current, old, oldLastSeen, delivered, repeated>>

-----------------------------------------------------------------------------
(* UnpackInPlace *)

(* bug: fast-changing sessions are not refused *)
SessionStatus_NoWait(ssid) ==
  IF ssid = current.id THEN "current" ELSE IF ssid = old.id THEN "old" ELSE "new"

(* The switch that determines the session status. *)
SessionStatus(ssid) ==
  IF ssid = current.id THEN "current"
  ELSE IF ssid = old.id THEN "old"
  ELSE IF now - oldLastSeen < Minute THEN "tooMany"
  ELSE "new"

FilterOf(ssid) ==
  IF ssid = current.id THEN current.filter
  ELSE IF ssid = old.id THEN old.filter
  ELSE EmptyFilter

(* ParseUDPServerMessageHeader: the timestamp, then the client session ID. *)
HeaderError(p, t) ==
  IF ~ ValidTimestamp(p.ts, t) THEN "badTimestamp"
  ELSE IF p.ssid \in ForeignSessions THEN "clientSessionIDMismatch"
  ELSE "none"

(* The first error UnpackInPlace meets, in the order it looks for them. *)
UnpackError(p, intact, t) ==
  IF SessionStatus(p.ssid) = "tooMany" THEN "tooManyServerSessions"
  ELSE IF ~ IsOk(FilterOf(p.ssid), p.spid) THEN "replay"
  ELSE IF ~ intact THEN "openFailed"
  ELSE HeaderError(p, t)

(* An error leaves the unpacker as it was. *)
UnpackFails(p, intact, t1) ==
  /\ UnpackError(p, intact, t1) # "none"
  /\ outcome' = UnpackError(p, intact, t1)
  /\ now' = t1
  /\ UNCHANGED <<spid, sent, current, old, oldLastSeen, delivered, repeated>>

Return(p, t2) ==
  /\ now' = t2
  /\ outcome' = "delivered"
  /\ delivered' = delivered \union {p}
  /\ repeated' = repeated \union ({p} \intersect delivered)
  /\ UNCHANGED <<spid, sent>>

UnpackCurrent(p, t1, t2) ==
  /\ SessionStatus(p.ssid) = "current"
  /\ UnpackError(p, TRUE, t1) = "none"
  /\ current' = Accept(current, p.spid)
  /\ Return(p, t2)
  /\ UNCHANGED <<old, oldLastSeen>>

UnpackOld(p, t1, t2) ==
  /\ SessionStatus(p.ssid) = "old"
  /\ UnpackError(p, TRUE, t1) = "none"
  /\ old' = Accept(old, p.spid)
  /\ oldLastSeen' = t2
  /\ Return(p, t2)
  /\ UNCHANGED current

(* bug: the session that is replaced is not kept as the old one *)
UnpackNew_DropsCurrent(p, t1, t2) ==
  /\ SessionStatus(p.ssid) = "new"
  /\ UnpackError(p, TRUE, t1) = "none"
  /\ old' = old
  /\ current' = Accept(NewSession(p.ssid), p.spid)
  /\ oldLastSeen' = t2
  /\ Return(p, t2)

(* bug: the old session is given a filter of its own *)
UnpackNew_FreshFilter(p, t1, t2) ==
  /\ SessionStatus(p.ssid) = "new"
  /\ UnpackError(p, TRUE, t1) = "none"
  /\ old' = [current EXCEPT !.filter = EmptyFilter]
  /\ current' = Accept(NewSession(p.ssid), p.spid)
  /\ oldLastSeen' = t2
  /\ Return(p, t2)

UnpackNew(p, t1, t2) ==
  /\ SessionStatus(p.ssid) = "new"
  /\ UnpackError(p, TRUE, t1) = "none"
  /\ old' = current
  /\ current' = Accept(NewSession(p.ssid), p.spid)
  /\ oldLastSeen' = t2
  /\ Return(p, t2)

Unpack(p) ==
  \E t1 \in now .. now + CallTicks :
    /\ t1 <= MaxTime
    /\ \/ \E intact \in BOOLEAN : UnpackFails(p, intact, t1)
       \/ \E t2 \in t1 .. now + CallTicks :
            /\ t2 <= MaxTime
            /\ \/ UnpackCurrent(p, t1, t2)
               \/ UnpackOld(p, t1, t2)
               \/ UnpackNew(p, t1, t2)

Next ==
  \/ Tick
  \/ \E s \in Sessions : PackInPlace(s)
  \/ \E p \in sent : Unpack(p)

Spec == Init /\ [][Next]_vars

-----------------------------------------------------------------------------

SessionType == [id : Sessions \union {NoSession}, filter : FilterType, seen : SUBSET Spids]

(* The unpacker's fields and the packets keep their types. *)
TypeOK ==
  /\ now \in 0 .. MaxTime
  /\ spid \in [Sessions -> 0 .. MaxSpid + 1]
  /\ sent \subseteq Packets /\ delivered \subseteq sent
  /\ current \in SessionType /\ old \in SessionType
  /\ oldLastSeen \in Int

(* A packet the network repeats is never returned twice, through any       *)
(* number of session changes: not by the filter of the current session,    *)
(* not by that of the old one, and not by opening a forgotten session      *)
(* again, because by then the packet's timestamp has expired.              *)
NeverDeliveredTwice == repeated = {}

(* A session's filter stays with it when it becomes the old session, and   *)
(* the two the unpacker holds are different sessions of this client.       *)
SessionsRemembered ==
  /\ Represents(current.filter, current.seen, Spids)
  /\ Represents(old.filter, old.seen, Spids)
  /\ current.id = old.id => current.id = NoSession

Remembered(p) ==
  \/ p.ssid = current.id /\ p.spid \in current.seen
  \/ p.ssid = old.id /\ p.spid \in old.seen

(* A packet that was returned and of which no filter knows any more will   *)
(* have expired when its session may next be opened; and it has expired    *)
(* already when its session was opened again.                              *)
ForgottenPacketsExpired ==
  \A p \in delivered : ~ Remembered(p) =>
    /\ p.ts + MaxEpochDiff < Unix(oldLastSeen + Minute)
    /\ p.ssid \in {current.id, old.id} => p.ts + MaxEpochDiff < Unix(oldLastSeen)

(* "In an unlikely event where the server session changed more than once   *)
(* within 60s, we simply drop new server sessions": a new session is not   *)
(* dropped by an unpacker that has never seen the session change.          *)
DropsOnlyAfterAChange ==
  [][outcome' = "tooManyServerSessions" => old.id # NoSession]_vars
=============================================================================
