----------------------------- MODULE UDPRelays ------------------------------
(***************************************************************************)
(* The UDP relays of the service package together.  A relay is session- or *)
(* address-based by its server's protocol, and runs the generic loops or   *)
(* the batched ones: setRelayFunc chooses them by batchMode, once, before  *)
(* Start.  The four share their state; which one runs is drawn by          *)
(* InitRelays and never changes.                                           *)
(***************************************************************************)
EXTENDS UDPNATRelayMmsg

CONSTANT
  Settings    \* bound: the relays to look at, each with the clients and
              \* addresses that send to it and the sessions alive at once

VARIABLE setting

varsRelays == <<varsMmsg, setting>>

Kinds == {"session", "sessionMmsg", "nat", "natMmsg"}

ASSUME SettingsAssumption ==
  Settings \subseteq [relay : Kinds, clients : SUBSET Csids, addrs : SUBSET Addrs, sessions : Nat]

(* setRelayFunc *)
Runs(relay) == setting.relay = relay
Batched == setting.relay \in {"sessionMmsg", "natMmsg"}
AddressBased == setting.relay \in {"nat", "natMmsg"}

InitRelays == InitMmsg /\ setting \in Settings

Alive(e) == pc[e] # "none" \/ up[e] # "none"

(* What the clients of the setting can bring about. *)
InSetting ==
  /\ \A c \in Csids : table'[c] # None => c \in setting.clients
  /\ \A e \in Entries : addrCache'[e] \in setting.addrs \union {None}
  /\ Cardinality({e \in Entries : Alive(e)'}) <= setting.sessions

NextRelays ==
  /\ \/ Runs("session") /\ Next /\ UNCHANGED mmsgVars
     \/ Runs("nat") /\ NATNext /\ UNCHANGED mmsgVars
     \/ Runs("sessionMmsg") /\ NextMmsg
     \/ Runs("natMmsg") /\ NATMmsgNext
  /\ InSetting
  /\ UNCHANGED setting

SpecRelays == InitRelays /\ [][NextRelays]_varsRelays

-----------------------------------------------------------------------------
(* Scheduling: what each goroutine does by itself. *)

(* The receive goroutine, except where it waits for packets. *)
Receives ==
  /\ \/ Runs("session") /\ (RecvGet \/ RecvDeadline \/ RecvHandle) /\ UNCHANGED mmsgVars
     \/ Runs("nat") /\ (RecvGet \/ RecvDeadline \/ NATHandle) /\ UNCHANGED mmsgVars
     \/ Runs("sessionMmsg") /\ (Fill \/ RecvmmsgDeadline \/ MmsgHandle)
     \/ Runs("natMmsg") /\ (Fill \/ RecvmmsgDeadline \/ NATMmsgHandle)
  /\ InSetting
  /\ UNCHANGED setting

(* The session goroutine, except where it waits for the router or replies. *)
SetsUpAndReplies(e) ==
  /\ \/ Runs("session") /\ (SetUp(e) \/ DownWrite(e) \/ DownTimeout(e)) /\ UNCHANGED mmsgVars
     \/ Runs("nat") /\ (NATSetUp(e) \/ NATDownWrite(e) \/ NATDownTimeout(e)) /\ UNCHANGED mmsgVars
     \/ Runs("sessionMmsg") /\ (MmsgSetUp(e) \/ MmsgDownWrite(e) \/ MmsgDownTimeout(e))
     \/ Runs("natMmsg") /\ (NATMmsgSetUp(e) \/ NATMmsgDownWrite(e) \/ NATMmsgDownTimeout(e))
  /\ UNCHANGED setting

(* Its deferred calls. *)
Leaves(e) ==
  /\ IF Batched THEN MmsgLeave(e) ELSE Leave(e) /\ UNCHANGED mmsgVars
  /\ UNCHANGED setting

(* The uplink goroutine. *)
Sends(e) ==
  /\ \/ ~Batched /\ Uplink(e) /\ UNCHANGED mmsgVars
     \/ Runs("sessionMmsg") /\ MmsgUplink(e)
     \/ Runs("natMmsg") /\ NATMmsgUplink(e)
  /\ UNCHANGED setting

(* Goroutines that can run do, and a session that sits idle times out.     *)
(* Nothing makes packets arrive, the router answer or somebody call Stop.  *)
(* A goroutine that waits for s.mu gets it although a batched receive loop *)
(* keeps taking it: sync.Mutex hands over to a waiter.                     *)
FairSpecRelays ==
  /\ SpecRelays
  /\ WF_varsRelays(Receives)
  /\ WF_varsRelays(StopRest /\ UNCHANGED <<mmsgVars, setting>>)
  /\ \A e \in Entries :
       /\ WF_varsRelays(SetsUpAndReplies(e)) /\ WF_varsRelays(Sends(e)) /\ SF_varsRelays(Leaves(e))
       /\ WF_varsRelays(IdleTimeout(e) /\ UNCHANGED <<mmsgVars, setting>>)

-----------------------------------------------------------------------------
(* The type invariant of the four relays; a batched uplink never writes an *)
(* empty batch nor packs beyond its end.                                   *)
RelaysTypeOK ==
  /\ TypeOK
  /\ n \in 1 .. MaxIov /\ left \in 0 .. MaxIov - 1
  /\ count \in [Entries -> 0 .. BatchSize]
  /\ Batched => BatchNeitherEmptyNorOverrun

(* In every relay each queued packet taken from the pool has exactly one   *)
(* holder (the receive loop's vector, a channel, an uplink's batch) or was *)
(* put back exactly once, on every path that a packet can take.            *)
EveryPacketAccountedFor ==
  IF Batched THEN BatchedPacketsAccountedFor ELSE PacketsAccountedFor

(* The table holds the sessions that can take packets and no others, so    *)
(* that the receive loop never sends on a closed channel, and no client    *)
(* has two open sessions.                                                  *)
TableIsExact == TableHoldsLiveSessions /\ OneOpenSessionPerClient

(* Nothing is used after it was given back: the packet that opened a       *)
(* session while the session still reads it, and the outgoing socket that  *)
(* two goroutines share.                                                   *)
NothingUsedAfterRelease == FirstPacketNotRecycled /\ NatConnOpenWhileUsed

(* Replies go to where the last packet of the session whose control        *)
(* message parses came from (in the address-based relays: carry the        *)
(* pktinfo that parsed last), though caches and stored values are updated  *)
(* at different times.  Except in the generic NAT relay, which tests for   *)
(* nil, a downlink that runs has one: it dereferences the pointer.         *)
RepliesGoToTheClient ==
  /\ RepliesFollowClient
  /\ ~Runs("nat") => PktinfoNeverNil
=============================================================================
