-------------------------- MODULE UDPRelaysProofs ---------------------------
(***************************************************************************)
(* The safety of the four UDP relays of UDPRelays, proved for any number   *)
(* of clients, sessions and packets and for any sizes of the channels and  *)
(* the batches.                                                            *)
(*                                                                         *)
(* The inductive invariant has eight parts, one for each thing the         *)
(* goroutines share: types, batches, the table, the life of a session, the *)
(* WaitGroup, what Stop has swept, the addresses replies go to, and the    *)
(* packets held.  Each has a lemma of its own.                             *)
(***************************************************************************)
EXTENDS UDPRelays, FiniteSums

-----------------------------------------------------------------------------
(* The parts of the inductive invariant *)

UpLabels == Holding \union {"none", "range", "next", "last", "nilDeref"}
PcLabels == SetupLabels \union {"none", "read", "write", "wgDone", "cleanup", "drain"}

(* TypeOK, except that the counters out and wg are only known to be        *)
(* integers: that they are never negative is what the other parts show.    *)
Types ==
  /\ setting \in Settings
  /\ recv \in {"get", "read", "handle", "done"}
  /\ out \in Int /\ wg \in Int
  /\ table \in [Csids -> Entries \union {None}]
  /\ user \in Users \union {None}
  /\ serverConn \in {"open", "expired", "closed"}
  /\ pc \in [Entries -> PcLabels]
  /\ up \in [Entries -> UpLabels]
  /\ csid \in [Entries -> Csids \union {None}]
  /\ chan \in [Entries -> 0 .. Capacity]
  /\ closed \in [Entries -> BOOLEAN] /\ clean \in [Entries -> BOOLEAN]
  /\ state \in [Entries -> {"nil", "natConn", "serverConn"}]
  /\ natConn \in [Entries -> {"none", "open", "closed"}]
  /\ deadline \in [Entries -> {"armed", "expired"}]
  /\ key \in [Entries -> (Users \union {None}) \X (Users \union {None})]
  /\ addrCache \in [Entries -> Addrs \union {None}]
  /\ addrInfo \in [Entries -> Addrs \union {None}]
  /\ lastParsed \in [Entries -> Addrs \union {None}]
  /\ replyTo \in [Entries -> Addrs \union {None}]
  /\ waiter \in {"none", "waiting", "released"}
  /\ stop \in {"idle", "mwait", "sweep", "wait", "close", "stopped", "panicked"}
  /\ n \in 1 .. MaxIov /\ left \in Nat
  /\ count \in [Entries -> 0 .. BatchSize]

(* Batches: a vector that is being read into or is given back is not also  *)
(* being worked through, an uplink that waits for its first packet has     *)
(* none and one that looks for more has some, and the generic loops have   *)
(* no batches at all.                                                      *)
Batches ==
  /\ left < n
  /\ recv \in {"read", "done"} => left = 0
  /\ \A e \in Entries : /\ up[e] \in {"none", "range"} => count[e] = 0
                        /\ up[e] = "next" => count[e] > 0
  /\ Batched => BatchNeitherEmptyNorOverrun /\ \A e \in Entries : up[e] # "extend"
  /\ ~Batched =>
       /\ left = 0
       /\ \A e \in Entries : count[e] = 0 /\ up[e] \notin {"next", "last", "nilDeref"}

(* The table: a session is its client's from the moment it is started      *)
(* until its channel is closed, which only the last of its steps do.       *)
Table ==
  /\ \A e \in Entries :
       /\ Alive(e) => csid[e] \in Csids
       /\ pc[e] \notin {"none", "drain"} => ~closed[e]
  /\ TableIsExact

(* The life of a session.  The uplink is there exactly from the start of   *)
(* the relay until it has emptied the closed channel; while there is none, *)
(* the packets of the channel are the session goroutine's to put back.     *)
LifeOf(e) ==
  /\ pc[e] \in SetupLabels => ~clean[e] /\ chan[e] > 0
  /\ pc[e] \in {"read", "write"} => clean[e]
  /\ pc[e] = "drain" => ~clean[e]
  /\ ~clean[e] => up[e] = "none"
  /\ clean[e] /\ pc[e] # "none" => up[e] # "none"
  /\ ~Alive(e) => chan[e] = 0
  /\ natConn[e] = "open" <=> pc[e] \in {"swap", "start", "read", "write"} \/ up[e] # "none"

Life == \A e \in Entries : LifeOf(e)

(* s.wg counts the session goroutines between RouterOk and DeferredWgDone  *)
(* and the uplinks.                                                        *)
CountedLabels == (SetupLabels \ {"router"}) \union {"read", "write", "wgDone"}
Counted == {e \in Entries : pc[e] \in CountedLabels}
Uplinks == {e \in Entries : up[e] # "none"}

GroupCounts == wg = Cardinality(Counted) + Cardinality(Uplinks)

(* Stop: no new sessions once it sweeps, and a session that was still      *)
(* being set up when it swept will find that out before it starts to relay.*)
Swept ==
  /\ stop \in {"sweep", "wait", "close", "stopped"} => recv = "done"
  /\ stop \in {"wait", "close", "stopped"} =>
       \A e \in Entries : pc[e] \in SetupLabels \ {"start"} => state[e] # "nil"
  /\ StopWaitsForRelays

(* What the cache says of the stored value: in the address-based relays    *)
(* they change together; in the session-based ones the cache is ahead when *)
(* its control message did not parse, and only then.                       *)
CacheAgrees(e) ==
  IF AddressBased THEN addrInfo[e] = FirstPktinfo(addrCache[e])
  ELSE addrInfo[e] = addrCache[e] \/ addrCache[e] \in Unparsable

(* Where replies go, from before the relay starts. *)
Replies ==
  /\ RepliesFollowClient
  /\ \A e \in Entries : InTable(e) => CacheAgrees(e)
  /\ ~Runs("nat") => \A e \in Entries :
       pc[e] # "none" => /\ replyTo[e] \in Addrs \ Unparsable
                         /\ addrInfo[e] \in Addrs \ Unparsable

IInv ==
  Types /\ Batches /\ Table /\ Life /\ GroupCounts /\ EveryPacketAccountedFor /\ Swept /\ Replies

-----------------------------------------------------------------------------
(* The steps of the four relays, by what they do to the shared state *)

RecvStep ==
  \/ ~Batched /\ (RecvGet \/ RecvRead \/ RecvDeadline) /\ UNCHANGED mmsgVars
  \/ Batched /\ (Fill \/ Recvmmsg \/ RecvmmsgFails \/ RecvmmsgDeadline \/ NextMessage)
  \/ (RecvBadPacket \/ NATBadPacket) /\ UNCHANGED mmsgVars

QueueStep(c, a) ==
  /\ (~AddressBased /\ RecvExisting(c, a)) \/ (AddressBased /\ NATExisting(c, a))
  /\ UNCHANGED mmsgVars

OpenStep(c, a) ==
  /\ \/ ~AddressBased /\ RecvNew(c, a)
     \/ AddressBased /\ NATNew(c, a) /\ (Batched => a # NoCmsg)
  /\ UNCHANGED mmsgVars

SetUpStep(e) ==
  /\ \/ RouterFails(e) \/ RouterOk(e) \/ NewClientSession(e) \/ NATNewClientSession(e)
     \/ NewPackerAEAD(e) \/ NewPackerBlock(e)
     \/ ListenUDP(e) \/ SwapState(e) \/ StartRelay(e)
  /\ UNCHANGED mmsgVars

DownStep(e) ==
  /\ \/ DownRead(e) \/ NATDownRead(e) \/ MmsgDownRead(e) \/ NATMmsgDownRead(e)
     \/ DownWrite(e) \/ NATDownWrite(e)
     \/ DownTimeout(e) \/ NatTimeout(e)
  /\ UNCHANGED mmsgVars

LeaveStep(e) == (DeferredWgDone(e) \/ Cleanup(e) \/ Drain(e)) /\ UNCHANGED mmsgVars

UplinkStep(e) ==
  \/ ~Batched /\ (UpPack(e) \/ UpWrite(e) \/ UpExtend(e)) /\ UNCHANGED mmsgVars
  \/ Batched /\ (MmsgUpPack(e) \/ MmsgUpNext(e) \/ MmsgUpWrite(e) \/ MmsgUpLogsError(e))
  \/ (UpReceive(e) \/ UpClose(e)) /\ UNCHANGED mmsgVars

StopStep == (StopBegin \/ StopRest \/ Finished) /\ UNCHANGED mmsgVars

Step ==
  \/ RecvStep
  \/ \E c \in Csids, a \in Addrs : QueueStep(c, a) \/ OpenStep(c, a)
  \/ \E e \in Entries :
       SetUpStep(e) \/ DownStep(e) \/ LeaveStep(e) \/ UplinkStep(e)
  \/ StopStep

(* Which relay runs is known from the setting. *)
LEMMA OneRelayRuns ==
  ASSUME setting \in Settings
  PROVE  /\ Runs("session")     => ~Batched /\ ~AddressBased
         /\ Runs("nat")         => ~Batched /\ AddressBased
         /\ Runs("sessionMmsg") => Batched /\ ~AddressBased
         /\ Runs("natMmsg")     => Batched /\ AddressBased
         /\ Batched /\ AddressBased => ~Runs("nat")
         /\ ~AddressBased => ~Runs("nat")
         /\ ~Batched /\ AddressBased => Runs("nat")
  <1>1. setting.relay \in Kinds
    BY SettingsAssumption
  <1> QED  BY <1>1 DEF Kinds, Runs, Batched, AddressBased

(* Every step of a relay is one of those above. *)
LEMMA Steps ==
  ASSUME setting \in Settings, NextRelays
  PROVE  Step /\ UNCHANGED setting
  <1>1. CASE Runs("session") /\ Next /\ UNCHANGED mmsgVars
    <2> USE DEF RecvHandle, SetUp, Leave, Uplink
    <2> QED  BY <1>1, OneRelayRuns DEF NextRelays, Next, Step, RecvStep, QueueStep, OpenStep,
              SetUpStep, DownStep, LeaveStep, UplinkStep, StopStep
  <1>2. CASE Runs("nat") /\ NATNext /\ UNCHANGED mmsgVars
    <2> USE DEF NATReceive, NATHandle, NATRouter, NATSetUp, NATLeave, NATUplink, NATStop, NATDownTimeout
    <2> QED  BY <1>2, OneRelayRuns DEF NextRelays, NATNext, Step, RecvStep, QueueStep, OpenStep,
              SetUpStep, DownStep, LeaveStep, UplinkStep, StopStep, StopRest
  <1>3. CASE Runs("sessionMmsg") /\ NextMmsg
    <2> USE DEF MmsgHandle, HandleBad, HandleExisting, HandleNew, MmsgRouter, MmsgSetUp, SetUp,
                MmsgDown, MmsgDownWrite, MmsgDownTimeout, MmsgLeave, MmsgUplink,
                MmsgUpReceive, MmsgUpClose, MmsgStop
    <2> QED  BY <1>3, OneRelayRuns DEF NextRelays, NextMmsg, Step, RecvStep, QueueStep, OpenStep,
              SetUpStep, DownStep, LeaveStep, UplinkStep, StopStep, MmsgDownRead, mmsgVars
  <1>4. CASE Runs("natMmsg") /\ NATMmsgNext
    <2> USE DEF NATMmsgReceive, NATMmsgHandle, NATMmsgBad, NATMmsgPacket, NATMmsgRouter, NATRouter,
                NATMmsgSetUp, NATSetUp, NATMmsgLeave, MmsgLeave, NATMmsgUplink, MmsgUpReceive,
                MmsgUpClose, NATMmsgDownWrite, NATMmsgDownTimeout, NATDownTimeout, NATMmsgStop, NATStop
    <2> QED  BY <1>4, OneRelayRuns DEF NextRelays, NATMmsgNext, Step, RecvStep, QueueStep, OpenStep,
              SetUpStep, DownStep, LeaveStep, UplinkStep, StopStep, StopRest, NATMmsgDownRead, mmsgVars
  <1> QED  BY <1>1, <1>2, <1>3, <1>4 DEF NextRelays

-----------------------------------------------------------------------------
(* Types *)

(* The types are kept. *)
LEMMA TypesStep ==
  ASSUME Types, Batches, Step, UNCHANGED setting
  PROVE  Types'
  <1> USE RelayAssumption, MmsgAssumption, NATAssumption
  <1> USE DEF Types, UpLabels, PcLabels, SetupLabels, Holding, addrVars, connVars, chanVars, wgVars,
              stopVars, recvSide, mmsgVars, sessionVars, stopOthers, RecvAt, At, UpAt, Goto, UpGoto,
              PutQueuedPacket, PutQueuedPackets, WgAdd, WgDone
  <1>1. CASE RecvStep
    <2>1. CASE RecvGet /\ UNCHANGED mmsgVars
      BY <2>1 DEF RecvGet
    <2>2. CASE RecvRead /\ UNCHANGED mmsgVars
      BY <2>2 DEF RecvRead
    <2>3. CASE RecvDeadline /\ UNCHANGED mmsgVars
      BY <2>3 DEF RecvDeadline
    <2>4. CASE Fill
      BY <2>4 DEF Fill
    <2>5. CASE Recvmmsg
      BY <2>5 DEF Recvmmsg, RecvRead
    <2>6. CASE RecvmmsgFails
      BY <2>6 DEF RecvmmsgFails
    <2>7. CASE RecvmmsgDeadline
      BY <2>7 DEF RecvmmsgDeadline
    <2>8. CASE NextMessage
      BY <2>8 DEF NextMessage
    <2>9. CASE RecvBadPacket /\ UNCHANGED mmsgVars
      BY <2>9 DEF RecvBadPacket
    <2>10. CASE NATBadPacket /\ UNCHANGED mmsgVars
      BY <2>10 DEF NATBadPacket
    <2> QED  BY <1>1, <2>1, <2>2, <2>3, <2>4, <2>5, <2>6, <2>7, <2>8, <2>9, <2>10 DEF RecvStep
  <1>2. ASSUME NEW c \in Csids, NEW a \in Addrs, QueueStep(c, a) PROVE Types'
    <2>1. CASE RecvExisting(c, a) /\ UNCHANGED mmsgVars
      <3>1. table[c] \in Entries
        BY <2>1 DEF RecvExisting
      <3>2. chan' \in [Entries -> 0 .. Capacity] /\ out' \in Int
        <4>1. (UNCHANGED chan /\ PutQueuedPacket) \/ Enqueue(table[c])
          BY <2>1 DEF RecvExisting
        <4> QED  BY <3>1, <4>1 DEF Enqueue
      <3>3. /\ addrCache' \in [Entries -> Addrs \union {None}]
            /\ addrInfo' \in [Entries -> Addrs \union {None}]
            /\ lastParsed' \in [Entries -> Addrs \union {None}]
        BY <2>1, <3>1, SMTT(30) DEF RecvExisting, Heard
      <3> QED  BY <2>1, <3>2, <3>3 DEF RecvExisting
    <2>2. CASE NATExisting(c, a) /\ UNCHANGED mmsgVars
      <3>1. table[c] \in Entries
        BY <2>2 DEF NATExisting
      <3>2. chan' \in [Entries -> 0 .. Capacity] /\ out' \in Int
        <4>1. (UNCHANGED chan /\ PutQueuedPacket) \/ Enqueue(table[c])
          BY <2>2 DEF NATExisting
        <4> QED  BY <3>1, <4>1 DEF Enqueue
      <3>3. /\ addrCache' \in [Entries -> Addrs \union {None}]
            /\ addrInfo' \in [Entries -> Addrs \union {None}]
        <4>1. \/ UNCHANGED <<addrCache, addrInfo>>
              \/ /\ addrCache' = [addrCache EXCEPT ![table[c]] = a]
                 /\ addrInfo' = [addrInfo EXCEPT ![table[c]] = a]
          BY <2>2 DEF NATExisting
        <4>2. CASE UNCHANGED <<addrCache, addrInfo>>
          BY <4>2
        <4>3. CASE /\ addrCache' = [addrCache EXCEPT ![table[c]] = a]
                   /\ addrInfo' = [addrInfo EXCEPT ![table[c]] = a]
          BY <3>1, <4>3
        <4> QED  BY <4>1, <4>2, <4>3
      <3>4. lastParsed' \in [Entries -> Addrs \union {None}]
        BY <2>2, <3>1 DEF NATExisting, Heard
      <3> QED  BY <2>2, <3>2, <3>3, <3>4 DEF NATExisting
    <2> QED  BY <1>2, <2>1, <2>2 DEF QueueStep
  <1>3. ASSUME NEW c \in Csids, NEW a \in Addrs, OpenStep(c, a) PROVE Types'
    <2>1. CASE RecvNew(c, a) /\ UNCHANGED mmsgVars
      <3>1. CASE a \in Unparsable
        BY <2>1, <3>1 DEF RecvNew
      <3>2. CASE ~(a \in Unparsable)
        <4>1. PICK e \in Entries :
                /\ table' = [table EXCEPT ![c] = e]
                /\ pc' = [pc EXCEPT ![e] = "router"]
                /\ csid' = [csid EXCEPT ![e] = c]
                /\ chan' = [chan EXCEPT ![e] = 1]
                /\ closed' = [closed EXCEPT ![e] = FALSE]
                /\ clean' = [clean EXCEPT ![e] = FALSE]
                /\ state' = [state EXCEPT ![e] = "nil"]
                /\ natConn' = [natConn EXCEPT ![e] = "none"]
                /\ deadline' = [deadline EXCEPT ![e] = "armed"]
                /\ key' = [key EXCEPT ![e] = <<None, None>>]
                /\ addrCache' = [addrCache EXCEPT ![e] = a]
                /\ addrInfo' = [addrInfo EXCEPT ![e] = a]
                /\ Heard(e, a)
                /\ replyTo' = [replyTo EXCEPT ![e] = a]
          BY <2>1, <3>2 DEF RecvNew
        <4>2. /\ recv' = "get" /\ user' \in Users \union {None}
              /\ UNCHANGED <<out, stopVars, up, wgVars>>
          BY <2>1, <3>2 DEF RecvNew
        <4>3. /\ table' \in [Csids -> Entries \union {None}]
              /\ pc' \in [Entries -> PcLabels]
              /\ csid' \in [Entries -> Csids \union {None}]
              /\ chan' \in [Entries -> 0 .. Capacity]
              /\ closed' \in [Entries -> BOOLEAN] /\ clean' \in [Entries -> BOOLEAN]
          BY <4>1
        <4>4. /\ state' \in [Entries -> {"nil", "natConn", "serverConn"}]
              /\ natConn' \in [Entries -> {"none", "open", "closed"}]
              /\ deadline' \in [Entries -> {"armed", "expired"}]
              /\ key' \in [Entries -> (Users \union {None}) \X (Users \union {None})]
          BY <4>1, <4>2
        <4>5. /\ addrCache' \in [Entries -> Addrs \union {None}]
              /\ addrInfo' \in [Entries -> Addrs \union {None}]
              /\ lastParsed' \in [Entries -> Addrs \union {None}]
              /\ replyTo' \in [Entries -> Addrs \union {None}]
          BY <4>1 DEF Heard
        <4> QED  BY <2>1, <4>2, <4>3, <4>4, <4>5
      <3> QED  BY <3>1, <3>2
    <2>2. CASE NATNew(c, a) /\ UNCHANGED mmsgVars
      <3>0. FirstPktinfo(a) \in Addrs \union {None}
        BY DEF FirstPktinfo
      <3>1. CASE a \in Unparsable \ {NoCmsg}
        BY <2>2, <3>1 DEF NATNew
      <3>2. CASE ~(a \in Unparsable \ {NoCmsg})
        <4>1. PICK e \in Entries :
                /\ table' = [table EXCEPT ![c] = e]
                /\ pc' = [pc EXCEPT ![e] = "router"]
                /\ csid' = [csid EXCEPT ![e] = c]
                /\ chan' = [chan EXCEPT ![e] = 1]
                /\ closed' = [closed EXCEPT ![e] = FALSE]
                /\ clean' = [clean EXCEPT ![e] = FALSE]
                /\ state' = [state EXCEPT ![e] = "nil"]
                /\ natConn' = [natConn EXCEPT ![e] = "none"]
                /\ deadline' = [deadline EXCEPT ![e] = "armed"]
                /\ addrCache' = [addrCache EXCEPT ![e] = a]
                /\ addrInfo' = [addrInfo EXCEPT ![e] = FirstPktinfo(a)]
                /\ lastParsed' = [lastParsed EXCEPT ![e] = FirstPktinfo(a)]
                /\ replyTo' = [replyTo EXCEPT ![e] = FirstPktinfo(a)]
          BY <2>2, <3>2 DEF NATNew
        <4>2. /\ recv' = "get" /\ user' \in Users \union {None}
              /\ UNCHANGED <<out, stopVars, up, wgVars, key>>
          BY <2>2, <3>2 DEF NATNew
        <4>3. /\ table' \in [Csids -> Entries \union {None}]
              /\ pc' \in [Entries -> PcLabels]
              /\ csid' \in [Entries -> Csids \union {None}]
              /\ chan' \in [Entries -> 0 .. Capacity]
              /\ closed' \in [Entries -> BOOLEAN] /\ clean' \in [Entries -> BOOLEAN]
          BY <4>1
        <4>4. /\ state' \in [Entries -> {"nil", "natConn", "serverConn"}]
              /\ natConn' \in [Entries -> {"none", "open", "closed"}]
              /\ deadline' \in [Entries -> {"armed", "expired"}]
              /\ key' \in [Entries -> (Users \union {None}) \X (Users \union {None})]
          BY <4>1, <4>2
        <4>5. /\ addrCache' \in [Entries -> Addrs \union {None}]
              /\ addrInfo' \in [Entries -> Addrs \union {None}]
              /\ lastParsed' \in [Entries -> Addrs \union {None}]
              /\ replyTo' \in [Entries -> Addrs \union {None}]
          BY <4>1, <3>0
        <4> QED  BY <2>2, <4>2, <4>3, <4>4, <4>5
      <3> QED  BY <3>1, <3>2
    <2> QED  BY <1>3, <2>1, <2>2 DEF OpenStep
  <1>4. ASSUME NEW e \in Entries, SetUpStep(e) PROVE Types'
    <2>1. CASE RouterFails(e) /\ UNCHANGED mmsgVars
      BY <2>1 DEF RouterFails
    <2>2. CASE RouterOk(e) /\ UNCHANGED mmsgVars
      BY <2>2 DEF RouterOk
    <2>3. CASE NewClientSession(e) /\ UNCHANGED mmsgVars
      BY <2>3 DEF NewClientSession
    <2>4. CASE NATNewClientSession(e) /\ UNCHANGED mmsgVars
      BY <2>4 DEF NATNewClientSession
    <2>5. CASE NewPackerAEAD(e) /\ UNCHANGED mmsgVars
      BY <2>5, SMTT(40) DEF NewPackerAEAD
    <2>6. CASE NewPackerBlock(e) /\ UNCHANGED mmsgVars
      BY <2>6, SMTT(40) DEF NewPackerBlock
    <2>7. CASE ListenUDP(e) /\ UNCHANGED mmsgVars
      <3>1. CASE UNCHANGED natConn
        <4>1. pc' = [pc EXCEPT ![e] = "swap"] \/ pc' = [pc EXCEPT ![e] = "wgDone"]
          BY <2>7 DEF ListenUDP
        <4>2. pc' \in [Entries -> PcLabels]
          BY <4>1
        <4>3. UNCHANGED <<recvSide, out, stopVars, up, chanVars, connVars, key, replyTo, wgVars, mmsgVars>>
          BY <2>7, <3>1 DEF ListenUDP
        <4> QED  BY <4>2, <4>3
      <3>2. CASE natConn' = [natConn EXCEPT ![e] = "open"]
        BY <2>7, <3>2, ZenonT(40) DEF ListenUDP
      <3> QED  BY <2>7, <3>1, <3>2 DEF ListenUDP
    <2>8. CASE SwapState(e) /\ UNCHANGED mmsgVars
      BY <2>8, SMTT(60) DEF SwapState
    <2>9. CASE StartRelay(e) /\ UNCHANGED mmsgVars
      BY <2>9 DEF StartRelay
    <2> QED  BY <1>4, <2>1, <2>2, <2>3, <2>4, <2>5, <2>6, <2>7, <2>8, <2>9 DEF SetUpStep
  <1>5. ASSUME NEW e \in Entries, DownStep(e) PROVE Types'
    <2>1. CASE DownRead(e) /\ UNCHANGED mmsgVars
      BY <2>1 DEF DownRead
    <2>2. CASE NATDownRead(e) /\ UNCHANGED mmsgVars
      BY <2>2 DEF NATDownRead
    <2>3. CASE MmsgDownRead(e) /\ UNCHANGED mmsgVars
      BY <2>3, SMTT(20) DEF MmsgDownRead
    <2>4. CASE NATMmsgDownRead(e) /\ UNCHANGED mmsgVars
      BY <2>4, SMTT(40) DEF NATMmsgDownRead
    <2>5. CASE DownWrite(e) /\ UNCHANGED mmsgVars
      BY <2>5 DEF DownWrite
    <2>6. CASE NATDownWrite(e) /\ UNCHANGED mmsgVars
      BY <2>6 DEF NATDownWrite
    <2>7. CASE DownTimeout(e) /\ UNCHANGED mmsgVars
      BY <2>7 DEF DownTimeout
    <2>8. CASE NatTimeout(e) /\ UNCHANGED mmsgVars
      BY <2>8 DEF NatTimeout
    <2> QED  BY <1>5, <2>1, <2>2, <2>3, <2>4, <2>5, <2>6, <2>7, <2>8 DEF DownStep
  <1>6. ASSUME NEW e \in Entries, LeaveStep(e) PROVE Types'
    <2>1. CASE DeferredWgDone(e) /\ UNCHANGED mmsgVars
      BY <2>1 DEF DeferredWgDone
    <2>2. CASE Cleanup(e) /\ UNCHANGED mmsgVars
      BY <2>2, ZenonT(40) DEF Cleanup
    <2>3. CASE Drain(e) /\ UNCHANGED mmsgVars
      <3>1. CASE chan[e] > 0
        BY <2>3, <3>1, SMTT(20) DEF Drain
      <3>2. CASE chan[e] = 0
        BY <2>3, <3>2 DEF Drain
      <3> QED  BY <3>1, <3>2
    <2> QED  BY <1>6, <2>1, <2>2, <2>3 DEF LeaveStep
  <1>7. ASSUME NEW e \in Entries, UplinkStep(e) PROVE Types'
    <2>1. CASE UpPack(e) /\ UNCHANGED mmsgVars
      <3>1. up' \in [Entries -> UpLabels] /\ out' \in Int
        <4>1. \/ up' = [up EXCEPT ![e] = "write"] /\ UNCHANGED out
              \/ up' = [up EXCEPT ![e] = "range"] /\ PutQueuedPacket
          BY <2>1 DEF UpPack
        <4> QED  BY <4>1, SMTT(40)
      <3> QED  BY <2>1, <3>1 DEF UpPack
    <2>2. CASE UpWrite(e) /\ UNCHANGED mmsgVars
      BY <2>2 DEF UpWrite
    <2>3. CASE UpExtend(e) /\ UNCHANGED mmsgVars
      BY <2>3 DEF UpExtend
    <2>4. CASE Batched /\ MmsgUpPack(e)
      <3>1. count[e] + 1 \in 0 .. BatchSize
        BY <2>4 DEF MmsgUpPack, Batches, BatchNeitherEmptyNorOverrun
      <3>2. count' \in [Entries -> 0 .. BatchSize] /\ up' \in [Entries -> UpLabels] /\ out' \in Int
        <4>1. count' \in [Entries -> 0 .. BatchSize]
          BY <2>4, <3>1, SMTT(20) DEF MmsgUpPack
        <4>2. up' \in [Entries -> UpLabels]
          <5>1. \E l \in {"write", "next", "range"} : up' = [up EXCEPT ![e] = l]
            BY <2>4 DEF MmsgUpPack
          <5> QED  BY <5>1
        <4>3. out' \in Int
          BY <2>4 DEF MmsgUpPack
        <4> QED  BY <4>1, <4>2, <4>3
      <3> QED  BY <2>4, <3>2 DEF MmsgUpPack, uplinkOthers
    <2>5. CASE MmsgUpNext(e)
      <3>1. CASE chan[e] > 0
        <4>1. chan' = [chan EXCEPT ![e] = @ - 1] /\ up' = [up EXCEPT ![e] = "pack"]
          BY <2>5, <3>1 DEF MmsgUpNext
        <4>2. chan' \in [Entries -> 0 .. Capacity] /\ up' \in [Entries -> UpLabels]
          BY <3>1, <4>1
        <4> QED  BY <2>5, <4>2 DEF MmsgUpNext, uplinkOthers
      <3>2. CASE chan[e] = 0
        BY <2>5, <3>2 DEF MmsgUpNext, uplinkOthers
      <3> QED  BY <3>1, <3>2
    <2>6. CASE MmsgUpWrite(e)
      BY <2>6 DEF MmsgUpWrite, uplinkOthers
    <2>7. CASE MmsgUpLogsError(e)
      BY <2>7 DEF MmsgUpLogsError, uplinkOthers
    <2>8. CASE UpReceive(e) /\ UNCHANGED mmsgVars
      BY <2>8 DEF UpReceive
    <2>9. CASE UpClose(e) /\ UNCHANGED mmsgVars
      BY <2>9 DEF UpClose
    <2> QED  BY <1>7, <2>1, <2>2, <2>3, <2>4, <2>5, <2>6, <2>7, <2>8, <2>9 DEF UplinkStep
  <1>8. CASE StopStep
    <2>1. CASE StopBegin /\ UNCHANGED mmsgVars
      BY <2>1 DEF StopBegin
    <2>2. CASE StopMwgWait /\ UNCHANGED mmsgVars
      BY <2>2 DEF StopMwgWait
    <2>3. CASE StopSweep /\ UNCHANGED mmsgVars
      BY <2>3 DEF StopSweep
    <2>4. CASE StopWgWait /\ UNCHANGED mmsgVars
      BY <2>4 DEF StopWgWait
    <2>5. CASE StopWgReturn /\ UNCHANGED mmsgVars
      BY <2>5 DEF StopWgReturn
    <2>6. CASE StopClose /\ UNCHANGED mmsgVars
      BY <2>6 DEF StopClose
    <2>7. CASE Finished /\ UNCHANGED mmsgVars
      BY <2>7 DEF Finished, vars
    <2> QED  BY <1>8, <2>1, <2>2, <2>3, <2>4, <2>5, <2>6, <2>7 DEF StopStep, StopRest
  <1> QED  BY <1>1, <1>2, <1>3, <1>4, <1>5, <1>6, <1>7, <1>8 DEF Step


-----------------------------------------------------------------------------
(* Batches *)

(* A step of a session's goroutine leaves the receive loop alone, one of   *)
(* the receive loop or Stop leaves the uplinks alone.                      *)
LEMMA BatchesStep ==
  ASSUME Types, Batches, Life, Step, UNCHANGED setting
  PROVE  Batches'
  <1> USE RelayAssumption, MmsgAssumption
  <1> USE DEF addrVars, connVars, chanVars, wgVars, stopVars, recvSide, mmsgVars, sessionVars,
              stopOthers, RecvAt, At, UpAt, UpGoto, BatchNeitherEmptyNorOverrun, Batched
  <1>t. count \in [Entries -> 0 .. BatchSize] /\ up \in [Entries -> UpLabels]
    BY DEF Types
  <1>0. ASSUME UNCHANGED <<up, count>>, n' \in Nat, left' \in Nat, left' < n',
               recv' \in {"read", "done"} => left' = 0, ~Batched => left' = 0
        PROVE  Batches'
    BY <1>0 DEF Batches
  <1>1. CASE RecvStep
    <2>1. UNCHANGED <<up, count>> /\ n' \in Nat /\ left' \in Nat /\ left' < n'
      BY <1>1 DEF RecvStep, RecvGet, RecvRead, RecvDeadline, Fill, Recvmmsg, RecvmmsgFails,
                  RecvmmsgDeadline, NextMessage, RecvBadPacket, NATBadPacket, Types, Batches
    <2>2. (recv' \in {"read", "done"} => left' = 0) /\ (~Batched => left' = 0)
      BY <1>1 DEF RecvStep, RecvGet, RecvRead, RecvDeadline, Fill, Recvmmsg, RecvmmsgFails,
                  RecvmmsgDeadline, NextMessage, RecvBadPacket, NATBadPacket, Types, Batches
    <2> QED  BY <1>0, <2>1, <2>2
  <1>2. ASSUME NEW c \in Csids, NEW a \in Addrs, QueueStep(c, a) \/ OpenStep(c, a) PROVE Batches'
    <2>1. UNCHANGED <<up, count, n, left>> /\ recv' = "get"
      BY <1>2 DEF QueueStep, OpenStep, RecvExisting, NATExisting, RecvNew, NATNew
    <2> QED  BY <1>0, <2>1 DEF Types, Batches
  <1>3. ASSUME UNCHANGED <<recv, n, left, up, count>> PROVE Batches'
    BY <1>0, <1>3 DEF Types, Batches
  <1>4. ASSUME NEW e \in Entries, SetUpStep(e) PROVE Batches'
    <2>1. CASE StartRelay(e) /\ UNCHANGED mmsgVars
      <3>1. up[e] = "none"
        BY <2>1 DEF StartRelay, Life, LifeOf, SetupLabels
      <3>2. count[e] = 0
        BY <3>1 DEF Batches
      <3> QED  BY <2>1, <3>1, <3>2 DEF StartRelay, Types, Batches
    <2>2. CASE ~ StartRelay(e)
      <3>1. UNCHANGED <<recv, n, left, up, count>>
        BY <1>4, <2>2 DEF SetUpStep, RouterFails, RouterOk, NewClientSession, NATNewClientSession,
                          NewPackerAEAD, NewPackerBlock, ListenUDP, SwapState
      <3> QED  BY <1>3, <3>1
    <2> QED  BY <1>4, <2>1, <2>2 DEF SetUpStep
  <1>5. ASSUME NEW e \in Entries, DownStep(e) \/ LeaveStep(e) PROVE Batches'
    <2>1. UNCHANGED <<recv, n, left, up, count>>
      BY <1>5 DEF DownStep, DownRead, NATDownRead, MmsgDownRead, NATMmsgDownRead, DownWrite,
                  NATDownWrite, DownTimeout, NatTimeout, LeaveStep, DeferredWgDone, Cleanup, Drain
    <2> QED  BY <1>3, <2>1
  <1>6. ASSUME NEW e \in Entries, UplinkStep(e) PROVE Batches'
    <2>1. UNCHANGED <<recv, n, left>>
      BY <1>6 DEF UplinkStep, UpPack, UpWrite, UpExtend, UpReceive, UpClose, MmsgUpPack,
                  MmsgUpNext, MmsgUpWrite, MmsgUpLogsError, uplinkOthers
    <2>2. CASE ~Batched
      <3>1. /\ UNCHANGED count
            /\ \/ up' = [up EXCEPT ![e] = "pack"] \/ up' = [up EXCEPT ![e] = "write"]
               \/ up' = [up EXCEPT ![e] = "range"] \/ up' = [up EXCEPT ![e] = "extend"]
               \/ up' = [up EXCEPT ![e] = "none"]
        BY <1>6, <2>2 DEF UplinkStep, UpPack, UpWrite, UpExtend, UpReceive, UpClose
      <3> QED  BY <2>1, <2>2, <3>1 DEF Types, Batches
    <2>3. CASE Batched
      <3>1. CASE (UpReceive(e) \/ UpClose(e)) /\ UNCHANGED mmsgVars
        <4>1. count[e] = 0
          BY <3>1 DEF UpReceive, UpClose, Batches
        <4> QED  BY <2>3, <3>1, <4>1 DEF UpReceive, UpClose, Types, Batches
      <3>2. CASE MmsgUpPack(e)
        <4>1. count[e] \in 0 .. BatchSize - 1
          BY <2>3, <3>2 DEF MmsgUpPack, Types, Batches
        <4>2. CASE count' = [count EXCEPT ![e] = @ + 1]
          <5>1. up' = [up EXCEPT ![e] = IF count[e] + 1 = BatchSize THEN "write" ELSE "next"]
            BY <3>2, <4>1, <4>2 DEF MmsgUpPack, Types
          <5>2. CASE count[e] + 1 = BatchSize
            BY <2>1, <2>3, <4>1, <4>2, <5>1, <5>2 DEF Types, Batches
          <5>3. CASE count[e] + 1 # BatchSize
            <6>1. count'[e] \in 1 .. BatchSize - 1 /\ up'[e] = "next"
              BY <1>t, <4>1, <4>2, <5>1, <5>3
            <6>2. \A x \in Entries : x # e => count'[x] = count[x] /\ up'[x] = up[x]
              BY <1>t, <4>2, <5>1
            <6> QED  BY <1>t, <2>1, <2>3, <6>1, <6>2 DEF Batches
          <5> QED  BY <5>2, <5>3
        <4>3. CASE UNCHANGED count
          <5>1. up' = [up EXCEPT ![e] = IF count[e] = 0 THEN "range" ELSE "next"]
            BY <3>2, <4>1, <4>3 DEF MmsgUpPack, Types
          <5> QED  BY <2>1, <2>3, <4>1, <4>3, <5>1 DEF Types, Batches
        <4> QED  BY <3>2, <4>2, <4>3 DEF MmsgUpPack
      <3>3. CASE MmsgUpNext(e)
        <4>1. count[e] \in 1 .. BatchSize - 1
          BY <2>3, <3>3 DEF MmsgUpNext, Types, Batches
        <4> QED  BY <2>1, <2>3, <3>3, <4>1 DEF MmsgUpNext, Types, Batches
      <3>4. CASE MmsgUpWrite(e)
        BY <2>1, <2>3, <3>4 DEF MmsgUpWrite, Types, Batches
      <3>5. CASE MmsgUpLogsError(e)
        BY <2>1, <2>3, <3>5 DEF MmsgUpLogsError, Types, Batches
      <3> QED  BY <1>6, <2>3, <3>1, <3>2, <3>3, <3>4, <3>5 DEF UplinkStep
    <2> QED  BY <2>2, <2>3
  <1>7. CASE StopStep
    <2>1. UNCHANGED <<recv, n, left, up, count>>
      BY <1>7 DEF StopStep, StopRest, StopBegin, StopMwgWait, StopSweep, StopWgWait, StopWgReturn,
                  StopClose, Finished, vars
    <2> QED  BY <1>3, <2>1
  <1> QED  BY <1>1, <1>2, <1>4, <1>5, <1>6, <1>7 DEF Step

-----------------------------------------------------------------------------
(* The table *)

(* Only OpenStep and Cleanup change the table; no other step ends a        *)
(* session that is in it or brings one to life.                            *)
LEMMA TableStep ==
  ASSUME Types, Table, Step, UNCHANGED setting
  PROVE  Table'
  <1> USE DEF addrVars, connVars, chanVars, wgVars, stopVars, recvSide, mmsgVars, sessionVars,
              stopOthers, RecvAt, At, UpAt, UpGoto, Goto
  <1>t. /\ table \in [Csids -> Entries \union {None}] /\ csid \in [Entries -> Csids \union {None}]
        /\ closed \in [Entries -> BOOLEAN]
        /\ pc \in [Entries -> PcLabels] /\ up \in [Entries -> UpLabels]
        /\ None \notin Entries
    BY RelayAssumption DEF Types
  <1> DEFINE Open(x) == pc[x] \notin {"none", "drain"}
  <1>0. ASSUME UNCHANGED <<table, csid, closed>>,
               \A x \in Entries : Open(x)' = Open(x) /\ (Alive(x)' => Alive(x))
        PROVE  Table'
    BY <1>t, <1>0 DEF Table, TableIsExact, TableHoldsLiveSessions, OneOpenSessionPerClient, Alive
  <1>1. CASE UNCHANGED <<table, csid, closed, pc, up>>
    BY <1>0, <1>1 DEF Alive
  <1>2. ASSUME NEW e \in Entries, UNCHANGED <<table, csid, closed, up>>,
               NEW l \in PcLabels \ {"none", "drain"}, pc' = [pc EXCEPT ![e] = l], Open(e)
        PROVE  Table'
    <2>1. \A x \in Entries : Open(x)' = Open(x) /\ (Alive(x)' => Alive(x))
      BY <1>t, <1>2 DEF Alive
    <2> QED  BY <1>0, <1>2, <2>1
  <1>3. CASE RecvStep
    BY <1>1, <1>3 DEF RecvStep, RecvGet, RecvRead, RecvDeadline, Fill, Recvmmsg, RecvmmsgFails,
                RecvmmsgDeadline, NextMessage, RecvBadPacket, NATBadPacket
  <1>4. ASSUME NEW c \in Csids, NEW a \in Addrs, QueueStep(c, a) PROVE Table'
    BY <1>1, <1>4 DEF QueueStep, RecvExisting, NATExisting
  <1>5. ASSUME NEW c \in Csids, NEW a \in Addrs, OpenStep(c, a) PROVE Table'
    <2>1. CASE UNCHANGED <<table, pc, csid, chanVars, connVars, addrVars, replyTo>>
      BY <1>1, <1>5, <2>1 DEF OpenStep, RecvNew, NATNew
    <2>2. CASE \E e \in Entries :
                 /\ pc[e] = "none" /\ up[e] = "none"
                 /\ table' = [table EXCEPT ![c] = e]
                 /\ pc' = [pc EXCEPT ![e] = "router"]
                 /\ csid' = [csid EXCEPT ![e] = c]
                 /\ closed' = [closed EXCEPT ![e] = FALSE]
      <3>1. PICK e \in Entries :
                 /\ pc[e] = "none" /\ up[e] = "none"
                 /\ table' = [table EXCEPT ![c] = e]
                 /\ pc' = [pc EXCEPT ![e] = "router"]
                 /\ csid' = [csid EXCEPT ![e] = c]
                 /\ closed' = [closed EXCEPT ![e] = FALSE]
        BY <2>2
      <3>2. UNCHANGED up /\ table[c] = None
        BY <1>5 DEF OpenStep, RecvNew, NATNew
      <3>3. \A d \in Csids : table[d] # e
        BY <1>t, <3>1 DEF Table, TableIsExact, TableHoldsLiveSessions
      <3>4. TableHoldsLiveSessions'
        BY <1>t, <3>1, <3>3 DEF Table, TableIsExact, TableHoldsLiveSessions
      <3>5. \A x \in Entries : (Alive(x) => csid[x] \in Csids)' /\ (Open(x) => ~closed[x])'
        BY <1>t, <3>1, <3>2 DEF Table, Alive
      <3>6. OneOpenSessionPerClient'
        BY <1>t, <3>1, <3>2 DEF Table, TableIsExact, OneOpenSessionPerClient
      <3> QED  BY <3>4, <3>5, <3>6 DEF Table, TableIsExact
    <2> QED  BY <1>5, <2>1, <2>2 DEF OpenStep, RecvNew, NATNew
  <1>6. ASSUME NEW e \in Entries, SetUpStep(e) PROVE Table'
    <2>1. CASE StartRelay(e)
      <3>1. \A x \in Entries : Open(x)' = Open(x) /\ (Alive(x)' => Alive(x))
        BY <1>t, <2>1 DEF Alive, StartRelay
      <3> QED  BY <1>0, <2>1, <3>1 DEF StartRelay
    <2>2. CASE ~ StartRelay(e)
      <3>1. UNCHANGED <<table, csid, closed, up>> /\ Open(e)
        BY <1>6, <2>2 DEF SetUpStep, RouterFails, RouterOk, NewClientSession, NATNewClientSession,
                          NewPackerAEAD, NewPackerBlock, ListenUDP, SwapState
      <3>2. \E l \in PcLabels \ {"none", "drain"} : pc' = [pc EXCEPT ![e] = l]
        BY <1>6, <2>2 DEF SetUpStep, RouterFails, RouterOk, NewClientSession, NATNewClientSession,
                    NewPackerAEAD, NewPackerBlock, ListenUDP, SwapState, PcLabels, SetupLabels
      <3> QED  BY <1>2, <3>1, <3>2
    <2> QED  BY <2>1, <2>2
  <1>7. ASSUME NEW e \in Entries, DownStep(e) PROVE Table'
    <2>1. CASE NatTimeout(e)
      BY <1>1, <2>1 DEF NatTimeout
    <2>2. CASE ~ NatTimeout(e)
      <3>1. UNCHANGED <<table, csid, closed, up>> /\ Open(e)
        BY <1>7, <2>2 DEF DownStep, DownRead, NATDownRead, MmsgDownRead, NATMmsgDownRead, DownWrite,
                          NATDownWrite, DownTimeout
      <3>2. \E l \in PcLabels \ {"none", "drain"} : pc' = [pc EXCEPT ![e] = l]
        BY <1>7, <2>2 DEF DownStep, DownRead, NATDownRead, MmsgDownRead, NATMmsgDownRead, DownWrite,
                          NATDownWrite, DownTimeout, PcLabels, SetupLabels
      <3> QED  BY <1>2, <3>1, <3>2
    <2> QED  BY <2>1, <2>2
  <1>8. ASSUME NEW e \in Entries, LeaveStep(e) PROVE Table'
    <2>1. CASE DeferredWgDone(e)
      BY <1>2, <2>1 DEF DeferredWgDone, PcLabels
    <2>2. CASE Cleanup(e)
      <3>1. /\ UNCHANGED <<csid, up>> /\ Open(e)
            /\ closed' = [closed EXCEPT ![e] = TRUE]
            /\ table' = [table EXCEPT ![csid[e]] = None]
        BY <2>2 DEF Cleanup
      <3>2. \A x \in Entries \ {e} : pc'[x] = pc[x]
        BY <1>t, <2>2 DEF Cleanup
      <3>3. pc'[e] \in {"none", "drain"}
        BY <1>t, <2>2 DEF Cleanup
      <3>4. csid[e] \in Csids /\ table[csid[e]] = e
        BY <3>1 DEF Table, TableIsExact, OneOpenSessionPerClient, Alive
      <3>5. \A d \in Csids : d # csid[e] => table'[d] = table[d] /\ table[d] # e
        BY <1>t, <3>1, <3>4 DEF Table, TableIsExact, TableHoldsLiveSessions
      <3>6. TableHoldsLiveSessions'
        BY <1>t, <3>1, <3>2, <3>4, <3>5 DEF Table, TableIsExact, TableHoldsLiveSessions
      <3>7. \A x \in Entries : (Alive(x) => csid[x] \in Csids)' /\ (Open(x) => ~closed[x])'
        BY <1>t, <3>1, <3>2, <3>3, <3>4 DEF Table, Alive
      <3>8. ASSUME NEW x \in Entries, Alive(x)', ~closed'[x] PROVE table'[csid'[x]] = x
        <4>1. x # e /\ Alive(x) /\ ~closed[x]
          BY <1>t, <3>1, <3>2, <3>8 DEF Alive
        <4>2. csid[x] \in Csids /\ table[csid[x]] = x
          BY <4>1 DEF Table, TableIsExact, OneOpenSessionPerClient, Alive
        <4> QED  BY <1>t, <3>1, <3>4, <4>1, <4>2
      <3> QED  BY <3>6, <3>7, <3>8 DEF Table, TableIsExact, OneOpenSessionPerClient, Alive
    <2>3. CASE Drain(e)
      <3>1. UNCHANGED <<table, csid, closed, up>>
        BY <2>3 DEF Drain
      <3>2. \A x \in Entries : Open(x)' = Open(x) /\ (Alive(x)' => Alive(x))
        BY <1>t, <2>3 DEF Alive, Drain
      <3> QED  BY <1>0, <3>1, <3>2
    <2> QED  BY <1>8, <2>1, <2>2, <2>3 DEF LeaveStep
  <1>9. ASSUME NEW e \in Entries, UplinkStep(e) PROVE Table'
    <2>1. UNCHANGED <<table, csid, closed, pc>> /\ up[e] # "none"
      BY <1>9 DEF UplinkStep, UpPack, UpWrite, UpExtend, UpReceive, UpClose, MmsgUpPack,
                  MmsgUpNext, MmsgUpWrite, MmsgUpLogsError, uplinkOthers
    <2>2. \E l : up' = [up EXCEPT ![e] = l]
      BY <1>9 DEF UplinkStep, UpPack, UpWrite, UpExtend, UpReceive, UpClose, MmsgUpPack,
                  MmsgUpNext, MmsgUpWrite, MmsgUpLogsError
    <2>3. \A x \in Entries : Open(x)' = Open(x) /\ (Alive(x)' => Alive(x))
      BY <1>t, <2>1, <2>2 DEF Alive
    <2> QED  BY <1>0, <2>1, <2>3
  <1>10. CASE StopStep
    BY <1>1, <1>10 DEF StopStep, StopRest, StopBegin, StopMwgWait, StopSweep, StopWgWait,
                  StopWgReturn, StopClose, Finished, vars
  <1> QED  BY <1>3, <1>4, <1>5, <1>6, <1>7, <1>8, <1>9, <1>10 DEF Step

-----------------------------------------------------------------------------
(* The life of a session *)

(* A step is about one session at most, whose life goes on. *)
LEMMA LifeStep ==
  ASSUME Types, Batches, Table, Life, Step, UNCHANGED setting
  PROVE  Life'
  <1> USE DEF addrVars, connVars, chanVars, wgVars, stopVars, recvSide, mmsgVars, sessionVars,
              stopOthers, RecvAt, At, UpAt, UpGoto, Goto, Alive, SetupLabels
  <1>t. /\ pc \in [Entries -> PcLabels] /\ up \in [Entries -> UpLabels]
        /\ chan \in [Entries -> Nat] /\ clean \in [Entries -> BOOLEAN]
        /\ natConn \in [Entries -> {"none", "open", "closed"}]
    BY RelayAssumption DEF Types
  <1>0. CASE UNCHANGED <<pc, up, chan, clean, natConn>>
    BY <1>0 DEF Life, LifeOf
  <1>1. ASSUME NEW e \in Entries, LifeOf(e)',
               \A x \in Entries \ {e} :
                 /\ pc'[x] = pc[x] /\ up'[x] = up[x] /\ chan'[x] = chan[x]
                 /\ clean'[x] = clean[x] /\ natConn'[x] = natConn[x]
        PROVE  Life'
    BY <1>1 DEF Life, LifeOf
  <1>2. CASE RecvStep
    BY <1>0, <1>2 DEF RecvStep, RecvGet, RecvRead, RecvDeadline, Fill, Recvmmsg, RecvmmsgFails,
                RecvmmsgDeadline, NextMessage, RecvBadPacket, NATBadPacket
  <1>3. ASSUME NEW c \in Csids, NEW a \in Addrs, QueueStep(c, a) PROVE Life'
    <2>1. UNCHANGED <<pc, up, clean, natConn>> /\ table[c] # None
      BY <1>3 DEF QueueStep, RecvExisting, NATExisting
    <2>2. UNCHANGED chan \/ chan' = [chan EXCEPT ![table[c]] = @ + 1]
      BY <1>3 DEF QueueStep, RecvExisting, NATExisting, Enqueue
    <2>3. PICK e \in Entries : e = table[c] /\ pc[e] # "none"
      BY <2>1 DEF Types, Table, TableIsExact, TableHoldsLiveSessions
    <2>4. CASE chan' = [chan EXCEPT ![e] = @ + 1]
      <3>1. LifeOf(e)'
        BY <1>t, <2>1, <2>3, <2>4 DEF Life, LifeOf
      <3> QED  BY <1>t, <1>1, <2>1, <2>4, <3>1
    <2> QED  BY <1>0, <2>1, <2>2, <2>3, <2>4
  <1>4. ASSUME NEW c \in Csids, NEW a \in Addrs, OpenStep(c, a) PROVE Life'
    <2>1. CASE UNCHANGED <<table, pc, csid, chanVars, connVars, addrVars, replyTo>>
      BY <1>0, <1>4, <2>1 DEF OpenStep, RecvNew, NATNew
    <2>2. ASSUME NEW e \in Entries,
                 pc[e] = "none" /\ up[e] = "none",
                 pc' = [pc EXCEPT ![e] = "router"],
                 chan' = [chan EXCEPT ![e] = 1],
                 clean' = [clean EXCEPT ![e] = FALSE],
                 natConn' = [natConn EXCEPT ![e] = "none"]
          PROVE  Life'
      <3>1. UNCHANGED up
        BY <1>4 DEF OpenStep, RecvNew, NATNew
      <3>2. LifeOf(e)'
        BY <1>t, <2>2, <3>1 DEF LifeOf
      <3> QED  BY <1>t, <1>1, <2>2, <3>1, <3>2
    <2> QED  BY <1>4, <2>1, <2>2 DEF OpenStep, RecvNew, NATNew
  <1>5. ASSUME NEW e \in Entries, SetUpStep(e) PROVE Life'
    <2>1. \A x \in Entries \ {e} :
                 /\ pc'[x] = pc[x] /\ up'[x] = up[x] /\ chan'[x] = chan[x]
                 /\ clean'[x] = clean[x] /\ natConn'[x] = natConn[x]
      BY <1>t, <1>5 DEF SetUpStep, RouterFails, RouterOk, NewClientSession, NATNewClientSession,
                          NewPackerAEAD, NewPackerBlock, ListenUDP, SwapState, StartRelay
    <2>2. LifeOf(e)
      BY DEF Life
    <2>3. ASSUME StartRelay(e) PROVE LifeOf(e)'
      BY <1>t, <2>2, <2>3 DEF StartRelay, LifeOf
    <2>4. ASSUME SwapState(e) PROVE LifeOf(e)'
      BY <1>t, <2>2, <2>4 DEF SwapState, LifeOf
    <2>5. ASSUME ListenUDP(e) PROVE LifeOf(e)'
      BY <1>t, <2>2, <2>5 DEF ListenUDP, LifeOf
    <2>6. ASSUME \/ RouterFails(e) \/ RouterOk(e) \/ NewClientSession(e) \/ NATNewClientSession(e)
                 \/ NewPackerAEAD(e) \/ NewPackerBlock(e)
          PROVE  LifeOf(e)'
      <3>1. /\ UNCHANGED <<up, chan, clean, natConn>>
            /\ pc[e] \in {"router", "newSession", "aead", "block"}
            /\ pc'[e] \in {"newSession", "aead", "block", "listen", "wgDone", "cleanup"}
        BY <1>t, <2>6 DEF RouterFails, RouterOk, NewClientSession, NATNewClientSession,
                          NewPackerAEAD, NewPackerBlock
      <3> QED  BY <2>2, <3>1 DEF LifeOf
    <2>7. LifeOf(e)'
      BY <1>5, <2>3, <2>4, <2>5, <2>6 DEF SetUpStep
    <2> QED  BY <1>1, <2>1, <2>7
  <1>6. ASSUME NEW e \in Entries, DownStep(e) PROVE Life'
    <2>1. CASE NatTimeout(e)
      BY <1>0, <2>1 DEF NatTimeout
    <2>2. CASE ~ NatTimeout(e)
      <3>1. /\ UNCHANGED <<up, chan, clean, natConn>>
            /\ pc[e] \in {"read", "write"} /\ pc'[e] \in {"read", "write", "wgDone"}
            /\ \A x \in Entries \ {e} : pc'[x] = pc[x]
        BY <1>t, <1>6, <2>2 DEF DownStep, DownRead, NATDownRead, MmsgDownRead, NATMmsgDownRead,
                          DownWrite, NATDownWrite, DownTimeout
      <3>2. LifeOf(e)'
        BY <3>1 DEF Life, LifeOf
      <3> QED  BY <1>1, <3>1, <3>2
    <2> QED  BY <2>1, <2>2
  <1>7. ASSUME NEW e \in Entries, LeaveStep(e) PROVE Life'
    <2>1. /\ UNCHANGED <<up, clean, natConn>>
          /\ \A x \in Entries \ {e} : pc'[x] = pc[x] /\ chan'[x] = chan[x]
      BY <1>t, <1>7 DEF LeaveStep, DeferredWgDone, Cleanup, Drain
    <2>2. LifeOf(e)
      BY DEF Life
    <2>3. ASSUME DeferredWgDone(e) PROVE LifeOf(e)'
      BY <1>t, <2>2, <2>3 DEF DeferredWgDone, LifeOf
    <2>4. ASSUME Cleanup(e) PROVE LifeOf(e)'
      BY <1>t, <2>2, <2>4 DEF Cleanup, LifeOf
    <2>5. ASSUME Drain(e) PROVE LifeOf(e)'
      BY <1>t, <2>2, <2>5 DEF Drain, LifeOf
    <2>6. LifeOf(e)'
      BY <1>7, <2>3, <2>4, <2>5 DEF LeaveStep
    <2> QED  BY <1>1, <2>1, <2>6
  <1>8. ASSUME NEW e \in Entries, UplinkStep(e) PROVE Life'
    <2>1. UNCHANGED <<pc, clean>> /\ up[e] # "none"
      BY <1>8 DEF UplinkStep, UpPack, UpWrite, UpExtend, UpReceive, UpClose, MmsgUpPack,
                  MmsgUpNext, MmsgUpWrite, MmsgUpLogsError, uplinkOthers
    <2>2. LifeOf(e)
      BY DEF Life
    <2>3. CASE UpClose(e)
      <3>1. pc[e] \in {"none", "drain"}
        BY <2>3 DEF UpClose, Table
      <3>2. LifeOf(e)'
        BY <1>t, <2>1, <2>2, <2>3, <3>1 DEF UpClose, LifeOf
      <3> QED  BY <1>t, <1>1, <2>1, <2>3, <3>2 DEF UpClose
    <2>4. CASE ~ UpClose(e)
      <3>1. \E l \in UpLabels \ {"none"} : up' = [up EXCEPT ![e] = l]
        BY <1>8, <2>4 DEF UplinkStep, UpPack, UpWrite, UpExtend, UpReceive, MmsgUpPack,
                  MmsgUpNext, MmsgUpWrite, MmsgUpLogsError, UpLabels, Holding
      <3>2. UNCHANGED natConn
        BY <1>8, <2>4 DEF UplinkStep, UpPack, UpWrite, UpExtend, UpReceive, MmsgUpPack,
                  MmsgUpNext, MmsgUpWrite, MmsgUpLogsError, uplinkOthers
      <3>3. UNCHANGED chan \/ chan' = [chan EXCEPT ![e] = @ - 1]
        BY <1>8, <2>4 DEF UplinkStep, UpPack, UpWrite, UpExtend, UpReceive, MmsgUpPack,
                  MmsgUpNext, MmsgUpWrite, MmsgUpLogsError
      <3>4. LifeOf(e)'
        BY <1>t, <2>1, <2>2, <3>1, <3>2 DEF LifeOf
      <3> QED  BY <1>t, <1>1, <2>1, <3>1, <3>2, <3>3, <3>4
    <2> QED  BY <2>3, <2>4
  <1>9. CASE StopStep
    BY <1>0, <1>9 DEF StopStep, StopRest, StopBegin, StopMwgWait, StopSweep, StopWgWait,
                  StopWgReturn, StopClose, Finished, vars
  <1> QED  BY <1>2, <1>3, <1>4, <1>5, <1>6, <1>7, <1>8, <1>9 DEF Step

-----------------------------------------------------------------------------
(* The WaitGroup *)

(* The goroutines that s.wg counts are finitely many, and when it is zero  *)
(* there are none.                                                         *)
LEMMA GroupFinite ==
  ASSUME Types
  PROVE  /\ IsFiniteSet(Counted) /\ Cardinality(Counted) \in Nat
         /\ IsFiniteSet(Uplinks) /\ Cardinality(Uplinks) \in Nat
         /\ GroupCounts => wg \in Nat
         /\ GroupCounts /\ wg = 0 => Counted = {} /\ Uplinks = {}
  <1>1. IsFiniteSet(Counted) /\ IsFiniteSet(Uplinks)
    BY RelayAssumption, FS_Subset DEF Counted, Uplinks
  <1>2. Cardinality(Counted) \in Nat /\ Cardinality(Uplinks) \in Nat
    BY <1>1, FS_CardinalityType
  <1>3. /\ Cardinality(Counted) = 0 <=> Counted = {}
        /\ Cardinality(Uplinks) = 0 <=> Uplinks = {}
    BY <1>1, FS_EmptySet
  <1> QED  BY <1>1, <1>2, <1>3 DEF GroupCounts

(* Every goroutine is counted once from its Add to its Done. *)
LEMMA GroupStep ==
  ASSUME Types, Table, Life, GroupCounts, Step, UNCHANGED setting
  PROVE  GroupCounts'
  <1> USE DEF addrVars, connVars, chanVars, wgVars, stopVars, recvSide, mmsgVars, sessionVars,
              stopOthers, RecvAt, At, UpAt, UpGoto, Goto
  <1>t. /\ pc \in [Entries -> PcLabels] /\ up \in [Entries -> UpLabels] /\ wg \in Int
        /\ IsFiniteSet(Counted) /\ Cardinality(Counted) \in Nat
        /\ IsFiniteSet(Uplinks) /\ Cardinality(Uplinks) \in Nat
    BY GroupFinite DEF Types
  <1>0. ASSUME UNCHANGED wg,
               \A x \in Entries : /\ pc'[x] \in CountedLabels <=> pc[x] \in CountedLabels
                                  /\ up'[x] = "none" <=> up[x] = "none"
        PROVE  GroupCounts'
    <2>1. Counted' = Counted /\ Uplinks' = Uplinks
      BY <1>0 DEF Counted, Uplinks
    <2> QED  BY <1>0, <2>1 DEF GroupCounts
  <1>1. CASE RecvStep
    BY <1>0, <1>1 DEF RecvStep, RecvGet, RecvRead, RecvDeadline, Fill, Recvmmsg, RecvmmsgFails,
                RecvmmsgDeadline, NextMessage, RecvBadPacket, NATBadPacket
  <1>2. ASSUME NEW c \in Csids, NEW a \in Addrs, QueueStep(c, a) \/ OpenStep(c, a)
        PROVE  GroupCounts'
    <2>1. UNCHANGED <<wg, up>>
      BY <1>2 DEF QueueStep, OpenStep, RecvExisting, NATExisting, RecvNew, NATNew
    <2>2. \/ UNCHANGED pc
          \/ \E e \in Entries : pc[e] = "none" /\ pc' = [pc EXCEPT ![e] = "router"]
      BY <1>2 DEF QueueStep, OpenStep, RecvExisting, NATExisting, RecvNew, NATNew
    <2>3. \A x \in Entries : pc'[x] \in CountedLabels <=> pc[x] \in CountedLabels
      BY <1>t, <2>2 DEF CountedLabels, SetupLabels
    <2> QED  BY <1>0, <2>1, <2>3
  <1>3. ASSUME NEW e \in Entries, SetUpStep(e) PROVE GroupCounts'
    <2>1. CASE RouterOk(e)
      <3>1. Counted' = Counted \union {e} /\ e \notin Counted /\ Uplinks' = Uplinks
        BY <1>t, <2>1 DEF RouterOk, Counted, Uplinks, CountedLabels, SetupLabels
      <3>2. Cardinality(Counted') = Cardinality(Counted) + 1
        BY <1>t, <3>1, FS_AddElement
      <3> QED  BY <1>t, <2>1, <3>1, <3>2 DEF RouterOk, WgAdd, GroupCounts
    <2>2. CASE StartRelay(e)
      <3>1. up[e] = "none"
        BY <2>2 DEF StartRelay, Life, LifeOf, SetupLabels
      <3>2. Uplinks' = Uplinks \union {e} /\ e \notin Uplinks
        BY <1>t, <2>2, <3>1 DEF StartRelay, Uplinks
      <3>3. Counted' = Counted
        BY <1>t, <2>2 DEF StartRelay, Counted, CountedLabels, SetupLabels
      <3>4. Cardinality(Uplinks') = Cardinality(Uplinks) + 1
        BY <1>t, <3>2, FS_AddElement
      <3> QED  BY <1>t, <2>2, <3>3, <3>4 DEF StartRelay, WgAdd, GroupCounts
    <2>3. CASE ~ RouterOk(e) /\ ~ StartRelay(e)
      <3>1. UNCHANGED <<wg, up>>
        BY <1>3, <2>3 DEF SetUpStep, RouterFails, NewClientSession, NATNewClientSession,
                          NewPackerAEAD, NewPackerBlock, ListenUDP, SwapState
      <3>2. \A x \in Entries : pc'[x] \in CountedLabels <=> pc[x] \in CountedLabels
        BY <1>t, <1>3, <2>3 DEF SetUpStep, RouterFails, NewClientSession, NATNewClientSession,
                          NewPackerAEAD, NewPackerBlock, ListenUDP, SwapState, CountedLabels, SetupLabels
      <3> QED  BY <1>0, <3>1, <3>2
    <2> QED  BY <2>1, <2>2, <2>3
  <1>4. ASSUME NEW e \in Entries, DownStep(e) PROVE GroupCounts'
    <2>1. UNCHANGED <<wg, up>>
      BY <1>4 DEF DownStep, DownRead, NATDownRead, MmsgDownRead, NATMmsgDownRead, DownWrite,
                  NATDownWrite, DownTimeout, NatTimeout
    <2>2. \A x \in Entries : pc'[x] \in CountedLabels <=> pc[x] \in CountedLabels
      BY <1>t, <1>4 DEF DownStep, DownRead, NATDownRead, MmsgDownRead, NATMmsgDownRead, DownWrite,
                  NATDownWrite, DownTimeout, NatTimeout, CountedLabels, SetupLabels
    <2> QED  BY <1>0, <2>1, <2>2
  <1>5. ASSUME NEW e \in Entries, LeaveStep(e) PROVE GroupCounts'
    <2>1. CASE DeferredWgDone(e)
      <3>1. Counted' = Counted \ {e} /\ e \in Counted /\ Uplinks' = Uplinks
        BY <1>t, <2>1 DEF DeferredWgDone, Counted, Uplinks, CountedLabels, SetupLabels
      <3>2. Cardinality(Counted') = Cardinality(Counted) - 1
        BY <1>t, <3>1, FS_RemoveElement
      <3> QED  BY <1>t, <2>1, <3>1, <3>2 DEF DeferredWgDone, WgDone, GroupCounts
    <2>2. CASE Cleanup(e) \/ Drain(e)
      <3>1. UNCHANGED <<wg, up>>
        BY <2>2 DEF Cleanup, Drain
      <3>2. \A x \in Entries : pc'[x] \in CountedLabels <=> pc[x] \in CountedLabels
        BY <1>t, <2>2 DEF Cleanup, Drain, CountedLabels, SetupLabels
      <3> QED  BY <1>0, <3>1, <3>2
    <2> QED  BY <1>5, <2>1, <2>2 DEF LeaveStep
  <1>6. ASSUME NEW e \in Entries, UplinkStep(e) PROVE GroupCounts'
    <2>1. CASE UpClose(e)
      <3>1. Uplinks' = Uplinks \ {e} /\ e \in Uplinks /\ Counted' = Counted
        BY <1>t, <2>1 DEF UpClose, Counted, Uplinks
      <3>2. Cardinality(Uplinks') = Cardinality(Uplinks) - 1
        BY <1>t, <3>1, FS_RemoveElement
      <3> QED  BY <1>t, <2>1, <3>1, <3>2 DEF UpClose, WgDone, GroupCounts
    <2>2. CASE ~ UpClose(e)
      <3>1. UNCHANGED <<wg, pc>> /\ up[e] # "none"
        BY <1>6, <2>2 DEF UplinkStep, UpPack, UpWrite, UpExtend, UpReceive, MmsgUpPack,
                    MmsgUpNext, MmsgUpWrite, MmsgUpLogsError, uplinkOthers
      <3>2. \E l \in UpLabels \ {"none"} : up' = [up EXCEPT ![e] = l]
        BY <1>6, <2>2 DEF UplinkStep, UpPack, UpWrite, UpExtend, UpReceive, MmsgUpPack,
                  MmsgUpNext, MmsgUpWrite, MmsgUpLogsError, UpLabels, Holding
      <3>3. \A x \in Entries : up'[x] = "none" <=> up[x] = "none"
        BY <1>t, <3>1, <3>2
      <3> QED  BY <1>0, <3>1, <3>3
    <2> QED  BY <2>1, <2>2
  <1>7. CASE StopStep
    BY <1>0, <1>7 DEF StopStep, StopRest, StopBegin, StopMwgWait, StopSweep, StopWgWait,
                  StopWgReturn, StopClose, Finished, vars
  <1> QED  BY <1>1, <1>2, <1>3, <1>4, <1>5, <1>6, <1>7 DEF Step

-----------------------------------------------------------------------------
(* Stop *)

(* A session that Stop did not find in the table is past the point where   *)
(* it would start to relay; one that it found starts nothing any more.     *)
LEMMA SweptStep ==
  ASSUME Types, Table, GroupCounts, Swept, Step, UNCHANGED setting
  PROVE  Swept'
  <1> USE DEF addrVars, connVars, chanVars, wgVars, stopVars, recvSide, mmsgVars, sessionVars,
              stopOthers, RecvAt, At, UpAt, UpGoto, Goto
  <1>t. /\ pc \in [Entries -> PcLabels] /\ up \in [Entries -> UpLabels]
        /\ state \in [Entries -> {"nil", "natConn", "serverConn"}]
    BY DEF Types
  <1> DEFINE Early == SetupLabels \ {"start"}
             Relaying == {"start", "read", "write"}
  <1>0. ASSUME UNCHANGED <<stop, recv>>,
               \A x \in Entries : pc'[x] \in Early => pc[x] \in Early /\ state'[x] = state[x],
               \A x \in Entries : pc'[x] \in Relaying => pc[x] \in Relaying,
               \A x \in Entries : up'[x] # "none" => up[x] # "none"
        PROVE  Swept'
    BY <1>0 DEF Swept, StopWaitsForRelays
  <1>1. CASE RecvStep
    <2>1. UNCHANGED <<stop, pc, up, state>> /\ (recv = "done" => FALSE)
      BY <1>1 DEF RecvStep, RecvGet, RecvRead, RecvDeadline, Fill, Recvmmsg, RecvmmsgFails,
                RecvmmsgDeadline, NextMessage, RecvBadPacket, NATBadPacket
    <2> QED  BY <2>1 DEF Swept, StopWaitsForRelays
  <1>2. ASSUME NEW c \in Csids, NEW a \in Addrs, QueueStep(c, a) \/ OpenStep(c, a)
        PROVE  Swept'
    <2>1. UNCHANGED stop /\ recv = "handle"
      BY <1>2 DEF QueueStep, OpenStep, RecvExisting, NATExisting, RecvNew, NATNew
    <2> QED  BY <2>1 DEF Swept, StopWaitsForRelays
  <1>3. ASSUME NEW e \in Entries, SetUpStep(e) PROVE Swept'
    <2>1. UNCHANGED <<stop, recv>>
      BY <1>3 DEF SetUpStep, RouterFails, RouterOk, NewClientSession, NATNewClientSession,
                  NewPackerAEAD, NewPackerBlock, ListenUDP, SwapState, StartRelay
    <2>2. CASE StartRelay(e)
      <3>1. stop \notin {"close", "stopped"}
        BY <2>2 DEF StartRelay, Swept, StopWaitsForRelays
      <3>2. UNCHANGED state /\ \A x \in Entries : pc'[x] \in Early => pc[x] \in Early
        BY <1>t, <2>2 DEF StartRelay, SetupLabels
      <3> QED  BY <2>1, <3>1, <3>2 DEF Swept, StopWaitsForRelays
    <2>3. CASE SwapState(e)
      <3>1. CASE state[e] = "nil"
        <4>1. stop \notin {"wait", "close", "stopped"}
          BY <2>3, <3>1 DEF SwapState, Swept, SetupLabels
        <4> QED  BY <2>1, <4>1 DEF Swept, StopWaitsForRelays
      <3>2. CASE state[e] # "nil"
        <4>1. \A x \in Entries : pc'[x] \in Early => pc[x] \in Early /\ state'[x] = state[x]
          BY <1>t, <2>3, <3>2 DEF SwapState, SetupLabels
        <4>2. UNCHANGED up /\ \A x \in Entries : pc'[x] \in Relaying => pc[x] \in Relaying
          BY <1>t, <2>3, <3>2 DEF SwapState, SetupLabels
        <4> QED  BY <1>0, <2>1, <4>1, <4>2
      <3> QED  BY <3>1, <3>2
    <2>4. CASE ~ StartRelay(e) /\ ~ SwapState(e)
      <3>1. UNCHANGED <<up, state>>
        BY <1>3, <2>4 DEF SetUpStep, RouterFails, RouterOk, NewClientSession, NATNewClientSession,
                          NewPackerAEAD, NewPackerBlock, ListenUDP
      <3>2. \A x \in Entries : /\ pc'[x] \in Early => pc[x] \in Early
                               /\ pc'[x] \in Relaying => pc[x] \in Relaying
        BY <1>t, <1>3, <2>4 DEF SetUpStep, RouterFails, RouterOk, NewClientSession,
               NATNewClientSession, NewPackerAEAD, NewPackerBlock, ListenUDP, SetupLabels
      <3> QED  BY <1>0, <2>1, <3>1, <3>2
    <2> QED  BY <2>2, <2>3, <2>4
  <1>4. ASSUME NEW e \in Entries, DownStep(e) \/ LeaveStep(e) PROVE Swept'
    <2>1. UNCHANGED <<stop, recv, up, state>>
      BY <1>4 DEF DownStep, DownRead, NATDownRead, MmsgDownRead, NATMmsgDownRead, DownWrite,
                  NATDownWrite, DownTimeout, NatTimeout, LeaveStep, DeferredWgDone, Cleanup, Drain
    <2>2. \A x \in Entries : /\ pc'[x] \in Early => pc[x] \in Early
                             /\ pc'[x] \in Relaying => pc[x] \in Relaying
      BY <1>t, <1>4 DEF DownStep, DownRead, NATDownRead, MmsgDownRead, NATMmsgDownRead, DownWrite,
                  NATDownWrite, DownTimeout, NatTimeout, LeaveStep, DeferredWgDone, Cleanup, Drain, SetupLabels
    <2> QED  BY <1>0, <2>1, <2>2
  <1>5. ASSUME NEW e \in Entries, UplinkStep(e) PROVE Swept'
    <2>1. CASE MmsgUpLogsError(e)
      BY <2>1 DEF MmsgUpLogsError, uplinkOthers, Swept, StopWaitsForRelays
    <2>2. CASE ~ MmsgUpLogsError(e)
      <3>1. UNCHANGED <<stop, recv, pc, state>> /\ up[e] # "none"
        BY <1>5, <2>2 DEF UplinkStep, UpPack, UpWrite, UpExtend, UpReceive, UpClose, MmsgUpPack,
                  MmsgUpNext, MmsgUpWrite, uplinkOthers
      <3>2. \E l : up' = [up EXCEPT ![e] = l]
        BY <1>5, <2>2 DEF UplinkStep, UpPack, UpWrite, UpExtend, UpReceive, UpClose, MmsgUpPack,
                  MmsgUpNext, MmsgUpWrite
      <3>3. \A x \in Entries : up'[x] # "none" => up[x] # "none"
        BY <1>t, <3>1, <3>2
      <3> QED  BY <1>0, <3>1, <3>3
    <2> QED  BY <2>1, <2>2
  <1>6. CASE StopStep
    <2>1. UNCHANGED <<pc, up, recv>>
      BY <1>6 DEF StopStep, StopRest, StopBegin, StopMwgWait, StopSweep, StopWgWait,
                  StopWgReturn, StopClose, Finished, vars
    <2>2. CASE StopSweep
      <3>1. \A x \in Entries : pc[x] \in Early => InTable(x)
        BY DEF SetupLabels, Table, TableIsExact, OneOpenSessionPerClient, Alive, InTable
      <3>2. \A x \in Entries : pc[x] \in Early => state'[x] = "serverConn"
        BY <2>2, <3>1 DEF StopSweep
      <3> QED  BY <2>1, <2>2, <3>2 DEF StopSweep, Swept, StopWaitsForRelays
    <2>3. CASE StopWgWait \/ StopWgReturn
      <3>1. UNCHANGED state /\ stop = "wait"
        BY <2>3 DEF StopWgWait, StopWgReturn
      <3>2. CASE wg # 0
        <4>1. stop' \in {"wait", "panicked"}
          BY <2>3, <3>2 DEF StopWgWait, StopWgReturn
        <4> QED  BY <2>1, <3>1, <4>1 DEF Swept, StopWaitsForRelays
      <3>3. CASE wg = 0
        <4>1. Counted = {} /\ Uplinks = {}
          BY <3>3, GroupFinite
        <4>2. \A x \in Entries : pc[x] \notin Relaying /\ up[x] = "none"
          BY <4>1 DEF Counted, Uplinks, CountedLabels, SetupLabels
        <4> QED  BY <2>1, <3>1, <4>2 DEF Swept, StopWaitsForRelays
      <3> QED  BY <3>2, <3>3
    <2>4. CASE StopBegin \/ StopMwgWait \/ StopClose \/ Finished
      BY <2>1, <2>4 DEF StopBegin, StopMwgWait, StopClose, Finished, vars, Swept, StopWaitsForRelays
    <2> QED  BY <1>6, <2>2, <2>3, <2>4 DEF StopStep, StopRest
  <1> QED  BY <1>1, <1>2, <1>3, <1>4, <1>5, <1>6 DEF Step

-----------------------------------------------------------------------------
(* Packets *)

(* What the receive loop and session e hold, in the relay that runs. *)
RecvHolds ==
  CASE recv = "done" -> 0
    [] recv = "read" -> IF Batched THEN MaxIov ELSE 1
    [] OTHER -> (IF Batched THEN MaxIov - n + left ELSE 0) + (IF recv = "handle" THEN 1 ELSE 0)

UpHolds(e) ==
  IF Batched THEN count[e] + (IF up[e] = "pack" THEN 1 ELSE 0)
             ELSE IF up[e] \in Holding THEN 1 ELSE 0

Holds == [e \in Entries |-> chan[e] + UpHolds(e)]

(* In these terms all relays do the same accounting. *)
LEMMA Accounting ==
  ASSUME Types, Batches
  PROVE  /\ EveryPacketAccountedFor <=> out = RecvHolds + SumFunction(Holds)
         /\ Holds \in [Entries -> Nat] /\ SumFunction(Holds) \in Nat
         /\ RecvHolds \in Nat
  <1>1. Holds \in [Entries -> Nat]
    <2>1. \A e \in Entries : chan[e] \in Nat /\ count[e] \in Nat
      BY RelayAssumption, MmsgAssumption DEF Types
    <2>2. \A e \in Entries : UpHolds(e) \in Nat
      BY <2>1 DEF UpHolds
    <2>3. \A e \in Entries : chan[e] + UpHolds(e) \in Nat
      BY <2>1, <2>2
    <2> QED  BY <2>3 DEF Holds
  <1>2. SumFunction(Holds) \in Nat
    BY <1>1, RelayAssumption, SumType
  <1>3. CASE Batched
    <2>1. RecvHolds = Owned
      BY <1>3, MmsgAssumption DEF RecvHolds, Owned, Types, Batches
    <2>2. RecvHolds \in Nat
      BY <1>3, MmsgAssumption DEF RecvHolds, Types, Batches
    <2>3. \A e \in Entries : chan[e] \in Nat /\ count[e] \in Nat
      BY RelayAssumption, MmsgAssumption DEF Types
    <2>4. Holds = [e \in Entries |-> chan[e] + count[e] + (IF up[e] = "pack" THEN 1 ELSE 0)]
      BY <1>3, <2>3 DEF Holds, UpHolds
    <2> QED  BY <1>1, <1>2, <1>3, <2>1, <2>2, <2>4 DEF EveryPacketAccountedFor, BatchedPacketsAccountedFor
  <1>4. CASE ~Batched
    <2>1. RecvHolds = (IF recv \in {"read", "handle"} THEN 1 ELSE 0)
      BY <1>4 DEF RecvHolds, Types
    <2>2. Holds = [e \in Entries |-> chan[e] + (IF up[e] \in Holding THEN 1 ELSE 0)]
      BY <1>4 DEF Holds, UpHolds
    <2> QED  BY <1>1, <1>2, <1>4, <2>1, <2>2 DEF EveryPacketAccountedFor, PacketsAccountedFor
  <1> QED  BY <1>3, <1>4

(* The same in the next state. *)
LEMMA AccountingNext ==
  (Types /\ Batches => /\ EveryPacketAccountedFor <=> out = RecvHolds + SumFunction(Holds)
                       /\ Holds \in [Entries -> Nat] /\ RecvHolds \in Nat)'
  <1>1. Types /\ Batches => /\ EveryPacketAccountedFor <=> out = RecvHolds + SumFunction(Holds)
                            /\ Holds \in [Entries -> Nat] /\ RecvHolds \in Nat
    BY Accounting
  <1> QED  BY <1>1, PTL

(* A step moves packets between the pool, the receive loop and one session,*)
(* and loses none.                                                         *)
LEMMA PacketsStep ==
  ASSUME Types, Types', Batches, Batches', Table, Life, EveryPacketAccountedFor, Step,
         UNCHANGED setting
  PROVE  EveryPacketAccountedFor'
  <1> USE DEF addrVars, connVars, chanVars, wgVars, stopVars, recvSide, mmsgVars, sessionVars,
              stopOthers, RecvAt, At, UpAt, UpGoto, Goto, PutQueuedPacket, PutQueuedPackets
  <1>t. /\ chan \in [Entries -> Nat] /\ count \in [Entries -> Nat] /\ up \in [Entries -> UpLabels]
        /\ recv \in {"get", "read", "handle", "done"}
        /\ out \in Int /\ n \in Nat /\ left \in Nat /\ MaxIov \in Nat
        /\ RecvHolds \in Nat /\ RecvHolds' \in Nat
        /\ Holds \in [Entries -> Nat] /\ Holds' \in [Entries -> Nat]
        /\ out = RecvHolds + SumFunction(Holds) /\ SumFunction(Holds) \in Nat
        /\ Batched' = Batched
    <2>1. /\ chan \in [Entries -> Nat] /\ count \in [Entries -> Nat] /\ up \in [Entries -> UpLabels]
          /\ recv \in {"get", "read", "handle", "done"}
          /\ out \in Int /\ n \in Nat /\ left \in Nat /\ MaxIov \in Nat
          /\ Batched' = Batched
      BY RelayAssumption, MmsgAssumption DEF Types, Batched
    <2>2. RecvHolds' \in Nat /\ Holds' \in [Entries -> Nat]
      BY AccountingNext
    <2> QED  BY <2>1, <2>2, Accounting
  <1>0. ASSUME out' = RecvHolds' + SumFunction(Holds)'
        PROVE  EveryPacketAccountedFor'
    BY <1>0, AccountingNext
  <1>1. ASSUME NEW e \in Entries,
               \A x \in Entries \ {e} : Holds'[x] = Holds[x],
               out' - RecvHolds' = out - RecvHolds + Holds'[e] - Holds[e], out' \in Int
        PROVE  EveryPacketAccountedFor'
    <2>1. SumFunction(Holds)' = SumFunction(Holds) + Holds'[e] - Holds[e]
      BY <1>t, <1>1, RelayAssumption, SumUpdate
    <2>2. Holds'[e] \in Nat /\ Holds[e] \in Nat
      BY <1>t
    <2> QED  BY <1>t, <1>0, <1>1, <2>1, <2>2
  <1>2. ASSUME UNCHANGED <<chan, count, up>>, out' - RecvHolds' = out - RecvHolds, out' \in Int
        PROVE  EveryPacketAccountedFor'
    <2>1. Holds' = Holds
      BY <1>t, <1>2 DEF Holds, UpHolds
    <2> QED  BY <1>t, <1>0, <1>2, <2>1
  <1>3. CASE UNCHANGED <<out, recv, n, left, chan, count, up>>
    <2>1. RecvHolds' = RecvHolds
      BY <1>t, <1>3 DEF RecvHolds
    <2> QED  BY <1>t, <1>2, <1>3, <2>1
  <1>4. CASE RecvStep
    <2>1. UNCHANGED <<chan, count, up>>
      BY <1>4 DEF RecvStep, RecvGet, RecvRead, RecvDeadline, Fill, Recvmmsg, RecvmmsgFails,
                RecvmmsgDeadline, NextMessage, RecvBadPacket, NATBadPacket
    <2>2. ASSUME ~Batched, (RecvGet \/ RecvRead \/ RecvDeadline) /\ UNCHANGED mmsgVars
          PROVE  out' - RecvHolds' = out - RecvHolds
      BY <1>t, <2>2 DEF RecvGet, RecvRead, RecvDeadline, RecvHolds
    <2>3. ASSUME Batched, Fill \/ NextMessage
          PROVE  out' - RecvHolds' = out - RecvHolds
      BY <1>t, <2>3 DEF Fill, NextMessage, RecvHolds
    <2>4. ASSUME Batched, Recvmmsg
          PROVE  out' - RecvHolds' = out - RecvHolds
      <3>1. /\ recv = "read" /\ recv' = "handle" /\ UNCHANGED out
            /\ n' \in Nat /\ left' = n' - 1
        BY <2>4, MmsgAssumption DEF Recvmmsg, RecvRead
      <3> QED  BY <1>t, <2>4, <3>1 DEF RecvHolds
    <2>5. ASSUME Batched, RecvmmsgFails \/ RecvmmsgDeadline
          PROVE  out' - RecvHolds' = out - RecvHolds
      <3>1. left = 0
        BY <2>5 DEF RecvmmsgFails, RecvmmsgDeadline, Batches
      <3> QED  BY <1>t, <2>5, <3>1 DEF RecvmmsgFails, RecvmmsgDeadline, RecvHolds
    <2>6. ASSUME (RecvBadPacket \/ NATBadPacket) /\ UNCHANGED mmsgVars
          PROVE  out' - RecvHolds' = out - RecvHolds
      <3>1. recv = "handle" /\ recv' = "get" /\ out' = out - 1
        BY <2>6 DEF RecvBadPacket, NATBadPacket
      <3> QED  BY <1>t, <2>6, <3>1 DEF RecvHolds
    <2>7. out' \in Int
      BY DEF Types
    <2> QED  BY <1>2, <1>4, <2>1, <2>2, <2>3, <2>4, <2>5, <2>6, <2>7 DEF RecvStep
  <1>5. ASSUME recv = "handle", recv' = "get", UNCHANGED <<n, left>>
        PROVE  RecvHolds' = RecvHolds - 1
    BY <1>t, <1>5 DEF RecvHolds
  <1>6. ASSUME NEW c \in Csids, NEW a \in Addrs, QueueStep(c, a) PROVE EveryPacketAccountedFor'
    <2>1. /\ recv = "handle" /\ recv' = "get" /\ UNCHANGED <<n, left, up, count>>
          /\ \/ UNCHANGED chan /\ out' = out - 1
             \/ UNCHANGED out /\ chan' = [chan EXCEPT ![table[c]] = @ + 1]
          /\ table[c] # None
      BY <1>6 DEF QueueStep, RecvExisting, NATExisting, Enqueue
    <2>2. PICK e \in Entries : e = table[c]
      BY <2>1 DEF Types
    <2>3. RecvHolds' = RecvHolds - 1
      BY <1>5, <2>1
    <2>4. CASE UNCHANGED chan /\ out' = out - 1
      BY <1>t, <1>2, <2>1, <2>3, <2>4
    <2>5. CASE UNCHANGED out /\ chan' = [chan EXCEPT ![e] = @ + 1]
      <3>1. Holds'[e] = Holds[e] + 1 /\ \A x \in Entries \ {e} : Holds'[x] = Holds[x]
        <4>1. \A x \in Entries : UpHolds(x)' = UpHolds(x) /\ UpHolds(x) \in Nat
          BY <1>t, <2>1 DEF UpHolds
        <4> QED  BY <1>t, <2>5, <4>1 DEF Holds
      <3>2. Holds[e] \in Nat
        BY <1>t
      <3>3. out' - RecvHolds' = out - RecvHolds + Holds'[e] - Holds[e] /\ out' \in Int
        BY <1>t, <2>3, <2>5, <3>1, <3>2
      <3> QED  BY <1>1, <3>1, <3>3
    <2> QED  BY <2>1, <2>2, <2>4, <2>5
  <1>7. ASSUME NEW c \in Csids, NEW a \in Addrs, OpenStep(c, a) PROVE EveryPacketAccountedFor'
    <2>1. recv = "handle" /\ recv' = "get" /\ UNCHANGED <<n, left, up, count>>
      BY <1>7 DEF OpenStep, RecvNew, NATNew
    <2>2. RecvHolds' = RecvHolds - 1
      BY <1>5, <2>1
    <2>3. CASE UNCHANGED chan /\ out' = out - 1
      BY <1>t, <1>2, <2>1, <2>2, <2>3
    <2>4. ASSUME NEW e \in Entries, pc[e] = "none" /\ up[e] = "none",
                 chan' = [chan EXCEPT ![e] = 1], UNCHANGED out
          PROVE  EveryPacketAccountedFor'
      <3>1. chan[e] = 0
        BY <2>4 DEF Life, LifeOf, Alive
      <3>2. Holds'[e] = Holds[e] + 1 /\ \A x \in Entries \ {e} : Holds'[x] = Holds[x]
        <4>1. \A x \in Entries : UpHolds(x)' = UpHolds(x) /\ UpHolds(x) \in Nat
          BY <1>t, <2>1 DEF UpHolds
        <4> QED  BY <1>t, <2>4, <3>1, <4>1 DEF Holds
      <3>3. Holds[e] \in Nat
        BY <1>t
      <3>4. out' - RecvHolds' = out - RecvHolds + Holds'[e] - Holds[e] /\ out' \in Int
        BY <1>t, <2>2, <2>4, <3>2, <3>3
      <3> QED  BY <1>1, <3>2, <3>4
    <2> QED  BY <1>7, <2>3, <2>4 DEF OpenStep, RecvNew, NATNew
  <1>8. ASSUME NEW e \in Entries, SetUpStep(e) PROVE EveryPacketAccountedFor'
    <2>1. CASE StartRelay(e)
      <3>1. up[e] = "none"
        BY <2>1 DEF StartRelay, Life, LifeOf, SetupLabels
      <3>2. UNCHANGED <<out, recv, n, left, chan, count>> /\ up' = [up EXCEPT ![e] = "range"]
        BY <1>8, <2>1 DEF SetUpStep, StartRelay
      <3>3. Holds' = Holds
        BY <1>t, <3>1, <3>2 DEF Holds, UpHolds, Holding
      <3>4. RecvHolds' = RecvHolds
        BY <1>t, <3>2 DEF RecvHolds
      <3> QED  BY <1>t, <1>0, <3>2, <3>3, <3>4
    <2>2. CASE ~ StartRelay(e)
      BY <1>3, <1>8, <2>2 DEF SetUpStep, RouterFails, RouterOk, NewClientSession,
           NATNewClientSession, NewPackerAEAD, NewPackerBlock, ListenUDP, SwapState
    <2> QED  BY <2>1, <2>2
  <1>9. ASSUME NEW e \in Entries, DownStep(e) PROVE EveryPacketAccountedFor'
    BY <1>3, <1>9 DEF DownStep, DownRead, NATDownRead, MmsgDownRead, NATMmsgDownRead, DownWrite,
                  NATDownWrite, DownTimeout, NatTimeout
  <1>10. ASSUME NEW e \in Entries, UNCHANGED <<recv, n, left>>,
                \A x \in Entries \ {e} : chan'[x] = chan[x] /\ count'[x] = count[x] /\ up'[x] = up[x],
                out' = out + (chan'[e] + UpHolds(e)') - (chan[e] + UpHolds(e))
         PROVE  EveryPacketAccountedFor'
    <2>1. \A x \in Entries \ {e} : Holds'[x] = Holds[x]
      BY <1>t, <1>10 DEF Holds, UpHolds
    <2>2. Holds'[e] = chan'[e] + UpHolds(e)' /\ Holds[e] = chan[e] + UpHolds(e)
      BY DEF Holds
    <2>3. RecvHolds' = RecvHolds
      BY <1>t, <1>10 DEF RecvHolds
    <2>4. Holds'[e] \in Nat /\ Holds[e] \in Nat
      BY <1>t
    <2>5. out' - RecvHolds' = out - RecvHolds + Holds'[e] - Holds[e] /\ out' \in Int
      BY <1>t, <1>10, <2>2, <2>3, <2>4
    <2> QED  BY <1>1, <2>1, <2>5
  <1>11. ASSUME NEW e \in Entries, LeaveStep(e) PROVE EveryPacketAccountedFor'
    <2>1. CASE Drain(e) /\ chan[e] > 0
      <3>1. /\ UNCHANGED <<recv, n, left, count, up>>
            /\ chan' = [chan EXCEPT ![e] = @ - 1] /\ out' = out - 1
        BY <1>11, <2>1 DEF LeaveStep, Drain
      <3>2. UpHolds(e)' = UpHolds(e) /\ UpHolds(e) \in Nat
        BY <1>t, <3>1 DEF UpHolds
      <3>3. out' = out + (chan'[e] + UpHolds(e)') - (chan[e] + UpHolds(e))
        BY <1>t, <3>1, <3>2
      <3>4. \A x \in Entries \ {e} : chan'[x] = chan[x] /\ count'[x] = count[x] /\ up'[x] = up[x]
        BY <1>t, <3>1
      <3> QED  BY <1>10, <3>1, <3>3, <3>4
    <2>2. CASE ~ (Drain(e) /\ chan[e] > 0)
      BY <1>3, <1>11, <2>2 DEF LeaveStep, DeferredWgDone, Cleanup, Drain
    <2> QED  BY <2>1, <2>2
  <1>12. ASSUME NEW e \in Entries, UplinkStep(e) PROVE EveryPacketAccountedFor'
    <2>1. UNCHANGED <<recv, n, left>>
      BY <1>12 DEF UplinkStep, UpPack, UpWrite, UpExtend, UpReceive, UpClose, MmsgUpPack,
                  MmsgUpNext, MmsgUpWrite, MmsgUpLogsError, uplinkOthers
    <2>2. \A x \in Entries \ {e} : chan'[x] = chan[x] /\ count'[x] = count[x] /\ up'[x] = up[x]
      BY <1>t, <1>12 DEF UplinkStep, UpPack, UpWrite, UpExtend, UpReceive, UpClose, MmsgUpPack,
                  MmsgUpNext, MmsgUpWrite, MmsgUpLogsError, uplinkOthers
    <2>3. count[e] \in Nat /\ chan[e] \in Nat
      BY <1>t
    <2> DEFINE Goal == out' = out + (chan'[e] + UpHolds(e)') - (chan[e] + UpHolds(e))
    <2>4. ASSUME UpReceive(e) /\ UNCHANGED mmsgVars PROVE Goal
      BY <1>t, <2>3, <2>4 DEF UpReceive, UpHolds, Holding
    <2>5. ASSUME UpClose(e) /\ UNCHANGED mmsgVars PROVE Goal
      BY <1>t, <2>3, <2>5 DEF UpClose, UpHolds, Holding
    <2>6. ASSUME ~Batched, (UpPack(e) \/ UpWrite(e) \/ UpExtend(e)) /\ UNCHANGED mmsgVars
          PROVE  Goal
      BY <1>t, <2>3, <2>6 DEF UpPack, UpWrite, UpExtend, UpHolds, Holding
    <2>7. ASSUME Batched, MmsgUpPack(e) PROVE Goal
      <3>1. CASE count' = [count EXCEPT ![e] = @ + 1] /\ UNCHANGED out
        <4>1. up[e] = "pack" /\ up'[e] # "pack" /\ UNCHANGED chan /\ count'[e] = count[e] + 1
          BY <1>t, <2>3, <2>7, <3>1 DEF MmsgUpPack, uplinkOthers
        <4> QED  BY <1>t, <2>3, <2>7, <3>1, <4>1 DEF UpHolds
      <3>2. CASE UNCHANGED count /\ out' = out - 1
        <4>1. up[e] = "pack" /\ up'[e] # "pack" /\ UNCHANGED chan
          BY <1>t, <2>3, <2>7, <3>2 DEF MmsgUpPack, uplinkOthers
        <4> QED  BY <1>t, <2>3, <2>7, <3>2, <4>1 DEF UpHolds
      <3> QED  BY <2>7, <3>1, <3>2 DEF MmsgUpPack
    <2>8. ASSUME Batched, MmsgUpNext(e) PROVE Goal
      BY <1>t, <2>3, <2>8 DEF MmsgUpNext, uplinkOthers, UpHolds
    <2>9. ASSUME Batched, MmsgUpWrite(e) PROVE Goal
      BY <1>t, <2>3, <2>9 DEF MmsgUpWrite, uplinkOthers, UpHolds
    <2>10. ASSUME Batched, MmsgUpLogsError(e) PROVE Goal
      BY <1>t, <2>3, <2>10 DEF MmsgUpLogsError, uplinkOthers, UpHolds
    <2>11. Goal
      BY <1>12, <2>4, <2>5, <2>6, <2>7, <2>8, <2>9, <2>10 DEF UplinkStep
    <2> QED  BY <1>10, <2>1, <2>2, <2>11
  <1>13. CASE StopStep
    BY <1>3, <1>13 DEF StopStep, StopRest, StopBegin, StopMwgWait, StopSweep, StopWgWait,
                  StopWgReturn, StopClose, Finished, vars
  <1> QED  BY <1>4, <1>6, <1>7, <1>8, <1>9, <1>11, <1>12, <1>13 DEF Step

-----------------------------------------------------------------------------
(* Replies *)

(* Addresses and pktinfo change only with a packet of the session, and a   *)
(* downlink copies what is stored.                                         *)
LEMMA RepliesStep ==
  ASSUME Types, Table, Replies, Step, UNCHANGED setting
  PROVE  Replies'
  <1> USE DEF addrVars, connVars, chanVars, wgVars, stopVars, recvSide, mmsgVars, sessionVars,
              stopOthers, RecvAt, At, UpAt, UpGoto, Goto
  <1>t. /\ table \in [Csids -> Entries \union {None}] /\ None \notin Entries
        /\ pc \in [Entries -> PcLabels]
        /\ addrCache \in [Entries -> Addrs \union {None}]
        /\ addrInfo \in [Entries -> Addrs \union {None}]
        /\ lastParsed \in [Entries -> Addrs \union {None}]
        /\ replyTo \in [Entries -> Addrs \union {None}]
        /\ AddressBased' = AddressBased /\ Batched' = Batched /\ Runs("nat")' = Runs("nat")
    BY RelayAssumption DEF Types, AddressBased, Batched, Runs
  <1>m. /\ ~Runs("nat") /\ AddressBased => Batched
        /\ NoCmsg \in Unparsable
    BY OneRelayRuns, NATAssumption DEF Types
  <1>0. ASSUME UNCHANGED addrVars,
               \A x \in Entries : /\ InTable(x)' => InTable(x)
                                  /\ pc'[x] # "none" => pc[x] # "none"
                                  /\ replyTo'[x] = replyTo[x] \/ replyTo'[x] = addrInfo[x]
        PROVE  Replies'
    BY <1>t, <1>0 DEF Replies, CacheAgrees, FirstPktinfo, RepliesFollowClient
  <1>1. ASSUME UNCHANGED <<addrVars, table, replyTo>>,
               \A x \in Entries : pc'[x] # "none" => pc[x] # "none"
        PROVE  Replies'
    BY <1>0, <1>1 DEF InTable
  <1>2. CASE RecvStep
    BY <1>1, <1>2 DEF RecvStep, RecvGet, RecvRead, RecvDeadline, Fill, Recvmmsg, RecvmmsgFails,
                RecvmmsgDeadline, NextMessage, RecvBadPacket, NATBadPacket
  <1>3. ASSUME NEW c \in Csids, NEW a \in Addrs, QueueStep(c, a) PROVE Replies'
    <2>1. UNCHANGED <<table, pc, replyTo>> /\ table[c] # None
      BY <1>3 DEF QueueStep, RecvExisting, NATExisting
    <2>2. PICK e \in Entries : e = table[c]
      BY <1>t, <2>1
    <2>3. InTable(e) /\ \A x \in Entries : InTable(x)' = InTable(x)
      BY <2>1, <2>2 DEF InTable
    <2>h. lastParsed' = IF a \in Unparsable THEN lastParsed ELSE [lastParsed EXCEPT ![e] = a]
      BY <1>3, <2>2 DEF QueueStep, RecvExisting, NATExisting, Heard
    <2>i. addrInfo[e] = lastParsed[e] /\ CacheAgrees(e)
      BY <2>3 DEF Replies, RepliesFollowClient
    <2>5. CASE /\ addrCache' = [addrCache EXCEPT ![e] = a]
               /\ addrInfo' = [addrInfo EXCEPT ![e] = a]
               /\ a \notin Unparsable
      BY <1>t, <1>m, <2>1, <2>3, <2>5, <2>h DEF Replies, CacheAgrees, RepliesFollowClient, FirstPktinfo
    <2>6. CASE /\ UNCHANGED addrInfo
               /\ \/ UNCHANGED addrCache /\ AddressBased
                  \/ ~AddressBased /\ addrCache' = [addrCache EXCEPT ![e] = a]
               /\ addrCache[e] = a \/ a \in Unparsable
      <3>1. addrInfo'[e] = lastParsed'[e]
        BY <1>t, <1>m, <2>6, <2>h, <2>i DEF CacheAgrees, FirstPktinfo
      <3>2. CacheAgrees(e)'
        BY <1>t, <2>6, <2>i DEF CacheAgrees, FirstPktinfo
      <3>3. \A x \in Entries \ {e} : addrInfo'[x] = addrInfo[x] /\ addrCache'[x] = addrCache[x]
                                   /\ lastParsed'[x] = lastParsed[x]
        BY <1>t, <2>6, <2>h
      <3>4. \A x \in Entries : InTable(x)' => addrInfo'[x] = lastParsed'[x]
        BY <2>3, <3>1, <3>3 DEF Replies, RepliesFollowClient
      <3>5. \A x \in Entries : InTable(x)' => CacheAgrees(x)'
        BY <1>t, <2>3, <3>2, <3>3 DEF Replies, CacheAgrees, FirstPktinfo
      <3> QED  BY <1>t, <2>1, <2>6, <3>4, <3>5 DEF Replies, RepliesFollowClient
    <2>7. CASE AddressBased
      <3>1. \/ UNCHANGED <<addrCache, addrInfo>> /\ (addrCache[e] = a \/ a \in Unparsable)
            \/ /\ addrCache' = [addrCache EXCEPT ![e] = a]
               /\ addrInfo' = [addrInfo EXCEPT ![e] = a]
               /\ a \notin Unparsable
        BY <1>3, <2>2, <2>7 DEF QueueStep, NATExisting
      <3> QED  BY <2>5, <2>6, <2>7, <3>1
    <2>8. CASE ~AddressBased
      <3>1. /\ addrCache' = [addrCache EXCEPT ![e] = a]
            /\ \/ /\ addrInfo' = [addrInfo EXCEPT ![e] = a]
                  /\ a \notin Unparsable
               \/ UNCHANGED addrInfo /\ (addrCache[e] = a \/ a \in Unparsable)
        BY <1>3, <2>2, <2>8 DEF QueueStep, RecvExisting
      <3> QED  BY <2>5, <2>6, <2>8, <3>1
    <2> QED  BY <2>7, <2>8
  <1>4. ASSUME NEW c \in Csids, NEW a \in Addrs, OpenStep(c, a) PROVE Replies'
    <2>1. CASE UNCHANGED <<table, pc, addrVars, replyTo>>
      BY <1>1, <2>1
    <2>2. ASSUME NEW e \in Entries, pc[e] = "none",
                 table' = [table EXCEPT ![c] = e],
                 pc' = [pc EXCEPT ![e] = "router"],
                 addrCache' = [addrCache EXCEPT ![e] = a],
                 NEW i, addrInfo' = [addrInfo EXCEPT ![e] = i],
                 lastParsed' = [lastParsed EXCEPT ![e] = i],
                 replyTo' = [replyTo EXCEPT ![e] = i],
                 AddressBased => i = FirstPktinfo(a),
                 ~AddressBased => i = a,
                 ~Runs("nat") => i \in Addrs \ Unparsable
          PROVE  Replies'
      <3>1. \A x \in Entries \ {e} : InTable(x)' => InTable(x)
        BY <1>t, <2>2 DEF InTable
      <3>2. RepliesFollowClient' /\ \A x \in Entries : InTable(x)' => CacheAgrees(x)'
        BY <1>t, <2>2, <3>1 DEF Replies, RepliesFollowClient, CacheAgrees, FirstPktinfo
      <3>3. ASSUME ~Runs("nat"), NEW x \in Entries, pc'[x] # "none"
            PROVE  replyTo'[x] \in Addrs \ Unparsable /\ addrInfo'[x] \in Addrs \ Unparsable
        <4>1. CASE x = e
          BY <1>t, <2>2, <3>3, <4>1
        <4>2. CASE x # e
          BY <1>t, <2>2, <3>3, <4>2 DEF Replies
        <4> QED  BY <4>1, <4>2
      <3> QED  BY <1>t, <3>2, <3>3 DEF Replies
    <2>3. CASE ~AddressBased /\ RecvNew(c, a)
      BY <2>1, <2>2, <2>3 DEF RecvNew, Heard
    <2>4. CASE AddressBased /\ NATNew(c, a) /\ (Batched => a # NoCmsg)
      <3>1. CASE a \in Unparsable \ {NoCmsg}
        BY <2>1, <2>4, <3>1 DEF NATNew
      <3>2. CASE a \notin Unparsable \ {NoCmsg}
        <4>1. ~Runs("nat") => FirstPktinfo(a) \in Addrs \ Unparsable
          BY <1>m, <2>4, <3>2 DEF FirstPktinfo
        <4> QED  BY <2>2, <2>4, <3>2, <4>1 DEF NATNew
      <3> QED  BY <3>1, <3>2
    <2> QED  BY <1>4, <2>3, <2>4 DEF OpenStep
  <1>5. ASSUME NEW e \in Entries, SetUpStep(e) PROVE Replies'
    <2>1. UNCHANGED <<addrVars, table, replyTo>> /\ pc[e] # "none"
      BY <1>5 DEF SetUpStep, RouterFails, RouterOk, NewClientSession, NATNewClientSession,
                  NewPackerAEAD, NewPackerBlock, ListenUDP, SwapState, StartRelay
    <2>2. \E l : pc' = [pc EXCEPT ![e] = l]
      BY <1>5 DEF SetUpStep, RouterFails, RouterOk, NewClientSession, NATNewClientSession,
                  NewPackerAEAD, NewPackerBlock, ListenUDP, SwapState, StartRelay
    <2> QED  BY <1>t, <1>1, <2>1, <2>2
  <1>6. ASSUME NEW e \in Entries, DownStep(e) PROVE Replies'
    <2>1. UNCHANGED <<addrVars, table>>
      BY <1>6 DEF DownStep, DownRead, NATDownRead, MmsgDownRead, NATMmsgDownRead, DownWrite,
                  NATDownWrite, DownTimeout, NatTimeout
    <2>2. \A x \in Entries : /\ pc'[x] # "none" => pc[x] # "none"
                             /\ replyTo'[x] = replyTo[x] \/ replyTo'[x] = addrInfo[x]
      BY <1>t, <1>6 DEF DownStep, DownRead, NATDownRead, MmsgDownRead, NATMmsgDownRead, DownWrite,
                  NATDownWrite, DownTimeout, NatTimeout
    <2> QED  BY <1>0, <2>1, <2>2 DEF InTable
  <1>7. ASSUME NEW e \in Entries, LeaveStep(e) PROVE Replies'
    <2>1. UNCHANGED <<addrVars, replyTo>>
      BY <1>7 DEF LeaveStep, DeferredWgDone, Cleanup, Drain
    <2>2. \A x \in Entries : pc'[x] # "none" => pc[x] # "none"
      BY <1>t, <1>7 DEF LeaveStep, DeferredWgDone, Cleanup, Drain
    <2>3. \A x \in Entries : InTable(x)' => InTable(x)
      BY <1>t, <1>7 DEF LeaveStep, DeferredWgDone, Cleanup, Drain, InTable
    <2> QED  BY <1>0, <2>1, <2>2, <2>3
  <1>8. ASSUME NEW e \in Entries, UplinkStep(e) PROVE Replies'
    BY <1>1, <1>8 DEF UplinkStep, UpPack, UpWrite, UpExtend, UpReceive, UpClose, MmsgUpPack,
                  MmsgUpNext, MmsgUpWrite, MmsgUpLogsError, uplinkOthers
  <1>9. CASE StopStep
    BY <1>1, <1>9 DEF StopStep, StopRest, StopBegin, StopMwgWait, StopSweep, StopWgWait,
                  StopWgReturn, StopClose, Finished, vars
  <1> QED  BY <1>2, <1>3, <1>4, <1>5, <1>6, <1>7, <1>8, <1>9 DEF Step

-----------------------------------------------------------------------------
(* The invariant *)

(* It holds when a relay has been started. *)
LEMMA InitInvariant == InitRelays => IInv
  <1> SUFFICES ASSUME InitRelays PROVE IInv
    OBVIOUS
  <1> USE DEF InitRelays, InitMmsg, Init
  <1>1. Types
    BY RelayAssumption, MmsgAssumption DEF Types, PcLabels, UpLabels, SetupLabels, Holding
  <1>2. Batches
    BY MmsgAssumption DEF Batches, BatchNeitherEmptyNorOverrun
  <1>3. Table
    BY RelayAssumption DEF Table, Alive, TableIsExact, TableHoldsLiveSessions, OneOpenSessionPerClient
  <1>4. Life
    BY DEF Life, LifeOf, Alive, SetupLabels
  <1>5. GroupCounts
    <2>1. Counted = {} /\ Uplinks = {}
      BY DEF Counted, Uplinks, CountedLabels, SetupLabels
    <2>2. Cardinality(Counted) = 0 /\ Cardinality(Uplinks) = 0
      BY <2>1, FS_EmptySet
    <2> QED  BY <2>2 DEF GroupCounts
  <1>6. EveryPacketAccountedFor
    <2>1. Holds \in [Entries -> Nat] /\ \A e \in Entries : Holds[e] = 0
      BY DEF Holds, UpHolds, Holding
    <2>2. SumFunction(Holds) = 0
      BY <2>1, RelayAssumption, SumZero
    <2>3. RecvHolds = 0
      BY MmsgAssumption DEF RecvHolds
    <2> QED  BY <1>1, <1>2, <2>2, <2>3, Accounting
  <1>7. Swept
    BY DEF Swept, StopWaitsForRelays
  <1>8. Replies
    BY RelayAssumption DEF Replies, CacheAgrees, RepliesFollowClient, InTable
  <1> QED  BY <1>1, <1>2, <1>3, <1>4, <1>5, <1>6, <1>7, <1>8 DEF IInv

(* Every step keeps it. *)
LEMMA StepInvariant == IInv /\ [NextRelays]_varsRelays => IInv'
  <1> SUFFICES ASSUME IInv, [NextRelays]_varsRelays PROVE IInv'
    OBVIOUS
  <1>0. (Step /\ UNCHANGED setting) \/ UNCHANGED varsRelays
    BY Steps DEF IInv, Types
  <1>1. CASE Step /\ UNCHANGED setting
    <2>1. Types' /\ Batches'
      BY <1>1, TypesStep, BatchesStep DEF IInv
    <2>2. Table' /\ Life' /\ GroupCounts' /\ Swept' /\ Replies'
      BY <1>1, TableStep, LifeStep, GroupStep, SweptStep, RepliesStep DEF IInv
    <2>3. EveryPacketAccountedFor'
      BY <1>1, <2>1, PacketsStep DEF IInv
    <2> QED  BY <2>1, <2>2, <2>3 DEF IInv
  <1>2. CASE UNCHANGED varsRelays
    <2>1. UNCHANGED <<vars, n, left, count, setting>>
      BY <1>2 DEF varsRelays, varsMmsg, mmsgVars
    <2> USE <2>1 DEF vars, addrVars, connVars, chanVars, wgVars, stopVars
    <2>2. UNCHANGED <<recv, out, table, user, serverConn, pc, up, csid, chan, closed, clean, state>>
      OBVIOUS
    <2>3. UNCHANGED <<natConn, deadline, key, addrCache, addrInfo, lastParsed, replyTo, wg, waiter, stop>>
      OBVIOUS
    <2>4. Types' /\ Batches'
      BY <2>2, <2>3 DEF IInv, Types, Batches, BatchNeitherEmptyNorOverrun, Batched
    <2>5. Table' /\ Life'
      BY <2>2, <2>3 DEF IInv, Table, TableIsExact, TableHoldsLiveSessions, OneOpenSessionPerClient,
           Alive, Life, LifeOf
    <2>6. GroupCounts' /\ EveryPacketAccountedFor'
      BY <2>2, <2>3 DEF IInv, GroupCounts, Counted, Uplinks, EveryPacketAccountedFor, Batched,
           PacketsAccountedFor, BatchedPacketsAccountedFor, Owned
    <2>7. Swept' /\ Replies'
      BY <2>2, <2>3 DEF IInv, Swept, StopWaitsForRelays, Replies, AddressBased, Runs,
           CacheAgrees, FirstPktinfo, RepliesFollowClient, InTable
    <2> QED  BY <2>4, <2>5, <2>6, <2>7 DEF IInv
  <1> QED  BY <1>0, <1>1, <1>2

(* The inductive invariant, which the results below are read off. *)
THEOREM Invariance == SpecRelays => []IInv
  BY InitInvariant, StepInvariant, PTL DEF SpecRelays

-----------------------------------------------------------------------------
(* The results *)

(* The type invariant.  The counters of the pool and of the WaitGroup are  *)
(* never negative: no packet is put back twice and Done never panics; a    *)
(* batched uplink never writes an empty batch nor packs beyond its end.    *)
THEOREM TypeCorrect == SpecRelays => []RelaysTypeOK
  <1>1. IInv => RelaysTypeOK
    <2> SUFFICES ASSUME IInv PROVE RelaysTypeOK
      OBVIOUS
    <2>1. wg \in Nat
      BY GroupFinite DEF IInv
    <2>2. out \in Nat
      BY Accounting DEF IInv
    <2>3. left \in 0 .. MaxIov - 1
      BY MmsgAssumption DEF IInv, Types, Batches
    <2> QED  BY <2>1, <2>2, <2>3 DEF IInv, Types, Batches, RelaysTypeOK, TypeOK, PcLabels, UpLabels
  <1> QED  BY <1>1, Invariance, PTL

(* No queued packet is lost or put back twice, in any of the four relays.  *)
THEOREM NoPacketLost == SpecRelays => []EveryPacketAccountedFor
  <1>1. IInv => EveryPacketAccountedFor
    BY DEF IInv
  <1> QED  BY <1>1, Invariance, PTL

(* The receive loop finds in the table the one session of a client that    *)
(* can take packets, and never a closed channel.                           *)
THEOREM TableExact == SpecRelays => []TableIsExact
  <1>1. IInv => TableIsExact
    BY DEF IInv, Table
  <1> QED  BY <1>1, Invariance, PTL

(* Neither the packet that opened a session nor its outgoing socket is     *)
(* used after it was released, and no session leaves a socket open.        *)
THEOREM NoUseAfterRelease == SpecRelays => []NothingUsedAfterRelease
  <1>1. IInv => NothingUsedAfterRelease
    BY DEF IInv, Life, LifeOf, NothingUsedAfterRelease, FirstPacketNotRecycled, NatConnOpenWhileUsed
  <1> QED  BY <1>1, Invariance, PTL

(* serverConn is closed only when no relay is left that would use it, and  *)
(* none starts afterwards.                                                 *)
THEOREM StopWaits == SpecRelays => []StopWaitsForRelays
  <1>1. IInv => StopWaitsForRelays
    BY DEF IInv, Swept
  <1> QED  BY <1>1, Invariance, PTL

(* Replies go to where the session's last packet whose control message     *)
(* parses came from, and the pktinfo a downlink dereferences is never nil. *)
THEOREM RepliesFindTheClient == SpecRelays => []RepliesGoToTheClient
  <1>1. IInv => RepliesGoToTheClient
    BY DEF IInv, Replies, RepliesGoToTheClient, PktinfoNeverNil
  <1> QED  BY <1>1, Invariance, PTL
=============================================================================
