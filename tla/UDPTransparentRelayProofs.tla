---------------------- MODULE UDPTransparentRelayProofs ---------------------
(***************************************************************************)
(* The safety of the transparent UDP relay, proved for any number of       *)
(* clients, sessions and packets and any sizes of channels and batches.    *)
(*                                                                         *)
(* The argument is the one of UDPRelaysProofs; what differs is that        *)
(* nothing but natConn tells Stop that a session is being set up, so that  *)
(* Stop either panics or finds every session of the table relaying, and    *)
(* that replies are put into the vectors of their transparentConns.        *)
(***************************************************************************)
EXTENDS UDPTransparentRelay, FiniteSums

-----------------------------------------------------------------------------
(* The parts of the inductive invariant *)

SetupLabels == {"router", "listen", "start"}
PcLabels == SetupLabels \union {"none", "read", "flush", "wgDone", "cleanup", "drain"}
UpLabels == {"none", "range", "pack", "next", "write", "last", "close"}

Alive(e) == pc[e] # "none" \/ up[e] # "none"

(* TypeOK, except that the counters out and wg are only known to be        *)
(* integers.                                                               *)
Types ==
  /\ recv \in {"fill", "read", "batch", "done"}
  /\ n \in 1 .. MaxIov /\ left \in 0 .. MaxIov /\ out \in Int /\ wg \in Int
  /\ table \in [Clients -> Entries \union {None}]
  /\ serverConn \in {"open", "expired", "closed"}
  /\ pc \in [Entries -> PcLabels]
  /\ up \in [Entries -> UpLabels]
  /\ count \in [Entries -> 0 .. BatchSize]
  /\ client \in [Entries -> Clients \union {None}]
  /\ chan \in [Entries -> 0 .. Capacity]
  /\ closed \in [Entries -> BOOLEAN] /\ clean \in [Entries -> BOOLEAN]
  /\ socket \in [Entries -> {"none", "open", "closed"}]
  /\ natConn \in [Entries -> BOOLEAN]
  /\ deadline \in [Entries -> {"armed", "expired"}]
  /\ tcMap \in [Entries -> SUBSET Sources]
  /\ msgs \in [Entries -> [Sources -> Nat]]
  /\ stop \in {"idle", "mwait", "sweep", "wait", "stopped", "panicked"}

(* The receiver's batch is not longer than the part of its vector that has *)
(* to be filled anew, and an uplink packs and writes only what it has      *)
(* slots and packets for.                                                  *)
Batches ==
  /\ recv = "batch" => left \in 1 .. n
  /\ recv # "batch" => left = 0
  /\ \A e \in Entries :
       /\ up[e] \in {"none", "range", "close"} => count[e] = 0
       /\ up[e] = "pack" => count[e] < BatchSize
       /\ up[e] = "next" => count[e] \in 1 .. BatchSize - 1

(* The table, as in the other relays. *)
Table ==
  /\ \A e \in Entries :
       /\ Alive(e) => client[e] \in Clients
       /\ pc[e] \notin {"none", "drain"} => ~closed[e]
       /\ Alive(e) /\ ~closed[e] => table[client[e]] = e
  /\ TableHoldsLiveSessions

(* The life of a session: natConn is set exactly when the uplink starts,   *)
(* and an uplink that has seen the end of its channel leaves nothing in it.*)
LifeOf(e) ==
  /\ pc[e] \in SetupLabels => ~clean[e]
  /\ pc[e] \in {"read", "flush"} => clean[e]
  /\ pc[e] = "drain" => ~clean[e]
  /\ ~clean[e] => up[e] = "none"
  /\ clean[e] /\ pc[e] # "none" => up[e] # "none"
  /\ natConn[e] = clean[e]
  /\ up[e] \in {"last", "close"} => chan[e] = 0 /\ closed[e]
  /\ ~Alive(e) => chan[e] = 0
  /\ socket[e] = "open" <=> pc[e] \in {"start", "read", "flush"} \/ up[e] # "none"

Life == \A e \in Entries : LifeOf(e)

(* The vectors of the transparentConns: between two batches of replies all *)
(* are empty, and what is not empty belongs to one that will be flushed.   *)
VectorsOf(e) ==
  /\ pc[e] \notin {"read", "flush"} => tcMap[e] = {}
  /\ \A s \in Sources :
       /\ msgs[e][s] <= BatchSize
       /\ pc[e] # "flush" => msgs[e][s] = 0
       /\ msgs[e][s] # 0 => s \in tcMap[e]

Vectors == \A e \in Entries : VectorsOf(e)

(* s.wg counts the session goroutines between RouterOk and DeferredWgDone  *)
(* and the uplinks.                                                        *)
CountedLabels == {"listen", "start", "read", "flush", "wgDone"}
Counted == {e \in Entries : pc[e] \in CountedLabels}
Uplinks == {e \in Entries : up[e] # "none"}

GroupCounts == wg = Cardinality(Counted) + Cardinality(Uplinks)

(* Stop: no new sessions once it sweeps, and if it did not panic then, no  *)
(* session was still being set up.                                         *)
Swept ==
  /\ stop \in {"sweep", "wait", "stopped"} => recv = "done"
  /\ stop \in {"wait", "stopped"} => \A e \in Entries : pc[e] \notin SetupLabels
  /\ StopWaitsForRelays

IInv == Types /\ Batches /\ Table /\ Life /\ Vectors /\ GroupCounts /\ PacketsAccountedFor /\ Swept

-----------------------------------------------------------------------------
(* The steps of Next, by goroutine *)

RecvStep == Fill \/ Recvmmsg \/ RecvmmsgFails \/ RecvmmsgDeadline \/ HandleBad

SessionStep(e) ==
  \/ RouterOk(e) \/ RouterFails(e) \/ ListenUDP(e) \/ StartRelay(e)
  \/ DownRead(e) \/ DownFlush(e) \/ DownTimeout(e) \/ NatTimeout(e)
  \/ DeferredWgDone(e) \/ Cleanup(e) \/ Drain(e)

StopStep == StopBegin \/ StopMwgWait \/ StopSweep \/ StopWgWait \/ Finished

(* Every step is one of those. *)
LEMMA Steps ==
  ASSUME Next
  PROVE  \/ RecvStep
         \/ \E c \in Clients : HandleExisting(c) \/ HandleNew(c)
         \/ \E e \in Entries : SessionStep(e) \/ Uplink(e)
         \/ StopStep
  BY DEF Next, Handle, Leave, StopRest, RecvStep, SessionStep, StopStep

-----------------------------------------------------------------------------
(* Types *)

(* What a batch of replies adds to the vector of a source. *)
LEMMA VectorGrowth ==
  ASSUME NEW k \in 1 .. BatchSize, NEW I \in SUBSET (1 .. k)
  PROVE  Cardinality(I) \in 0 .. BatchSize
  <1>1. IsFiniteSet(1 .. k) /\ Cardinality(1 .. k) = k
    BY TransparentAssumption, FS_Interval
  <1>2. IsFiniteSet(I) /\ Cardinality(I) <= k
    BY <1>1, FS_Subset
  <1>3. Cardinality(I) \in Nat
    BY <1>2, FS_CardinalityType
  <1> QED  BY <1>2, <1>3, TransparentAssumption

(* What DownRead does to the session it is about. *)
LEMMA DownReadEffect ==
  ASSUME Types, NEW e \in Entries, DownRead(e)
  PROVE  \E T \in SUBSET Sources, m \in [Sources -> 0 .. BatchSize], l \in {"read", "flush"} :
           /\ tcMap' = [tcMap EXCEPT ![e] = @ \union T]
           /\ msgs' = [msgs EXCEPT ![e] = [s \in Sources |-> msgs[e][s] + m[s]]]
           /\ pc' = [pc EXCEPT ![e] = l]
           /\ \A s \in Sources : m[s] # 0 => s \in T /\ l = "flush"
  <1>0. PICK k \in 1 .. BatchSize :
          \E batch \in [1 .. k -> Sources \union {Bad}], refused \in SUBSET (Sources \ tcMap[e]) :
            LET kept == {i \in 1 .. k : batch[i] \notin refused \union {Bad}} IN
            /\ \A s \in refused : \E i \in 1 .. k : batch[i] = s
            /\ tcMap' = [tcMap EXCEPT ![e] = @ \union {batch[i] : i \in kept}]
            /\ msgs' = [msgs EXCEPT ![e] = [s \in Sources |->
                          @[s] + Cardinality({i \in kept : batch[i] = s})]]
            /\ Goto(e, IF kept = {} THEN "read" ELSE "flush")
    BY Zenon DEF DownRead
  <1>1. PICK batch \in [1 .. k -> Sources \union {Bad}], refused \in SUBSET (Sources \ tcMap[e]) :
          LET kept == {i \in 1 .. k : batch[i] \notin refused \union {Bad}} IN
          /\ tcMap' = [tcMap EXCEPT ![e] = @ \union {batch[i] : i \in kept}]
          /\ msgs' = [msgs EXCEPT ![e] = [s \in Sources |->
                        @[s] + Cardinality({i \in kept : batch[i] = s})]]
          /\ Goto(e, IF kept = {} THEN "read" ELSE "flush")
    BY <1>0, Zenon
  <1> DEFINE kept == {i \in 1 .. k : batch[i] \notin refused \union {Bad}}
             T == {batch[i] : i \in kept}
             m == [s \in Sources |-> Cardinality({i \in kept : batch[i] = s})]
             l == IF kept = {} THEN "read" ELSE "flush"
  <1>2. T \in SUBSET Sources
    OBVIOUS
  <1>3. m \in [Sources -> 0 .. BatchSize]
    <2>1. ASSUME NEW s \in Sources PROVE Cardinality({i \in kept : batch[i] = s}) \in 0 .. BatchSize
      <3>1. {i \in kept : batch[i] = s} \in SUBSET (1 .. k)
        OBVIOUS
      <3> HIDE DEF kept
      <3> QED  BY <3>1, VectorGrowth
    <2> HIDE DEF kept
    <2> QED  BY <2>1
  <1>4. ASSUME NEW s \in Sources, m[s] # 0 PROVE s \in T /\ l = "flush"
    <2>1. {i \in kept : batch[i] = s} # {}
      <3> HIDE DEF kept
      <3> QED  BY <1>4, FS_EmptySet
    <2> HIDE DEF kept
    <2> QED  BY <2>1
  <1>5. /\ tcMap' = [tcMap EXCEPT ![e] = @ \union T]
        /\ msgs' = [msgs EXCEPT ![e] = [s \in Sources |-> msgs[e][s] + m[s]]]
        /\ pc' = [pc EXCEPT ![e] = l]
    <2>1. msgs' = [msgs EXCEPT ![e] = [s \in Sources |->
                      msgs[e][s] + Cardinality({i \in kept : batch[i] = s})]]
      BY <1>1 DEF Types
    <2>2. [s \in Sources |-> msgs[e][s] + Cardinality({i \in kept : batch[i] = s})]
             = [s \in Sources |-> msgs[e][s] + m[s]]
      <3> HIDE DEF kept
      <3> QED  OBVIOUS
    <2> QED  BY <1>1, <2>1, <2>2 DEF Goto
  <1>6. l \in {"read", "flush"}
    OBVIOUS
  <1> HIDE DEF kept, T, m, l
  <1> QED  BY <1>2, <1>3, <1>4, <1>5, <1>6, ZenonT(40)

(* The types are kept. *)
LEMMA TypesStep ==
  ASSUME Types, Batches, Next
  PROVE  Types'
  <1>u. ASSUME NEW e \in Entries, chan[e] > 0
        PROVE  [chan EXCEPT ![e] = @ - 1] \in [Entries -> 0 .. Capacity]
    BY <1>u, TransparentAssumption DEF Types
  <1>v. ASSUME NEW e \in Entries, chan[e] < Capacity
        PROVE  [chan EXCEPT ![e] = @ + 1] \in [Entries -> 0 .. Capacity]
    BY <1>v, TransparentAssumption DEF Types
  <1>w. ASSUME NEW e \in Entries, up[e] = "pack"
        PROVE  [count EXCEPT ![e] = @ + 1] \in [Entries -> 0 .. BatchSize]
    <2>1. count[e] + 1 \in 0 .. BatchSize
      BY <1>w, TransparentAssumption DEF Types, Batches
    <2> QED  BY <2>1, TransparentAssumption DEF Types
  <1>d. ASSUME NEW e \in Entries, DownRead(e)
        PROVE  \E T \in SUBSET Sources, m \in [Sources -> 0 .. BatchSize], l \in {"read", "flush"} :
                 /\ tcMap' = [tcMap EXCEPT ![e] = @ \union T]
                 /\ msgs' = [msgs EXCEPT ![e] = [s \in Sources |-> msgs[e][s] + m[s]]]
                 /\ pc' = [pc EXCEPT ![e] = l]
                 /\ \A s \in Sources : m[s] # 0 => s \in T /\ l = "flush"
    BY <1>d, DownReadEffect, Zenon
  <1> USE TransparentAssumption
  <1> USE DEF Types, UpLabels, PcLabels, SetupLabels, recvVars, chanVars, connVars, tcVars, stopVars,
              sessionVars, stopOthers, RecvAt, At, UpAt, Goto, PutQueuedPackets, NextMessage
  <1>1. CASE RecvStep
    <2>1. CASE Fill
      BY <2>1 DEF Fill
    <2>2. CASE Recvmmsg
      BY <2>2 DEF Recvmmsg
    <2>3. CASE RecvmmsgFails
      BY <2>3 DEF RecvmmsgFails
    <2>4. CASE RecvmmsgDeadline
      BY <2>4 DEF RecvmmsgDeadline
    <2>5. CASE HandleBad
      BY <2>5 DEF HandleBad, Batches
    <2> QED  BY <1>1, <2>1, <2>2, <2>3, <2>4, <2>5 DEF RecvStep
  <1>2. ASSUME NEW c \in Clients, HandleExisting(c) PROVE Types'
    <2>1. table[c] \in Entries
      BY <1>2 DEF HandleExisting
    <2>2. chan' \in [Entries -> 0 .. Capacity] /\ out' \in Int
      BY <1>2, <1>v, <2>1 DEF HandleExisting
    <2>3. left' \in 0 .. MaxIov /\ recv' \in {"fill", "batch"}
      BY <1>2 DEF HandleExisting, Batches
    <2> QED  BY <1>2, <2>2, <2>3 DEF HandleExisting
  <1>3. ASSUME NEW c \in Clients, HandleNew(c) PROVE Types'
    <2>1. left' \in 0 .. MaxIov /\ recv' \in {"fill", "batch"}
      BY <1>3 DEF HandleNew, Batches
    <2>2. PICK e \in Entries :
            /\ table' = [table EXCEPT ![c] = e]
            /\ client' = [client EXCEPT ![e] = c]
            /\ pc' = [pc EXCEPT ![e] = "router"]
            /\ chan' = [chan EXCEPT ![e] = 1]
            /\ closed' = [closed EXCEPT ![e] = FALSE]
            /\ clean' = [clean EXCEPT ![e] = FALSE]
            /\ socket' = [socket EXCEPT ![e] = "none"]
            /\ natConn' = [natConn EXCEPT ![e] = FALSE]
            /\ deadline' = [deadline EXCEPT ![e] = "armed"]
      BY <1>3 DEF HandleNew
    <2>3. /\ table' \in [Clients -> Entries \union {None}]
          /\ client' \in [Entries -> Clients \union {None}]
          /\ pc' \in [Entries -> PcLabels]
          /\ chan' \in [Entries -> 0 .. Capacity]
      BY <2>2
    <2>4. /\ closed' \in [Entries -> BOOLEAN] /\ clean' \in [Entries -> BOOLEAN]
          /\ socket' \in [Entries -> {"none", "open", "closed"}]
          /\ natConn' \in [Entries -> BOOLEAN]
          /\ deadline' \in [Entries -> {"armed", "expired"}]
      BY <2>2
    <2> QED  BY <1>3, <2>1, <2>3, <2>4 DEF HandleNew
  <1>4. ASSUME NEW e \in Entries, SessionStep(e) PROVE Types'
    <2>1. CASE RouterOk(e)
      BY <2>1 DEF RouterOk
    <2>2. CASE RouterFails(e)
      BY <2>2 DEF RouterFails
    <2>3. CASE ListenUDP(e)
      <3>1. socket' \in [Entries -> {"none", "open", "closed"}] /\ pc' \in [Entries -> PcLabels]
        BY <2>3 DEF ListenUDP
      <3> QED  BY <2>3, <3>1 DEF ListenUDP
    <2>4. CASE StartRelay(e)
      BY <2>4 DEF StartRelay
    <2>5. CASE DownRead(e)
      <3>1. PICK T \in SUBSET Sources, m \in [Sources -> 0 .. BatchSize], l \in {"read", "flush"} :
              /\ tcMap' = [tcMap EXCEPT ![e] = @ \union T]
              /\ msgs' = [msgs EXCEPT ![e] = [s \in Sources |-> msgs[e][s] + m[s]]]
              /\ pc' = [pc EXCEPT ![e] = l]
              /\ \A s \in Sources : m[s] # 0 => s \in T /\ l = "flush"
        BY <2>5, <1>d, Zenon
      <3>2. [s \in Sources |-> msgs[e][s] + m[s]] \in [Sources -> Nat]
        <4>1. \A s \in Sources : msgs[e][s] \in Nat /\ m[s] \in Nat
          OBVIOUS
        <4> QED  BY <4>1
      <3>3. msgs' \in [Entries -> [Sources -> Nat]]
        BY <3>1, <3>2
      <3>4. tcMap' \in [Entries -> SUBSET Sources] /\ pc' \in [Entries -> PcLabels]
        BY <3>1
      <3> QED  BY <2>5, <3>3, <3>4 DEF DownRead
    <2>6. CASE DownFlush(e)
      <3>1. [s \in Sources |-> IF s \in tcMap[e] THEN 0 ELSE msgs[e][s]] \in [Sources -> Nat]
        OBVIOUS
      <3>2. msgs' = [msgs EXCEPT ![e] = [s \in Sources |-> IF s \in tcMap[e] THEN 0 ELSE msgs[e][s]]]
        BY <2>6 DEF DownFlush
      <3>3. msgs' \in [Entries -> [Sources -> Nat]]
        BY <3>1, <3>2
      <3> QED  BY <2>6, <3>3 DEF DownFlush
    <2>7. CASE DownTimeout(e)
      BY <2>7 DEF DownTimeout
    <2>8. CASE NatTimeout(e)
      BY <2>8 DEF NatTimeout
    <2>9. CASE DeferredWgDone(e)
      BY <2>9 DEF DeferredWgDone
    <2>10. CASE Cleanup(e)
      BY <2>10 DEF Cleanup
    <2>11. CASE Drain(e)
      <3>0. UNCHANGED <<out, chan>> \/ (chan[e] > 0 /\ chan' = [chan EXCEPT ![e] = @ - 1] /\ out' = out - 1)
        BY <2>11 DEF Drain
      <3>1. chan' \in [Entries -> 0 .. Capacity] /\ out' \in Int
        BY <1>u, <3>0
      <3>2. UNCHANGED pc \/ pc' = [pc EXCEPT ![e] = "none"]
        BY <2>11 DEF Drain
      <3>3. pc' \in [Entries -> PcLabels]
        BY <3>2
      <3> QED  BY <2>11, <3>1, <3>3 DEF Drain
    <2> QED  BY <1>4, <2>1, <2>2, <2>3, <2>4, <2>5, <2>6, <2>7, <2>8, <2>9, <2>10, <2>11 DEF SessionStep
  <1>5. ASSUME NEW e \in Entries, Uplink(e) PROVE Types'
    <2> USE DEF uplinkOthers
    <2>1. CASE UpReceive(e)
      BY <2>1 DEF UpReceive
    <2>2. CASE UpPack(e)
      <3>2. count' \in [Entries -> 0 .. BatchSize] /\ out' \in Int
        BY <1>w, <2>2 DEF UpPack
      <3>3. \E l \in {"write", "next", "range"} : up' = [up EXCEPT ![e] = l]
        BY <2>2 DEF UpPack
      <3>4. up' \in [Entries -> UpLabels]
        BY <3>3
      <3> QED  BY <2>2, <3>2, <3>4 DEF UpPack
    <2>3. CASE UpNext(e)
      <3>1. \E l \in {"write", "last", "pack"} : up' = [up EXCEPT ![e] = l]
        BY <2>3 DEF UpNext
      <3>2. up' \in [Entries -> UpLabels]
        BY <3>1
      <3>3. chan' \in [Entries -> 0 .. Capacity]
        BY <1>u, <2>3, SMTT(20) DEF UpNext
      <3> QED  BY <2>3, <3>2, <3>3 DEF UpNext
    <2>4. CASE UpWrite(e)
      BY <2>4 DEF UpWrite
    <2>5. CASE UpClose(e)
      BY <2>5 DEF UpClose
    <2> QED  BY <1>5, <2>1, <2>2, <2>3, <2>4, <2>5 DEF Uplink
  <1>6. CASE StopStep
    <2>1. CASE StopBegin
      BY <2>1 DEF StopBegin
    <2>2. CASE StopMwgWait
      BY <2>2 DEF StopMwgWait
    <2>3. CASE StopSweep
      BY <2>3 DEF StopSweep
    <2>4. CASE StopWgWait
      BY <2>4 DEF StopWgWait
    <2>5. CASE Finished
      BY <2>5 DEF Finished, vars
    <2> QED  BY <1>6, <2>1, <2>2, <2>3, <2>4, <2>5 DEF StopStep
  <1> QED  BY <1>1, <1>2, <1>3, <1>4, <1>5, <1>6, Steps

-----------------------------------------------------------------------------
(* Batches *)

(* The receiver works through what it has read; an uplink packs no more    *)
(* than its vector holds.                                                  *)
LEMMA BatchesStep ==
  ASSUME Types, Batches, Life, Next
  PROVE  Batches'
  <1> USE DEF recvVars, chanVars, connVars, tcVars, stopVars, sessionVars, stopOthers, RecvAt, At,
              UpAt, Goto, NextMessage
  <1>t. /\ count \in [Entries -> 0 .. BatchSize] /\ up \in [Entries -> UpLabels]
        /\ recv \in {"fill", "read", "batch", "done"}
        /\ n \in 1 .. MaxIov /\ left \in 0 .. MaxIov /\ MaxIov \in Nat /\ BatchSize \in Nat \ {0}
    BY TransparentAssumption DEF Types
  <1>0. ASSUME UNCHANGED <<up, count>>,
               recv' = "batch" => left' \in 1 .. n',
               recv' # "batch" => left' = 0
        PROVE  Batches'
    BY <1>0 DEF Batches
  <1>1. CASE RecvStep
    <2>1. UNCHANGED <<up, count>>
      BY <1>1 DEF RecvStep, Fill, Recvmmsg, RecvmmsgFails, RecvmmsgDeadline, HandleBad
    <2>2. (recv' = "batch" => left' \in 1 .. n') /\ (recv' # "batch" => left' = 0)
      BY <1>t, <1>1 DEF RecvStep, Fill, Recvmmsg, RecvmmsgFails, RecvmmsgDeadline, HandleBad, Batches
    <2> QED  BY <1>0, <2>1, <2>2
  <1>2. ASSUME NEW c \in Clients, HandleExisting(c) \/ HandleNew(c) PROVE Batches'
    <2>1. UNCHANGED <<up, count, n>> /\ recv = "batch" /\ NextMessage
      BY <1>2 DEF HandleExisting, HandleNew
    <2>2. (recv' = "batch" => left' \in 1 .. n') /\ (recv' # "batch" => left' = 0)
      BY <1>t, <2>1 DEF Batches
    <2> QED  BY <1>0, <2>1, <2>2
  <1>3. ASSUME UNCHANGED <<recv, n, left, up, count>> PROVE Batches'
    BY <1>3 DEF Batches
  <1>4. ASSUME NEW e \in Entries, SessionStep(e) PROVE Batches'
    <2>1. CASE StartRelay(e)
      <3>1. up[e] = "none"
        BY <2>1 DEF StartRelay, Life, LifeOf, SetupLabels
      <3>2. count[e] = 0 /\ UNCHANGED <<recv, n, left, count>> /\ up' = [up EXCEPT ![e] = "range"]
        BY <2>1, <3>1 DEF StartRelay, Batches
      <3> QED  BY <1>t, <3>2 DEF Batches
    <2>2. CASE ~ StartRelay(e)
      <3>1. UNCHANGED <<recv, n, left, up, count>>
        BY <1>4, <2>2 DEF SessionStep, RouterOk, RouterFails, ListenUDP, DownRead, DownFlush,
                          DownTimeout, NatTimeout, DeferredWgDone, Cleanup, Drain
      <3> QED  BY <1>3, <3>1
    <2> QED  BY <2>1, <2>2
  <1>5. ASSUME NEW e \in Entries, UNCHANGED <<recv, n, left>>,
               \A x \in Entries \ {e} : count'[x] = count[x] /\ up'[x] = up[x],
               up'[e] \in {"none", "range", "close"} => count'[e] = 0,
               up'[e] = "pack" => count'[e] < BatchSize,
               up'[e] = "next" => count'[e] \in 1 .. BatchSize - 1
        PROVE  Batches'
    BY <1>5 DEF Batches
  <1>6. ASSUME NEW e \in Entries, Uplink(e) PROVE Batches'
    <2> USE DEF uplinkOthers
    <2>1. UNCHANGED <<recv, n, left>>
      BY <1>6 DEF Uplink, UpReceive, UpPack, UpNext, UpWrite, UpClose
    <2>2. \A x \in Entries \ {e} : count'[x] = count[x] /\ up'[x] = up[x]
      BY <1>t, <1>6 DEF Uplink, UpReceive, UpPack, UpNext, UpWrite, UpClose
    <2>3. CASE UpReceive(e)
      BY <1>t, <1>5, <2>1, <2>2, <2>3 DEF UpReceive, Batches
    <2>4. CASE UpPack(e)
      <3>1. count[e] \in 0 .. BatchSize - 1
        BY <1>t, <2>4 DEF UpPack, Batches
      <3>2. CASE count' = [count EXCEPT ![e] = @ + 1]
        <4>1. /\ count'[e] = count[e] + 1
              /\ up'[e] = IF count[e] + 1 = BatchSize THEN "write" ELSE "next"
          BY <1>t, <2>4, <3>1, <3>2 DEF UpPack
        <4> QED  BY <1>t, <1>5, <2>1, <2>2, <3>1, <4>1
      <3>3. CASE UNCHANGED count /\ up' = [up EXCEPT ![e] = IF count[e] = 0 THEN "range" ELSE "next"]
        <4>1. count'[e] = count[e] /\ up'[e] = IF count[e] = 0 THEN "range" ELSE "next"
          BY <1>t, <3>3
        <4> QED  BY <1>t, <1>5, <2>1, <2>2, <3>1, <4>1
      <3> QED  BY <2>4, <3>2, <3>3 DEF UpPack
    <2>5. CASE UpNext(e)
      <3>1. count'[e] = count[e] /\ count[e] \in 1 .. BatchSize - 1
        BY <1>t, <2>5 DEF UpNext, Batches
      <3>2. up'[e] \in {"pack", "last", "write"}
        BY <1>t, <2>5 DEF UpNext
      <3> QED  BY <1>t, <1>5, <2>1, <2>2, <3>1, <3>2
    <2>6. CASE UpWrite(e)
      <3>1. count'[e] = 0 /\ up'[e] \in {"close", "range"}
        BY <1>t, <2>6 DEF UpWrite
      <3> QED  BY <1>t, <1>5, <2>1, <2>2, <3>1
    <2>7. CASE UpClose(e)
      <3>1. count'[e] = 0 /\ up'[e] = "none"
        BY <1>t, <2>7 DEF UpClose, Batches
      <3> QED  BY <1>t, <1>5, <2>1, <2>2, <3>1
    <2> QED  BY <1>6, <2>3, <2>4, <2>5, <2>6, <2>7 DEF Uplink
  <1>7. CASE StopStep
    BY <1>3, <1>7 DEF StopStep, StopBegin, StopMwgWait, StopSweep, StopWgWait, Finished, vars
  <1> QED  BY <1>1, <1>2, <1>4, <1>6, <1>7, Steps

-----------------------------------------------------------------------------
(* The table *)

(* Only HandleNew and Cleanup change the table; no other step ends a       *)
(* session that is in it or brings one to life.                            *)
LEMMA TableStep ==
  ASSUME Types, Table, Next
  PROVE  Table'
  <1> USE DEF recvVars, chanVars, connVars, tcVars, stopVars, sessionVars, stopOthers, RecvAt, At,
              UpAt, Goto
  <1>t. /\ table \in [Clients -> Entries \union {None}] /\ client \in [Entries -> Clients \union {None}]
        /\ closed \in [Entries -> BOOLEAN]
        /\ pc \in [Entries -> PcLabels] /\ up \in [Entries -> UpLabels]
        /\ None \notin Entries
    BY TransparentAssumption DEF Types
  <1> DEFINE Open(x) == pc[x] \notin {"none", "drain"}
  <1>0. ASSUME UNCHANGED <<table, client, closed>>,
               \A x \in Entries : Open(x)' = Open(x) /\ (Alive(x)' => Alive(x))
        PROVE  Table'
    BY <1>t, <1>0 DEF Table, TableHoldsLiveSessions, Alive
  <1>1. CASE UNCHANGED <<table, client, closed, pc, up>>
    BY <1>0, <1>1 DEF Alive
  <1>2. CASE RecvStep
    BY <1>1, <1>2 DEF RecvStep, Fill, Recvmmsg, RecvmmsgFails, RecvmmsgDeadline, HandleBad
  <1>3. ASSUME NEW c \in Clients, HandleExisting(c) PROVE Table'
    BY <1>1, <1>3 DEF HandleExisting
  <1>4. ASSUME NEW c \in Clients, HandleNew(c) PROVE Table'
    <2>1. PICK e \in Entries :
             /\ pc[e] = "none" /\ up[e] = "none"
             /\ table' = [table EXCEPT ![c] = e]
             /\ pc' = [pc EXCEPT ![e] = "router"]
             /\ client' = [client EXCEPT ![e] = c]
             /\ closed' = [closed EXCEPT ![e] = FALSE]
      BY <1>4 DEF HandleNew
    <2>2. UNCHANGED up /\ table[c] = None
      BY <1>4 DEF HandleNew
    <2>3. \A d \in Clients : table[d] # e
      BY <1>t, <2>1 DEF Table, TableHoldsLiveSessions
    <2>4. TableHoldsLiveSessions'
      BY <1>t, <2>1, <2>3 DEF Table, TableHoldsLiveSessions
    <2>5. \A x \in Entries : (Alive(x) => client[x] \in Clients)' /\ (Open(x) => ~closed[x])'
      BY <1>t, <2>1, <2>2 DEF Table, Alive
    <2>6. ASSUME NEW x \in Entries, Alive(x)', ~closed'[x] PROVE table'[client'[x]] = x
      <3>1. CASE x = e
        BY <1>t, <2>1, <3>1
      <3>2. CASE x # e
        <4>1. Alive(x) /\ ~closed[x] /\ client'[x] = client[x]
          BY <1>t, <2>1, <2>2, <2>6, <3>2 DEF Alive
        <4>2. client[x] \in Clients /\ table[client[x]] = x
          BY <4>1 DEF Table
        <4> QED  BY <1>t, <2>1, <2>2, <4>1, <4>2
      <3> QED  BY <3>1, <3>2
    <2> QED  BY <2>4, <2>5, <2>6 DEF Table, Alive
  <1>5. ASSUME NEW e \in Entries, SessionStep(e) PROVE Table'
    <2>1. CASE Cleanup(e)
      <3>1. /\ UNCHANGED <<client, up>> /\ Open(e)
            /\ closed' = [closed EXCEPT ![e] = TRUE]
            /\ table' = [table EXCEPT ![client[e]] = None]
        BY <2>1 DEF Cleanup
      <3>2. \A x \in Entries \ {e} : pc'[x] = pc[x]
        BY <1>t, <2>1 DEF Cleanup
      <3>3. pc'[e] \in {"none", "drain"}
        BY <1>t, <2>1 DEF Cleanup
      <3>4. client[e] \in Clients /\ table[client[e]] = e
        BY <3>1 DEF Table, Alive
      <3>5. \A d \in Clients : d # client[e] => table'[d] = table[d] /\ table[d] # e
        BY <1>t, <3>1, <3>4 DEF Table, TableHoldsLiveSessions
      <3>6. TableHoldsLiveSessions'
        BY <1>t, <3>1, <3>2, <3>4, <3>5 DEF Table, TableHoldsLiveSessions
      <3>7. \A x \in Entries : (Alive(x) => client[x] \in Clients)' /\ (Open(x) => ~closed[x])'
        BY <1>t, <3>1, <3>2, <3>3, <3>4 DEF Table, Alive
      <3>8. ASSUME NEW x \in Entries, Alive(x)', ~closed'[x] PROVE table'[client'[x]] = x
        <4>1. x # e /\ Alive(x) /\ ~closed[x]
          BY <1>t, <3>1, <3>2, <3>8 DEF Alive
        <4>2. client[x] \in Clients /\ table[client[x]] = x
          BY <4>1 DEF Table, Alive
        <4> QED  BY <1>t, <3>1, <3>4, <4>1, <4>2
      <3> QED  BY <3>6, <3>7, <3>8 DEF Table, Alive
    <2>2. CASE ~ Cleanup(e)
      <3>1. UNCHANGED <<table, client, closed>>
        BY <1>5, <2>2 DEF SessionStep, RouterOk, RouterFails, ListenUDP, StartRelay, DownRead,
                          DownFlush, DownTimeout, NatTimeout, DeferredWgDone, Drain
      <3>2. CASE StartRelay(e)
        <4>1. \A x \in Entries : Open(x)' = Open(x) /\ (Alive(x)' => Alive(x))
          BY <1>t, <3>2 DEF StartRelay, Alive
        <4> QED  BY <1>0, <3>1, <4>1
      <3>3. CASE Drain(e)
        <4>1. \A x \in Entries : Open(x)' = Open(x) /\ (Alive(x)' => Alive(x))
          BY <1>t, <3>3 DEF Drain, Alive
        <4> QED  BY <1>0, <3>1, <4>1
      <3>4. CASE NatTimeout(e)
        BY <1>1, <3>4 DEF NatTimeout
      <3>5. CASE ~ StartRelay(e) /\ ~ Drain(e) /\ ~ NatTimeout(e)
        <4>1. UNCHANGED up /\ Open(e)
          BY <1>5, <2>2, <3>5 DEF SessionStep, RouterOk, RouterFails, ListenUDP, DownRead,
                                  DownFlush, DownTimeout, DeferredWgDone
        <4>2. \E l \in PcLabels \ {"none", "drain"} : pc' = [pc EXCEPT ![e] = l]
          <5>1. ASSUME DownRead(e) PROVE \E l \in {"read", "flush"} : pc' = [pc EXCEPT ![e] = l]
            BY <5>1, DownReadEffect
          <5>2. ASSUME ~ DownRead(e)
                PROVE  \E l \in PcLabels \ {"none", "drain"} : pc' = [pc EXCEPT ![e] = l]
            BY <1>5, <2>2, <3>5, <5>2 DEF SessionStep, RouterOk, RouterFails, ListenUDP,
                             DownFlush, DownTimeout, DeferredWgDone, PcLabels, SetupLabels
          <5> QED  BY <5>1, <5>2 DEF PcLabels
        <4>3. \A x \in Entries : Open(x)' = Open(x) /\ (Alive(x)' => Alive(x))
          BY <1>t, <4>1, <4>2 DEF Alive
        <4> QED  BY <1>0, <3>1, <4>3
      <3> QED  BY <3>2, <3>3, <3>4, <3>5
    <2> QED  BY <2>1, <2>2
  <1>6. ASSUME NEW e \in Entries, Uplink(e) PROVE Table'
    <2>1. UNCHANGED <<table, client, closed, pc>> /\ up[e] # "none"
      BY <1>6 DEF Uplink, UpReceive, UpPack, UpNext, UpWrite, UpClose, uplinkOthers
    <2>2. \E l : up' = [up EXCEPT ![e] = l]
      BY <1>6 DEF Uplink, UpReceive, UpPack, UpNext, UpWrite, UpClose
    <2>3. \A x \in Entries : Open(x)' = Open(x) /\ (Alive(x)' => Alive(x))
      BY <1>t, <2>1, <2>2 DEF Alive
    <2> QED  BY <1>0, <2>1, <2>3
  <1>7. CASE StopStep
    BY <1>1, <1>7 DEF StopStep, StopBegin, StopMwgWait, StopSweep, StopWgWait, Finished, vars
  <1> QED  BY <1>2, <1>3, <1>4, <1>5, <1>6, <1>7, Steps

-----------------------------------------------------------------------------
(* The life of a session *)

(* A step is about one session at most, whose life goes on. *)
LEMMA LifeStep ==
  ASSUME Types, Batches, Table, Life, Next
  PROVE  Life'
  <1> USE DEF recvVars, chanVars, connVars, tcVars, stopVars, sessionVars, stopOthers, RecvAt, At,
              UpAt, Goto, Alive, SetupLabels
  <1>t. /\ pc \in [Entries -> PcLabels] /\ up \in [Entries -> UpLabels]
        /\ chan \in [Entries -> Nat] /\ clean \in [Entries -> BOOLEAN]
        /\ closed \in [Entries -> BOOLEAN] /\ natConn \in [Entries -> BOOLEAN]
        /\ socket \in [Entries -> {"none", "open", "closed"}]
    BY TransparentAssumption DEF Types
  <1>0. CASE UNCHANGED <<pc, up, chan, closed, clean, natConn, socket>>
    BY <1>0 DEF Life, LifeOf
  <1>1. ASSUME NEW e \in Entries, LifeOf(e)',
               \A x \in Entries \ {e} :
                 /\ pc'[x] = pc[x] /\ up'[x] = up[x] /\ chan'[x] = chan[x]
                 /\ closed'[x] = closed[x] /\ clean'[x] = clean[x]
                 /\ natConn'[x] = natConn[x] /\ socket'[x] = socket[x]
        PROVE  Life'
    BY <1>1 DEF Life, LifeOf
  <1>2. CASE RecvStep
    BY <1>0, <1>2 DEF RecvStep, Fill, Recvmmsg, RecvmmsgFails, RecvmmsgDeadline, HandleBad
  <1>3. ASSUME NEW c \in Clients, HandleExisting(c) PROVE Life'
    <2>1. UNCHANGED <<pc, up, closed, clean, natConn, socket>> /\ table[c] # None
      BY <1>3 DEF HandleExisting
    <2>2. UNCHANGED chan \/ chan' = [chan EXCEPT ![table[c]] = @ + 1]
      BY <1>3 DEF HandleExisting
    <2>3. PICK e \in Entries : e = table[c] /\ pc[e] # "none" /\ ~closed[e]
      BY <2>1 DEF Types, Table, TableHoldsLiveSessions
    <2>4. CASE chan' = [chan EXCEPT ![e] = @ + 1]
      <3>1. LifeOf(e)'
        BY <1>t, <2>1, <2>3, <2>4 DEF Life, LifeOf
      <3> QED  BY <1>t, <1>1, <2>1, <2>4, <3>1
    <2> QED  BY <1>0, <2>1, <2>2, <2>3, <2>4
  <1>4. ASSUME NEW c \in Clients, HandleNew(c) PROVE Life'
    <2>1. PICK e \in Entries :
             /\ pc[e] = "none" /\ up[e] = "none"
             /\ pc' = [pc EXCEPT ![e] = "router"]
             /\ chan' = [chan EXCEPT ![e] = 1]
             /\ closed' = [closed EXCEPT ![e] = FALSE]
             /\ clean' = [clean EXCEPT ![e] = FALSE]
             /\ socket' = [socket EXCEPT ![e] = "none"]
             /\ natConn' = [natConn EXCEPT ![e] = FALSE]
      BY <1>4 DEF HandleNew
    <2>2. UNCHANGED up
      BY <1>4 DEF HandleNew
    <2>3. LifeOf(e)'
      BY <1>t, <2>1, <2>2 DEF LifeOf
    <2> QED  BY <1>t, <1>1, <2>1, <2>2, <2>3
  <1>5. ASSUME NEW e \in Entries, SessionStep(e) PROVE Life'
    <2>0. LifeOf(e)
      BY DEF Life
    <2>1. CASE NatTimeout(e)
      BY <1>0, <2>1 DEF NatTimeout
    <2>2. CASE DownRead(e)
      <3>1. UNCHANGED <<up, chan, closed, clean, natConn, socket>> /\ pc[e] = "read"
        BY <2>2 DEF DownRead
      <3>2. \E l \in {"read", "flush"} : pc' = [pc EXCEPT ![e] = l]
        BY <2>2, DownReadEffect
      <3>3. LifeOf(e)'
        BY <1>t, <2>0, <3>1, <3>2 DEF LifeOf
      <3> QED  BY <1>t, <1>1, <3>1, <3>2, <3>3
    <2>3. CASE ~ NatTimeout(e) /\ ~ DownRead(e)
      <3>1. \A x \in Entries \ {e} :
                 /\ pc'[x] = pc[x] /\ up'[x] = up[x] /\ chan'[x] = chan[x]
                 /\ closed'[x] = closed[x] /\ clean'[x] = clean[x]
                 /\ natConn'[x] = natConn[x] /\ socket'[x] = socket[x]
        BY <1>t, <1>5, <2>3 DEF SessionStep, RouterOk, RouterFails, ListenUDP, StartRelay,
                                DownFlush, DownTimeout, DeferredWgDone, Cleanup, Drain
      <3>2. ASSUME RouterOk(e) \/ RouterFails(e) PROVE LifeOf(e)'
        BY <1>t, <2>0, <3>2 DEF RouterOk, RouterFails, LifeOf
      <3>3. ASSUME ListenUDP(e) PROVE LifeOf(e)'
        BY <1>t, <2>0, <3>3 DEF ListenUDP, LifeOf
      <3>4. ASSUME StartRelay(e) PROVE LifeOf(e)'
        BY <1>t, <2>0, <3>4 DEF StartRelay, LifeOf
      <3>5. ASSUME DownFlush(e) \/ DownTimeout(e) \/ DeferredWgDone(e) PROVE LifeOf(e)'
        BY <1>t, <2>0, <3>5 DEF DownFlush, DownTimeout, DeferredWgDone, LifeOf
      <3>6. ASSUME Cleanup(e) PROVE LifeOf(e)'
        <4>1. pc'[e] = (IF clean[e] THEN "none" ELSE "drain") /\ closed'[e] /\ pc[e] = "cleanup"
          BY <1>t, <3>6 DEF Cleanup
        <4>2. UNCHANGED <<up, chan, clean, natConn, socket>>
          BY <3>6 DEF Cleanup
        <4> QED  BY <1>t, <2>0, <4>1, <4>2 DEF LifeOf
      <3>7. ASSUME Drain(e) PROVE LifeOf(e)'
        BY <1>t, <2>0, <3>7 DEF Drain, LifeOf
      <3>8. LifeOf(e)'
        BY <1>5, <2>3, <3>2, <3>3, <3>4, <3>5, <3>6, <3>7 DEF SessionStep
      <3> QED  BY <1>1, <3>1, <3>8
    <2> QED  BY <2>1, <2>2, <2>3
  <1>6. ASSUME NEW e \in Entries, Uplink(e) PROVE Life'
    <2>1. UNCHANGED <<pc, closed, clean, natConn>> /\ up[e] # "none"
      BY <1>6 DEF Uplink, UpReceive, UpPack, UpNext, UpWrite, UpClose, uplinkOthers
    <2>2. LifeOf(e)
      BY DEF Life
    <2>3. CASE UpClose(e)
      <3>1. pc[e] = "none" /\ chan[e] = 0 /\ UNCHANGED chan
        BY <1>t, <2>1, <2>2, <2>3 DEF UpClose, LifeOf, Table
      <3>2. LifeOf(e)'
        BY <1>t, <2>1, <2>2, <2>3, <3>1 DEF UpClose, LifeOf
      <3> QED  BY <1>t, <1>1, <2>1, <2>3, <3>2 DEF UpClose
    <2>4. CASE ~ UpClose(e)
      <3>1. \E l \in UpLabels \ {"none"} : up' = [up EXCEPT ![e] = l]
        BY <1>6, <2>4 DEF Uplink, UpReceive, UpPack, UpNext, UpWrite, UpLabels
      <3>2. UNCHANGED socket
        BY <1>6, <2>4 DEF Uplink, UpReceive, UpPack, UpNext, UpWrite, uplinkOthers
      <3>3. UNCHANGED chan \/ chan' = [chan EXCEPT ![e] = @ - 1]
        BY <1>6, <2>4 DEF Uplink, UpReceive, UpPack, UpNext, UpWrite
      <3>4. up'[e] \in {"last", "close"} => chan'[e] = 0 /\ closed'[e]
        BY <1>t, <1>6, <2>2, <2>4 DEF Uplink, UpReceive, UpPack, UpNext, UpWrite, uplinkOthers, LifeOf
      <3>5. LifeOf(e)'
        BY <1>t, <2>1, <2>2, <3>1, <3>2, <3>4 DEF LifeOf
      <3> QED  BY <1>t, <1>1, <2>1, <3>1, <3>2, <3>3, <3>5
    <2> QED  BY <2>3, <2>4
  <1>7. CASE StopStep
    BY <1>0, <1>7 DEF StopStep, StopBegin, StopMwgWait, StopSweep, StopWgWait, Finished, vars
  <1> QED  BY <1>2, <1>3, <1>4, <1>5, <1>6, <1>7, Steps

-----------------------------------------------------------------------------
(* The vectors of the transparentConns *)

(* Only the downlink of a session changes its vectors: it fills empty ones *)
(* with at most a batch and empties all it has filled.                     *)
LEMMA VectorsStep ==
  ASSUME Types, Vectors, Next
  PROVE  Vectors'
  <1> USE DEF recvVars, chanVars, connVars, tcVars, stopVars, sessionVars, stopOthers, RecvAt, At,
              UpAt, Goto, SetupLabels
  <1>t. /\ pc \in [Entries -> PcLabels] /\ tcMap \in [Entries -> SUBSET Sources]
        /\ msgs \in [Entries -> [Sources -> Nat]] /\ BatchSize \in Nat
    BY TransparentAssumption DEF Types
  <1>0. ASSUME UNCHANGED <<tcMap, msgs>>,
               \A x \in Entries : \/ pc'[x] = pc[x]
                                  \/ pc[x] \notin {"read", "flush"} /\ pc'[x] # "flush"
        PROVE  Vectors'
    BY <1>0 DEF Vectors, VectorsOf
  <1>1. CASE UNCHANGED <<pc, tcMap, msgs>>
    BY <1>0, <1>1
  <1>2. ASSUME NEW e \in Entries, VectorsOf(e)',
               \A x \in Entries \ {e} :
                 pc'[x] = pc[x] /\ tcMap'[x] = tcMap[x] /\ msgs'[x] = msgs[x]
        PROVE  Vectors'
    BY <1>2 DEF Vectors, VectorsOf
  <1>3. CASE RecvStep
    BY <1>1, <1>3 DEF RecvStep, Fill, Recvmmsg, RecvmmsgFails, RecvmmsgDeadline, HandleBad
  <1>4. ASSUME NEW c \in Clients, HandleExisting(c) \/ HandleNew(c) PROVE Vectors'
    <2>1. UNCHANGED <<tcMap, msgs>>
      BY <1>4 DEF HandleExisting, HandleNew
    <2>2. \A x \in Entries : pc'[x] = pc[x] \/ (pc[x] = "none" /\ pc'[x] = "router")
      BY <1>t, <1>4 DEF HandleExisting, HandleNew
    <2> QED  BY <1>0, <2>1, <2>2
  <1>5. ASSUME NEW e \in Entries, SessionStep(e) PROVE Vectors'
    <2>0. VectorsOf(e)
      BY DEF Vectors
    <2>1. CASE DownRead(e)
      <3>1. PICK T \in SUBSET Sources, m \in [Sources -> 0 .. BatchSize], l \in {"read", "flush"} :
              /\ tcMap' = [tcMap EXCEPT ![e] = @ \union T]
              /\ msgs' = [msgs EXCEPT ![e] = [s \in Sources |-> msgs[e][s] + m[s]]]
              /\ pc' = [pc EXCEPT ![e] = l]
              /\ \A s \in Sources : m[s] # 0 => s \in T /\ l = "flush"
        BY <2>1, DownReadEffect, Zenon
      <3>2. \A s \in Sources : msgs[e][s] = 0
        BY <2>0, <2>1 DEF DownRead, VectorsOf
      <3>3. pc'[e] = l /\ tcMap'[e] = tcMap[e] \union T
        BY <1>t, <3>1
      <3>4. msgs'[e] = [s \in Sources |-> msgs[e][s] + m[s]]
        BY <1>t, <3>1
      <3>5. \A s \in Sources : msgs'[e][s] = m[s]
        BY <3>2, <3>4
      <3>6. VectorsOf(e)'
        BY <1>t, <3>1, <3>3, <3>5 DEF VectorsOf
      <3>7. \A x \in Entries \ {e} : pc'[x] = pc[x] /\ tcMap'[x] = tcMap[x] /\ msgs'[x] = msgs[x]
        BY <1>t, <3>1
      <3> QED  BY <1>2, <3>6, <3>7
    <2>2. CASE DownFlush(e)
      <3>1. /\ msgs' = [msgs EXCEPT ![e] = [s \in Sources |-> IF s \in tcMap[e] THEN 0 ELSE msgs[e][s]]]
            /\ pc' = [pc EXCEPT ![e] = "read"] /\ UNCHANGED tcMap
        BY <2>2 DEF DownFlush
      <3>2. \A s \in Sources : msgs'[e][s] = 0
        BY <1>t, <2>0, <3>1 DEF VectorsOf
      <3>3. VectorsOf(e)'
        BY <1>t, <3>1, <3>2 DEF VectorsOf
      <3>4. \A x \in Entries \ {e} : pc'[x] = pc[x] /\ tcMap'[x] = tcMap[x] /\ msgs'[x] = msgs[x]
        BY <1>t, <3>1
      <3> QED  BY <1>2, <3>3, <3>4
    <2>3. CASE DownTimeout(e)
      <3>1. VectorsOf(e)'
        BY <1>t, <2>0, <2>3 DEF DownTimeout, VectorsOf
      <3>2. \A x \in Entries \ {e} : pc'[x] = pc[x] /\ tcMap'[x] = tcMap[x] /\ msgs'[x] = msgs[x]
        BY <1>t, <2>3 DEF DownTimeout
      <3> QED  BY <1>2, <3>1, <3>2
    <2>4. CASE ~ DownRead(e) /\ ~ DownFlush(e) /\ ~ DownTimeout(e)
      <3>1. UNCHANGED <<tcMap, msgs>>
        BY <1>5, <2>4 DEF SessionStep, RouterOk, RouterFails, ListenUDP, StartRelay, NatTimeout,
                          DeferredWgDone, Cleanup, Drain
      <3>2. \A x \in Entries : \/ pc'[x] = pc[x]
                               \/ pc[x] \notin {"read", "flush"} /\ pc'[x] # "flush"
        BY <1>t, <1>5, <2>4 DEF SessionStep, RouterOk, RouterFails, ListenUDP, StartRelay, NatTimeout,
                          DeferredWgDone, Cleanup, Drain
      <3> QED  BY <1>0, <3>1, <3>2
    <2> QED  BY <2>1, <2>2, <2>3, <2>4
  <1>6. ASSUME NEW e \in Entries, Uplink(e) PROVE Vectors'
    BY <1>1, <1>6 DEF Uplink, UpReceive, UpPack, UpNext, UpWrite, UpClose, uplinkOthers
  <1>7. CASE StopStep
    BY <1>1, <1>7 DEF StopStep, StopBegin, StopMwgWait, StopSweep, StopWgWait, Finished, vars
  <1> QED  BY <1>3, <1>4, <1>5, <1>6, <1>7, Steps

-----------------------------------------------------------------------------
(* The WaitGroup *)

(* The goroutines that s.wg counts are finitely many, and when it is zero  *)
(* there are none.                                                         *)
LEMMA GroupFinite ==
  ASSUME Types
  PROVE  /\ IsFiniteSet(Counted) /\ Cardinality(Counted) \in Nat
         /\ IsFiniteSet(Uplinks) /\ Cardinality(Uplinks) \in Nat
         /\ GroupCounts => wg \in Nat
         /\ GroupCounts /\ wg = 0 => Counted = {} /\ Uplinks = {}
  <1>1. IsFiniteSet(Counted) /\ IsFiniteSet(Uplinks)
    BY TransparentAssumption, FS_Subset DEF Counted, Uplinks
  <1>2. Cardinality(Counted) \in Nat /\ Cardinality(Uplinks) \in Nat
    BY <1>1, FS_CardinalityType
  <1>3. /\ Cardinality(Counted) = 0 <=> Counted = {}
        /\ Cardinality(Uplinks) = 0 <=> Uplinks = {}
    BY <1>1, FS_EmptySet
  <1> QED  BY <1>1, <1>2, <1>3 DEF GroupCounts

(* Every goroutine is counted once from its Add to its Done. *)
LEMMA GroupStep ==
  ASSUME Types, Life, GroupCounts, Next
  PROVE  GroupCounts'
  <1> USE DEF recvVars, chanVars, connVars, tcVars, stopVars, sessionVars, stopOthers, RecvAt, At,
              UpAt, Goto
  <1>t. /\ pc \in [Entries -> PcLabels] /\ up \in [Entries -> UpLabels] /\ wg \in Int
        /\ IsFiniteSet(Counted) /\ Cardinality(Counted) \in Nat
        /\ IsFiniteSet(Uplinks) /\ Cardinality(Uplinks) \in Nat
    BY GroupFinite DEF Types
  <1>0. ASSUME UNCHANGED wg,
               \A x \in Entries : /\ pc'[x] \in CountedLabels <=> pc[x] \in CountedLabels
                                  /\ up'[x] = "none" <=> up[x] = "none"
        PROVE  GroupCounts'
    <2>1. Counted' = Counted /\ Uplinks' = Uplinks
      BY <1>0 DEF Counted, Uplinks
    <2> QED  BY <1>0, <2>1 DEF GroupCounts
  <1>1. CASE RecvStep
    BY <1>0, <1>1 DEF RecvStep, Fill, Recvmmsg, RecvmmsgFails, RecvmmsgDeadline, HandleBad
  <1>2. ASSUME NEW c \in Clients, HandleExisting(c) \/ HandleNew(c) PROVE GroupCounts'
    <2>1. UNCHANGED <<wg, up>>
      BY <1>2 DEF HandleExisting, HandleNew
    <2>2. \/ UNCHANGED pc
          \/ \E e \in Entries : pc[e] = "none" /\ pc' = [pc EXCEPT ![e] = "router"]
      BY <1>2 DEF HandleExisting, HandleNew
    <2>3. \A x \in Entries : pc'[x] \in CountedLabels <=> pc[x] \in CountedLabels
      BY <1>t, <2>2 DEF CountedLabels
    <2> QED  BY <1>0, <2>1, <2>3
  <1>3. ASSUME NEW e \in Entries, SessionStep(e) PROVE GroupCounts'
    <2>1. CASE RouterOk(e)
      <3>1. Counted' = Counted \union {e} /\ e \notin Counted /\ Uplinks' = Uplinks
        BY <1>t, <2>1 DEF RouterOk, Counted, Uplinks, CountedLabels
      <3>2. Cardinality(Counted') = Cardinality(Counted) + 1
        BY <1>t, <3>1, FS_AddElement
      <3> QED  BY <1>t, <2>1, <3>1, <3>2 DEF RouterOk, GroupCounts
    <2>2. CASE StartRelay(e)
      <3>1. up[e] = "none"
        BY <2>2 DEF StartRelay, Life, LifeOf, SetupLabels
      <3>2. Uplinks' = Uplinks \union {e} /\ e \notin Uplinks
        BY <1>t, <2>2, <3>1 DEF StartRelay, Uplinks
      <3>3. Counted' = Counted
        BY <1>t, <2>2 DEF StartRelay, Counted, CountedLabels
      <3>4. Cardinality(Uplinks') = Cardinality(Uplinks) + 1
        BY <1>t, <3>2, FS_AddElement
      <3> QED  BY <1>t, <2>2, <3>3, <3>4 DEF StartRelay, GroupCounts
    <2>3. CASE DeferredWgDone(e)
      <3>1. Counted' = Counted \ {e} /\ e \in Counted /\ Uplinks' = Uplinks
        BY <1>t, <2>3 DEF DeferredWgDone, Counted, Uplinks, CountedLabels
      <3>2. Cardinality(Counted') = Cardinality(Counted) - 1
        BY <1>t, <3>1, FS_RemoveElement
      <3> QED  BY <1>t, <2>3, <3>1, <3>2 DEF DeferredWgDone, GroupCounts
    <2>4. CASE DownRead(e)
      <3>1. UNCHANGED <<wg, up>> /\ pc[e] = "read"
        BY <2>4 DEF DownRead
      <3>2. \E l \in {"read", "flush"} : pc' = [pc EXCEPT ![e] = l]
        BY <2>4, DownReadEffect
      <3>3. \A x \in Entries : pc'[x] \in CountedLabels <=> pc[x] \in CountedLabels
        BY <1>t, <3>1, <3>2 DEF CountedLabels
      <3> QED  BY <1>0, <3>1, <3>3
    <2>5. CASE ~ RouterOk(e) /\ ~ StartRelay(e) /\ ~ DeferredWgDone(e) /\ ~ DownRead(e)
      <3>1. UNCHANGED <<wg, up>>
        BY <1>3, <2>5 DEF SessionStep, RouterFails, ListenUDP, DownFlush, DownTimeout, NatTimeout,
                          Cleanup, Drain
      <3>2. \A x \in Entries : pc'[x] \in CountedLabels <=> pc[x] \in CountedLabels
        BY <1>t, <1>3, <2>5 DEF SessionStep, RouterFails, ListenUDP, DownFlush, DownTimeout,
                          NatTimeout, Cleanup, Drain, CountedLabels
      <3> QED  BY <1>0, <3>1, <3>2
    <2> QED  BY <2>1, <2>2, <2>3, <2>4, <2>5
  <1>4. ASSUME NEW e \in Entries, Uplink(e) PROVE GroupCounts'
    <2>1. CASE UpClose(e)
      <3>1. Uplinks' = Uplinks \ {e} /\ e \in Uplinks /\ Counted' = Counted
        BY <1>t, <2>1 DEF UpClose, Counted, Uplinks
      <3>2. Cardinality(Uplinks') = Cardinality(Uplinks) - 1
        BY <1>t, <3>1, FS_RemoveElement
      <3> QED  BY <1>t, <2>1, <3>1, <3>2 DEF UpClose, GroupCounts
    <2>2. CASE ~ UpClose(e)
      <3>1. UNCHANGED <<wg, pc>> /\ up[e] # "none"
        BY <1>4, <2>2 DEF Uplink, UpReceive, UpPack, UpNext, UpWrite, uplinkOthers
      <3>2. \E l \in UpLabels \ {"none"} : up' = [up EXCEPT ![e] = l]
        BY <1>4, <2>2 DEF Uplink, UpReceive, UpPack, UpNext, UpWrite, UpLabels
      <3>3. \A x \in Entries : up'[x] = "none" <=> up[x] = "none"
        BY <1>t, <3>1, <3>2
      <3> QED  BY <1>0, <3>1, <3>3
    <2> QED  BY <2>1, <2>2
  <1>5. CASE StopStep
    BY <1>0, <1>5 DEF StopStep, StopBegin, StopMwgWait, StopSweep, StopWgWait, Finished, vars
  <1> QED  BY <1>1, <1>2, <1>3, <1>4, <1>5, Steps

-----------------------------------------------------------------------------
(* Stop *)

(* A session that is being set up is in the table and has no natConn: had  *)
(* there been one, Stop would have panicked on it.                         *)
LEMMA SweptStep ==
  ASSUME Types, Table, Life, GroupCounts, Swept, Next
  PROVE  Swept'
  <1> USE DEF recvVars, chanVars, connVars, tcVars, stopVars, sessionVars, stopOthers, RecvAt, At,
              UpAt, Goto
  <1>t. pc \in [Entries -> PcLabels] /\ up \in [Entries -> UpLabels]
    BY DEF Types
  <1> DEFINE Relaying == {"start", "read", "flush"}
  <1>0. ASSUME UNCHANGED <<stop, recv>>,
               \A x \in Entries : /\ pc'[x] \in SetupLabels => pc[x] \in SetupLabels
                                  /\ pc'[x] \in Relaying => pc[x] \in Relaying
                                  /\ up'[x] # "none" => up[x] # "none"
        PROVE  Swept'
    BY <1>0 DEF Swept, StopWaitsForRelays
  <1>1. CASE RecvStep
    <2>1. UNCHANGED <<stop, pc, up>> /\ recv # "done"
      BY <1>1 DEF RecvStep, Fill, Recvmmsg, RecvmmsgFails, RecvmmsgDeadline, HandleBad
    <2> QED  BY <2>1 DEF Swept, StopWaitsForRelays
  <1>2. ASSUME NEW c \in Clients, HandleExisting(c) \/ HandleNew(c) PROVE Swept'
    <2>1. UNCHANGED stop /\ recv = "batch"
      BY <1>2 DEF HandleExisting, HandleNew
    <2> QED  BY <2>1 DEF Swept, StopWaitsForRelays
  <1>3. ASSUME NEW e \in Entries, SessionStep(e) PROVE Swept'
    <2>1. UNCHANGED <<stop, recv>>
      BY <1>3 DEF SessionStep, RouterOk, RouterFails, ListenUDP, StartRelay, DownRead, DownFlush,
                  DownTimeout, NatTimeout, DeferredWgDone, Cleanup, Drain
    <2>2. CASE pc[e] \in SetupLabels
      <3>1. stop \notin {"wait", "stopped"}
        BY <2>2 DEF Swept
      <3> QED  BY <2>1, <3>1 DEF Swept, StopWaitsForRelays
    <2>3. CASE pc[e] \notin SetupLabels
      <3>1. UNCHANGED up
        BY <1>3, <2>3 DEF SessionStep, RouterOk, RouterFails, ListenUDP, StartRelay, DownRead,
                  DownFlush, DownTimeout, NatTimeout, DeferredWgDone, Cleanup, Drain, SetupLabels
      <3>2. \A x \in Entries : /\ pc'[x] \in SetupLabels => pc[x] \in SetupLabels
                               /\ pc'[x] \in Relaying => pc[x] \in Relaying
        <4>1. CASE DownRead(e)
          <5>1. \E l \in {"read", "flush"} : pc' = [pc EXCEPT ![e] = l]
            BY <4>1, DownReadEffect
          <5> QED  BY <1>t, <4>1, <5>1 DEF DownRead, SetupLabels
        <4>2. CASE ~ DownRead(e)
          BY <1>t, <1>3, <2>3, <4>2 DEF SessionStep, RouterOk, RouterFails, ListenUDP, StartRelay,
                  DownFlush, DownTimeout, NatTimeout, DeferredWgDone, Cleanup, Drain, SetupLabels
        <4> QED  BY <4>1, <4>2
      <3> QED  BY <1>0, <2>1, <3>1, <3>2
    <2> QED  BY <2>2, <2>3
  <1>4. ASSUME NEW e \in Entries, Uplink(e) PROVE Swept'
    <2>1. UNCHANGED <<stop, recv, pc>> /\ up[e] # "none"
      BY <1>4 DEF Uplink, UpReceive, UpPack, UpNext, UpWrite, UpClose, uplinkOthers
    <2>2. \E l : up' = [up EXCEPT ![e] = l]
      BY <1>4 DEF Uplink, UpReceive, UpPack, UpNext, UpWrite, UpClose
    <2>3. \A x \in Entries : up'[x] # "none" => up[x] # "none"
      BY <1>t, <2>1, <2>2
    <2> QED  BY <1>0, <2>1, <2>3
  <1>5. CASE StopStep
    <2>1. UNCHANGED <<pc, up, recv>>
      BY <1>5 DEF StopStep, StopBegin, StopMwgWait, StopSweep, StopWgWait, Finished, vars
    <2>2. CASE StopSweep
      <3>1. \A x \in Entries : pc[x] \in SetupLabels => InTable(x) /\ ~natConn[x]
        BY DEF SetupLabels, Table, Alive, InTable, Life, LifeOf
      <3>2. stop' = "wait" => \A x \in Entries : pc[x] \notin SetupLabels
        BY <2>2, <3>1 DEF StopSweep
      <3>3. stop = "sweep" /\ stop' \in {"wait", "panicked"}
        BY <2>2 DEF StopSweep
      <3> QED  BY <2>1, <3>2, <3>3 DEF Swept, StopWaitsForRelays
    <2>3. CASE StopWgWait
      <3>1. Counted = {} /\ Uplinks = {}
        BY <2>3, GroupFinite DEF StopWgWait
      <3>2. \A x \in Entries : pc[x] \notin Relaying /\ up[x] = "none"
        BY <3>1 DEF Counted, Uplinks, CountedLabels
      <3> QED  BY <2>1, <2>3, <3>2 DEF StopWgWait, Swept, StopWaitsForRelays
    <2>4. CASE StopBegin \/ StopMwgWait \/ Finished
      BY <2>1, <2>4 DEF StopBegin, StopMwgWait, Finished, vars, Swept, StopWaitsForRelays
    <2> QED  BY <1>5, <2>2, <2>3, <2>4 DEF StopStep
  <1> QED  BY <1>1, <1>2, <1>3, <1>4, <1>5, Steps

-----------------------------------------------------------------------------
(* Packets *)

(* What session e holds. *)
HoldsOf(e) == chan[e] + count[e] + (IF up[e] = "pack" THEN 1 ELSE 0)

Holds == [e \in Entries |-> HoldsOf(e)]

(* The packets of the pool that are out, in these terms. *)
LEMMA Accounting ==
  ASSUME Types, Batches
  PROVE  /\ PacketsAccountedFor <=> out = Owned + SumFunction(Holds)
         /\ Holds \in [Entries -> Nat] /\ SumFunction(Holds) \in Nat
         /\ Owned \in Nat
  <1>1. Holds \in [Entries -> Nat]
    <2>1. \A e \in Entries : chan[e] \in Nat /\ count[e] \in Nat
      BY TransparentAssumption DEF Types
    <2>2. \A e \in Entries : HoldsOf(e) \in Nat
      BY <2>1 DEF HoldsOf
    <2> QED  BY <2>2 DEF Holds
  <1>2. SumFunction(Holds) \in Nat
    BY <1>1, TransparentAssumption, SumType
  <1>3. Owned \in Nat
    BY TransparentAssumption DEF Owned, Types, Batches
  <1> QED  BY <1>1, <1>2, <1>3 DEF PacketsAccountedFor, Holds, HoldsOf

(* The same in the next state. *)
LEMMA AccountingNext ==
  (Types /\ Batches => /\ PacketsAccountedFor <=> out = Owned + SumFunction(Holds)
                       /\ Holds \in [Entries -> Nat] /\ Owned \in Nat)'
  <1>1. Types /\ Batches => /\ PacketsAccountedFor <=> out = Owned + SumFunction(Holds)
                            /\ Holds \in [Entries -> Nat] /\ Owned \in Nat
    BY Accounting
  <1> QED  BY <1>1, PTL

(* A step moves packets between the pool, the receiver and one session,    *)
(* and loses none.                                                         *)
LEMMA PacketsStep ==
  ASSUME Types, Types', Batches, Batches', Table, Life, PacketsAccountedFor, Next
  PROVE  PacketsAccountedFor'
  <1> USE DEF recvVars, chanVars, connVars, tcVars, stopVars, sessionVars, stopOthers, RecvAt, At,
              UpAt, Goto, PutQueuedPackets
  <1>t. /\ chan \in [Entries -> Nat] /\ count \in [Entries -> Nat] /\ up \in [Entries -> UpLabels]
        /\ recv \in {"fill", "read", "batch", "done"}
        /\ out \in Int /\ n \in Nat /\ left \in Nat /\ MaxIov \in Nat
        /\ Owned \in Nat /\ Owned' \in Nat
        /\ Holds \in [Entries -> Nat] /\ Holds' \in [Entries -> Nat]
        /\ out = Owned + SumFunction(Holds) /\ SumFunction(Holds) \in Nat
    <2>1. /\ chan \in [Entries -> Nat] /\ count \in [Entries -> Nat] /\ up \in [Entries -> UpLabels]
          /\ recv \in {"fill", "read", "batch", "done"}
          /\ out \in Int /\ n \in Nat /\ left \in Nat /\ MaxIov \in Nat
      BY TransparentAssumption DEF Types
    <2>2. Owned' \in Nat /\ Holds' \in [Entries -> Nat]
      BY AccountingNext
    <2> QED  BY <2>1, <2>2, Accounting
  <1>0. ASSUME out' = Owned' + SumFunction(Holds)'
        PROVE  PacketsAccountedFor'
    BY <1>0, AccountingNext
  <1>1. ASSUME NEW e \in Entries,
               \A x \in Entries \ {e} : chan'[x] = chan[x] /\ count'[x] = count[x] /\ up'[x] = up[x],
               out' - Owned' = out - Owned + HoldsOf(e)' - HoldsOf(e), out' \in Int
        PROVE  PacketsAccountedFor'
    <2>1. \A x \in Entries \ {e} : Holds'[x] = Holds[x]
      BY <1>1 DEF Holds, HoldsOf
    <2>2. SumFunction(Holds)' = SumFunction(Holds) + Holds'[e] - Holds[e]
      BY <1>t, <2>1, TransparentAssumption, SumUpdate
    <2>3. Holds'[e] = HoldsOf(e)' /\ Holds[e] = HoldsOf(e)
      BY DEF Holds
    <2>4. Holds'[e] \in Nat /\ Holds[e] \in Nat
      BY <1>t
    <2> QED  BY <1>t, <1>0, <1>1, <2>2, <2>3, <2>4
  <1>2. ASSUME UNCHANGED <<chan, count, up>>, out' - Owned' = out - Owned, out' \in Int
        PROVE  PacketsAccountedFor'
    <2>1. Holds' = Holds
      BY <1>2 DEF Holds, HoldsOf
    <2> QED  BY <1>t, <1>0, <1>2, <2>1
  <1>3. CASE UNCHANGED <<out, recv, n, left, chan, count, up>>
    <2>1. Owned' = Owned
      BY <1>3 DEF Owned
    <2> QED  BY <1>t, <1>2, <1>3, <2>1
  <1>4. CASE RecvStep
    <2>1. UNCHANGED <<chan, count, up>>
      BY <1>4 DEF RecvStep, Fill, Recvmmsg, RecvmmsgFails, RecvmmsgDeadline, HandleBad
    <2>2. ASSUME Fill PROVE out' - Owned' = out - Owned
      BY <1>t, <2>2 DEF Fill, Owned
    <2>3. ASSUME Recvmmsg PROVE out' - Owned' = out - Owned
      <3>1. recv = "read" /\ recv' = "batch" /\ UNCHANGED out /\ n' \in Nat /\ left' = n'
        BY <1>t, <2>3 DEF Recvmmsg
      <3> QED  BY <1>t, <3>1 DEF Owned
    <2>4. ASSUME RecvmmsgFails PROVE out' - Owned' = out - Owned
      BY <1>t, <2>4 DEF RecvmmsgFails, Owned
    <2>5. ASSUME RecvmmsgDeadline PROVE out' - Owned' = out - Owned
      BY <1>t, <2>5 DEF RecvmmsgDeadline, Owned
    <2>6. ASSUME HandleBad PROVE out' - Owned' = out - Owned
      BY <1>t, <2>6 DEF HandleBad, NextMessage, Owned
    <2>7. out' \in Int
      BY DEF Types
    <2> QED  BY <1>2, <1>4, <2>1, <2>2, <2>3, <2>4, <2>5, <2>6, <2>7 DEF RecvStep
  <1>5. ASSUME recv = "batch", NextMessage, UNCHANGED n PROVE Owned' = Owned - 1
    BY <1>t, <1>5 DEF NextMessage, Owned
  <1>6. ASSUME NEW e \in Entries PROVE chan[e] \in Nat /\ count[e] \in Nat /\ HoldsOf(e) \in Nat
    BY <1>t DEF HoldsOf
  <1>7. ASSUME NEW c \in Clients, HandleExisting(c) PROVE PacketsAccountedFor'
    <2>1. /\ recv = "batch" /\ NextMessage /\ UNCHANGED <<n, up, count>>
          /\ \/ UNCHANGED chan /\ out' = out - 1
             \/ UNCHANGED out /\ chan' = [chan EXCEPT ![table[c]] = @ + 1]
          /\ table[c] # None
      BY <1>7 DEF HandleExisting
    <2>2. PICK e \in Entries : e = table[c]
      BY <2>1 DEF Types
    <2>3. Owned' = Owned - 1
      BY <1>5, <2>1
    <2>4. CASE UNCHANGED chan /\ out' = out - 1
      BY <1>t, <1>2, <2>1, <2>3, <2>4
    <2>5. CASE UNCHANGED out /\ chan' = [chan EXCEPT ![e] = @ + 1]
      <3>1. HoldsOf(e)' = HoldsOf(e) + 1
        BY <1>t, <1>6, <2>1, <2>5 DEF HoldsOf
      <3>2. \A x \in Entries \ {e} : chan'[x] = chan[x] /\ count'[x] = count[x] /\ up'[x] = up[x]
        BY <1>t, <2>1, <2>5
      <3>3. out' - Owned' = out - Owned + HoldsOf(e)' - HoldsOf(e) /\ out' \in Int
        BY <1>t, <1>6, <2>3, <2>5, <3>1
      <3> QED  BY <1>1, <3>2, <3>3
    <2> QED  BY <2>1, <2>2, <2>4, <2>5
  <1>8. ASSUME NEW c \in Clients, HandleNew(c) PROVE PacketsAccountedFor'
    <2>1. recv = "batch" /\ NextMessage /\ UNCHANGED <<n, up, count, out>>
      BY <1>8 DEF HandleNew
    <2>2. Owned' = Owned - 1
      BY <1>5, <2>1
    <2>3. PICK e \in Entries : pc[e] = "none" /\ up[e] = "none" /\ chan' = [chan EXCEPT ![e] = 1]
      BY <1>8 DEF HandleNew
    <2>4. chan[e] = 0
      BY <2>3 DEF Life, LifeOf, Alive
    <2>5. HoldsOf(e)' = HoldsOf(e) + 1
      BY <1>t, <1>6, <2>1, <2>3, <2>4 DEF HoldsOf
    <2>6. \A x \in Entries \ {e} : chan'[x] = chan[x] /\ count'[x] = count[x] /\ up'[x] = up[x]
      BY <1>t, <2>1, <2>3
    <2>7. out' - Owned' = out - Owned + HoldsOf(e)' - HoldsOf(e) /\ out' \in Int
      BY <1>t, <1>6, <2>1, <2>2, <2>5
    <2> QED  BY <1>1, <2>6, <2>7
  <1>9. ASSUME NEW e \in Entries, UNCHANGED <<recv, n, left>>,
               \A x \in Entries \ {e} : chan'[x] = chan[x] /\ count'[x] = count[x] /\ up'[x] = up[x],
               out' = out + HoldsOf(e)' - HoldsOf(e)
        PROVE  PacketsAccountedFor'
    <2>1. Owned' = Owned
      BY <1>9 DEF Owned
    <2>2. out' \in Int /\ HoldsOf(e) \in Nat
      BY <1>6 DEF Types
    <2>3. HoldsOf(e)' \in Nat
      <3>1. Holds'[e] \in Nat /\ Holds'[e] = HoldsOf(e)'
        BY <1>t DEF Holds
      <3> QED  BY <3>1
    <2> QED  BY <1>t, <1>1, <1>9, <2>1, <2>2, <2>3
  <1>10. ASSUME NEW e \in Entries, SessionStep(e) PROVE PacketsAccountedFor'
    <2>1. CASE StartRelay(e)
      <3>1. up[e] = "none"
        BY <2>1 DEF StartRelay, Life, LifeOf, SetupLabels
      <3>2. UNCHANGED <<out, recv, n, left, chan, count>> /\ up' = [up EXCEPT ![e] = "range"]
        BY <2>1 DEF StartRelay
      <3>3. HoldsOf(e)' = HoldsOf(e)
        BY <1>t, <3>1, <3>2 DEF HoldsOf
      <3>4. out' = out + HoldsOf(e)' - HoldsOf(e)
        BY <1>t, <1>6, <3>2, <3>3
      <3> QED  BY <1>t, <1>9, <3>2, <3>4
    <2>2. CASE Drain(e) /\ chan[e] > 0
      <3>1. /\ UNCHANGED <<recv, n, left, count, up>>
            /\ chan' = [chan EXCEPT ![e] = @ - 1] /\ out' = out - 1
        BY <2>2 DEF Drain
      <3>2. HoldsOf(e)' = HoldsOf(e) - 1
        BY <1>t, <1>6, <3>1 DEF HoldsOf
      <3>3. out' = out + HoldsOf(e)' - HoldsOf(e)
        BY <1>t, <1>6, <3>1, <3>2
      <3> QED  BY <1>t, <1>9, <3>1, <3>3
    <2>3. CASE ~ StartRelay(e) /\ ~ (Drain(e) /\ chan[e] > 0)
      BY <1>3, <1>10, <2>3 DEF SessionStep, RouterOk, RouterFails, ListenUDP, DownRead, DownFlush,
                               DownTimeout, NatTimeout, DeferredWgDone, Cleanup, Drain
    <2> QED  BY <2>1, <2>2, <2>3
  <1>11. ASSUME NEW e \in Entries, Uplink(e) PROVE PacketsAccountedFor'
    <2> USE DEF uplinkOthers
    <2>1. UNCHANGED <<recv, n, left>>
      BY <1>11 DEF Uplink, UpReceive, UpPack, UpNext, UpWrite, UpClose
    <2>2. \A x \in Entries \ {e} : chan'[x] = chan[x] /\ count'[x] = count[x] /\ up'[x] = up[x]
      BY <1>t, <1>11 DEF Uplink, UpReceive, UpPack, UpNext, UpWrite, UpClose
    <2> DEFINE Goal == out' = out + HoldsOf(e)' - HoldsOf(e)
    <2>3. ASSUME UpReceive(e) PROVE Goal
      BY <1>t, <1>6, <2>3 DEF UpReceive, HoldsOf
    <2>4. ASSUME UpPack(e) PROVE Goal
      <3>1. CASE count' = [count EXCEPT ![e] = @ + 1] /\ UNCHANGED out
        <4>1. up[e] = "pack" /\ up'[e] # "pack" /\ UNCHANGED chan /\ count'[e] = count[e] + 1
          BY <1>t, <2>4, <3>1 DEF UpPack
        <4> QED  BY <1>t, <1>6, <3>1, <4>1 DEF HoldsOf
      <3>2. CASE UNCHANGED count /\ out' = out - 1
        <4>1. up[e] = "pack" /\ up'[e] # "pack" /\ UNCHANGED chan
          BY <1>t, <2>4, <3>2 DEF UpPack
        <4> QED  BY <1>t, <1>6, <3>2, <4>1 DEF HoldsOf
      <3> QED  BY <2>4, <3>1, <3>2 DEF UpPack
    <2>5. ASSUME UpNext(e) PROVE Goal
      BY <1>t, <1>6, <2>5 DEF UpNext, HoldsOf
    <2>6. ASSUME UpWrite(e) PROVE Goal
      BY <1>t, <1>6, <2>6 DEF UpWrite, HoldsOf
    <2>7. ASSUME UpClose(e) PROVE Goal
      BY <1>t, <1>6, <2>7 DEF UpClose, HoldsOf
    <2>8. Goal
      BY <1>11, <2>3, <2>4, <2>5, <2>6, <2>7 DEF Uplink
    <2> QED  BY <1>9, <2>1, <2>2, <2>8
  <1>12. CASE StopStep
    BY <1>3, <1>12 DEF StopStep, StopBegin, StopMwgWait, StopSweep, StopWgWait, Finished, vars
  <1> QED  BY <1>4, <1>7, <1>8, <1>10, <1>11, <1>12, Steps

-----------------------------------------------------------------------------
(* The invariant *)

(* It holds when the relay has been started. *)
LEMMA InitInvariant == Init => IInv
  <1> SUFFICES ASSUME Init PROVE IInv
    OBVIOUS
  <1> USE DEF Init
  <1>1. Types
    BY TransparentAssumption DEF Types, PcLabels, UpLabels, SetupLabels
  <1>2. Batches
    BY DEF Batches
  <1>3. Table
    BY TransparentAssumption DEF Table, Alive, TableHoldsLiveSessions
  <1>4. Life
    BY DEF Life, LifeOf, Alive, SetupLabels
  <1>5. Vectors
    BY TransparentAssumption DEF Vectors, VectorsOf
  <1>6. GroupCounts
    <2>1. Counted = {} /\ Uplinks = {}
      BY DEF Counted, Uplinks, CountedLabels
    <2>2. Cardinality(Counted) = 0 /\ Cardinality(Uplinks) = 0
      BY <2>1, FS_EmptySet
    <2> QED  BY <2>2 DEF GroupCounts
  <1>7. PacketsAccountedFor
    <2>1. Holds \in [Entries -> Nat] /\ \A e \in Entries : Holds[e] = 0
      BY DEF Holds, HoldsOf
    <2>2. SumFunction(Holds) = 0
      BY <2>1, TransparentAssumption, SumZero
    <2>3. Owned = 0
      BY TransparentAssumption DEF Owned
    <2> QED  BY <1>1, <1>2, <2>2, <2>3, Accounting
  <1>8. Swept
    BY DEF Swept, StopWaitsForRelays
  <1> QED  BY <1>1, <1>2, <1>3, <1>4, <1>5, <1>6, <1>7, <1>8 DEF IInv

(* Every step keeps it. *)
LEMMA StepInvariant == IInv /\ [Next]_vars => IInv'
  <1> SUFFICES ASSUME IInv, [Next]_vars PROVE IInv'
    OBVIOUS
  <1>1. CASE Next
    <2>1. Types' /\ Batches'
      BY <1>1, TypesStep, BatchesStep DEF IInv
    <2>2. Table' /\ Life' /\ Vectors' /\ GroupCounts' /\ Swept'
      BY <1>1, TableStep, LifeStep, VectorsStep, GroupStep, SweptStep DEF IInv
    <2>3. PacketsAccountedFor'
      BY <1>1, <2>1, PacketsStep DEF IInv
    <2> QED  BY <2>1, <2>2, <2>3 DEF IInv
  <1>2. CASE UNCHANGED vars
    <2> USE <1>2 DEF vars, recvVars, chanVars, connVars, tcVars, stopVars
    <2>1. UNCHANGED <<recv, n, left, table, client, out, pc, up, count, chan, closed, clean>>
      OBVIOUS
    <2>2. UNCHANGED <<socket, natConn, deadline, tcMap, msgs, wg, serverConn, stop>>
      OBVIOUS
    <2>3. Types' /\ Batches'
      BY <2>1, <2>2 DEF IInv, Types, Batches
    <2>4. Table' /\ Life' /\ Vectors'
      BY <2>1, <2>2 DEF IInv, Table, TableHoldsLiveSessions, Alive, Life, LifeOf, Vectors, VectorsOf
    <2>5. GroupCounts' /\ PacketsAccountedFor' /\ Swept'
      BY <2>1, <2>2 DEF IInv, GroupCounts, Counted, Uplinks, PacketsAccountedFor, Owned, Swept,
           StopWaitsForRelays
    <2> QED  BY <2>3, <2>4, <2>5 DEF IInv
  <1> QED  BY <1>1, <1>2

(* The inductive invariant, which the results below are read off. *)
THEOREM Invariance == Spec => []IInv
  BY InitInvariant, StepInvariant, PTL DEF Spec

-----------------------------------------------------------------------------
(* The results *)

(* No queued packet is lost or put back twice, no message vector overflows *)
(* and none still points into the buffers when they are read into again.   *)
THEOREM NothingForgotten == Spec => []NoPacketForgotten
  <1>1. IInv => NoPacketForgotten
    BY DEF IInv, Vectors, VectorsOf, NoPacketForgotten, MsgvecsFlushed
  <1> QED  BY <1>1, Invariance, PTL

(* The table leads to sessions that live and to open channels, a socket    *)
(* that is used is open, and a session that is gone leaves none behind.    *)
(* The counters of the pool and of the WaitGroup are never negative.       *)
THEOREM LiveSessionsHold == Spec => []OnlyLiveSessionsHold
  <1>1. IInv => OnlyLiveSessionsHold
    <2> SUFFICES ASSUME IInv PROVE OnlyLiveSessionsHold
      OBVIOUS
    <2>1. TypeOK
      <3>1. wg \in Nat
        BY GroupFinite DEF IInv
      <3>2. out \in Nat
        BY Accounting DEF IInv
      <3>3. n \in 0 .. MaxIov
        BY TransparentAssumption DEF IInv, Types
      <3> QED  BY <3>1, <3>2, <3>3 DEF IInv, Types, TypeOK, PcLabels, UpLabels, SetupLabels
    <2>2. TableHoldsLiveSessions
      BY DEF IInv, Table
    <2>3. SocketsClosed
      BY DEF IInv, Life, LifeOf, Vectors, VectorsOf, SocketsClosed
    <2> QED  BY <2>1, <2>2, <2>3 DEF OnlyLiveSessionsHold
  <1> QED  BY <1>1, Invariance, PTL

(* serverConn is closed only when no relay goroutine is left, and none     *)
(* starts afterwards: a relay that Stop could still find being set up is   *)
(* one on which it panics.                                                 *)
THEOREM StopWaits == Spec => []StopWaitsForRelays
  <1>1. IInv => StopWaitsForRelays
    BY DEF IInv, Swept
  <1> QED  BY <1>1, Invariance, PTL
=============================================================================
