------------------------------ MODULE TCPPath -------------------------------
(***************************************************************************)
(* The parts a TCP connection depends on, side by side: the process that   *)
(* starts and stops the services (Manager), the relay that accepts the     *)
(* connection (TCPRelay), the Shadowsocks stream it may be (ShadowStream:  *)
(* one connection, or two between which the path mixes up streams), the    *)
(* HTTP proxy it may be (HTTPServer), the two-way relay of its bytes       *)
(* (StreamRelay, the module extended here) and the wrapper that makes a    *)
(* zero-copy stream an ordinary one (CopyReadWriter).                      *)
(*                                                                         *)
(* The parts know each other by their interfaces only (each module states  *)
(* what it takes the others for), so their steps are not interleaved: part *)
(* tells which of them a behaviour is about, the others rest.              *)
(***************************************************************************)
EXTENDS StreamRelay

CONSTANTS
  Conns, ClientBytes, PayloadBufSize, Configs,         \* of TCPRelay
  NumIn, NumOut, ReadBufSize, WriteBufSize, MaxCall,   \* of CopyReadWriter
  N, UDP, Sessions,                                    \* of Manager
  NumRequests,                                         \* of HTTPServer
  PSKs, Users, MaxPayloadSize, AddrLens, MaxPaddingLength,
  InitialPayloads, MaxSent, MaxFaults                  \* of ShadowStream

VARIABLES
  part,
  config, accepting, listener, stop, handler, clientSent, clientGot, clientEnded,
  lost, timedOut, deadline, payload, toRemote, remote, up, down,
  dataWithEnd, inGot, rbuf, readOut, readEnd, given, todo, call, wOut, reported, failed,
  main, next, service, session, router, notified, signal, testConf,
  psk, excess, bufLen, wNonce, written, log, path, open, rpc, rKey, rNonce, rLen,
  delivered, peer, pool, forgotten, faults,
  kind, hSent, hEnded, taken, fw, req, held, resp, toClient, hHandler, hDeadline,
  initial, hUp, hDown, inHand, hToRemote, answers, relayed, hRemote

TCP == INSTANCE TCPRelay WITH
  NumBytes <- ClientBytes, pc <- handler, sent <- clientSent, got <- clientGot, ended <- clientEnded

Copy == INSTANCE CopyReadWriter

Process == INSTANCE Manager

One == INSTANCE ShadowStream WITH
  sent <- written, Sessions <- {"c1"}, ServerPSK <- "server"

Two == INSTANCE ShadowStream WITH
  sent <- written, Sessions <- {"c1", "c2"}, ServerPSK <- "server",
  PSKs <- Users, InitialPayloads <- {1}, MaxSent <- 1

HTTP == INSTANCE HTTPServer WITH
  sent <- hSent, ended <- hEnded, handler <- hHandler, deadline <- hDeadline,
  up <- hUp, down <- hDown, toRemote <- hToRemote, remote <- hRemote

ASSUME PathAssumption ==
  /\ TCP!TCPConstants /\ Copy!CopyConstants /\ Process!ManagerConstants /\ HTTP!HTTPConstants
  /\ One!ShadowConstants /\ Two!ShadowConstants

tcpVars == <<config, accepting, listener, stop, handler, clientSent, clientGot, clientEnded,
             lost, timedOut, deadline, payload, toRemote, remote, up, down>>
copyVars == <<dataWithEnd, inGot, rbuf, readOut, readEnd, given, todo, call, wOut, reported, failed>>
processVars == <<main, next, service, session, router, notified, signal, testConf>>
shadowVars == <<psk, excess, bufLen, wNonce, written, log, path, open, rpc, rKey, rNonce, rLen,
                delivered, peer, pool, forgotten, faults>>
httpVars == <<kind, hSent, hEnded, taken, fw, req, held, resp, toClient, hHandler, hDeadline,
              initial, hUp, hDown, inHand, hToRemote, answers, relayed, hRemote>>
pathVars == <<part, vars, tcpVars, copyVars, processVars, shadowVars, httpVars>>

InitPath ==
  /\ part \in {"stream", "tcp", "copy", "process", "one", "two", "http"}
  /\ IF part = "two" THEN Two!Init ELSE One!Init
  /\ Init /\ TCP!Init /\ Copy!Init /\ Process!Init /\ HTTP!Init
  \* a part that rests has nothing to choose
  /\ part # "stream" => \A d \in Dirs : rmin[d] = 0 /\ wmax[d] = 0
  /\ part # "tcp" => config = [native |-> FALSE, buffered |-> FALSE, disableWait |-> FALSE, fallback |-> FALSE]
  /\ part # "copy" => ~dataWithEnd
  /\ part # "process" => ~testConf
  /\ part # "http" => \A r \in DOMAIN kind : kind[r] = "plain"
  /\ part \notin {"one", "two"} => \A s \in DOMAIN psk : psk[s] \in Users

StreamMoves == part = "stream" /\ UNCHANGED <<part, tcpVars, copyVars, processVars, shadowVars, httpVars>>
TCPMoves == part = "tcp" /\ UNCHANGED <<part, vars, copyVars, processVars, shadowVars, httpVars>>
CopyMoves == part = "copy" /\ UNCHANGED <<part, vars, tcpVars, processVars, shadowVars, httpVars>>
ProcessMoves == part = "process" /\ UNCHANGED <<part, vars, tcpVars, copyVars, shadowVars, httpVars>>
ShadowMoves == UNCHANGED <<part, vars, tcpVars, copyVars, processVars, httpVars>>
HTTPMoves == part = "http" /\ UNCHANGED <<part, vars, tcpVars, copyVars, processVars, shadowVars>>

NextPath ==
  \/ StreamMoves /\ Next
  \/ TCPMoves /\ TCP!Next
  \/ CopyMoves /\ Copy!Next
  \/ ProcessMoves /\ Process!Next
  \/ part = "one" /\ One!Next /\ ShadowMoves
  \/ part = "two" /\ Two!Next /\ ShadowMoves
  \/ HTTPMoves /\ HTTP!Next

(* Each part as its own module has it.  In the relay the goroutines run    *)
(* and the ends take what is written to them; connections are handled and  *)
(* deadlines pass; main runs, and a UDP session of a service that is being *)
(* stopped ends.  Nothing is assumed of peers, of the router or of signals.*)
SpecPath ==
  /\ InitPath /\ [][NextPath]_pathVars
  /\ \A d \in Dirs : WF_pathVars(StreamMoves /\ Transfer(d))
  /\ WF_pathVars(StreamMoves /\ Return)
  /\ \A c \in Conns :
       /\ WF_pathVars(TCPMoves /\ TCP!HandleConn(c)) /\ WF_pathVars(TCPMoves /\ TCP!UpDrained(c))
       /\ WF_pathVars(TCPMoves /\ TCP!DeadlinePasses(c))
  /\ WF_pathVars(TCPMoves /\ (TCP!AcceptDeadline \/ TCP!StopWait))
  /\ WF_pathVars(ProcessMoves /\ Process!MainStep)
  /\ \A i \in UDP, c \in Sessions :
       WF_pathVars(ProcessMoves /\ service[i] = "swept" /\ Process!RelayEnds(i, c))
  /\ WF_pathVars(part = "one" /\ One!ClientGoesOn("c1") /\ ShadowMoves)
  /\ WF_pathVars(part = "one" /\ One!ServerGoesOn("c1") /\ ShadowMoves)
  /\ WF_pathVars(HTTPMoves /\ HTTP!Forwarder) /\ WF_pathVars(HTTPMoves /\ HTTP!Handler)
  /\ WF_pathVars(HTTPMoves /\ HTTP!RelaysUp) /\ WF_pathVars(HTTPMoves /\ HTTP!RelaysDown)

-----------------------------------------------------------------------------
(* A part that rests stays as it began, which is neither through nor over, *)
(* neither stopping nor stopped: one "leads to" serves several parts.      *)

Shadow(one, two) == IF part = "two" THEN two ELSE one

(* What the parts rely on when they meet: the types; buffers as long as    *)
(* the reader asks for and no longer than the writer takes; no deadline of *)
(* the initial payload wait on a connection that is dialled or relayed;    *)
(* and a router that is closed only when every started service has been    *)
(* stopped, whichever of them failed to start.                             *)
PathContracts ==
  /\ TypeOK /\ TCP!TypeOK
  /\ BufferContract
  /\ TCP!RelayHasNoDeadline
  /\ Process!ClosedAfterServices

(* Where bytes pass, what comes out is an unbroken part of what went in:   *)
(* from the client through a handshake, a failed one, the wait or the      *)
(* relay to the remote end (from the first byte on, but for what an HTTP   *)
(* CONNECT handshake read ahead, and with nothing before it, but for the   *)
(* buffer of a wait that timed out); through a relay that reports success, *)
(* all of it; from the beginning on, through CopyReadWriter's Read into    *)
(* buffers of any length, with the end after the last byte, and through    *)
(* its Write and ReadFrom; through the HTTP proxy's pipe, heads and bodies *)
(* of requests.                                                            *)
BytesInOrder ==
  /\ TCP!ClientBytesInOrder
  /\ SuccessMeansDelivered
  /\ Copy!ReadInOrder /\ Copy!EOFIsLast /\ Copy!WrittenInOrder
  /\ HTTP!RequestsInOrder

(* Whatever the path does to the boxes, a Shadowsocks reader returns an    *)
(* unbroken beginning of what one writer wrote, and no key is used with a  *)
(* nonce twice.  Reading fails only if the path did (or held the header up *)
(* for too long), whatever the lengths of initial payload and padding.     *)
ShadowStreamsFaithful ==
  /\ Shadow(One!DeliveredInOrder, Two!DeliveredInOrder)
  /\ Shadow(One!NoncesUsedOnce, Two!NoncesUsedOnce)
  /\ Shadow(One!OwnStreamsAccepted, Two!OwnStreamsAccepted)

(* A Shadowsocks request is served on one connection at most, even when    *)
(* the path takes it to several, unless the salt pool forgot it in between;*)
(* what a client returns was written in response to its own request.  HTTP *)
(* answers reach the client in the order of its requests, none twice and   *)
(* none skipped, though the last may be held back (a final response behind *)
(* an interim one, until the client's next request).                       *)
RequestsAnsweredOnce ==
  /\ part = "two" => Two!ServedOnce /\ Two!ResponsesAnswerTheRequest
  /\ HTTP!AnswersInOrder

(* On a path without faults everything written to a Shadowsocks stream     *)
(* arrives, the initial payload that did not fit its request included; a   *)
(* relay whose peers are through returns, and the connection is closed; so *)
(* does the HTTP proxy's forwarder, if the remote end took all it was sent.*)
ConnectionsEnd ==
  /\ part = "one" => One!EverythingArrives
  /\ \A c \in Conns :
       PeersThrough \/ TCP!Through(c) \/ HTTP!Through ~> Returned \/ TCP!Over(c) \/ HTTP!Over

(* Stop of the TCP relay returns, however long connections last; a signal  *)
(* ends the process, whatever connections and the router do; and a service *)
(* that was stopped stays so: none of its UDP sessions that come late out  *)
(* of the router begin to relay.                                           *)
StopsForGood ==
  /\ TCP!Stopping \/ signal ~> TCP!Stopped \/ ~Process!Running
  /\ Process!StoppedForGood

(* The remote end gets nothing that the client did not send: a read that   *)
(* fails has no payload ("If no error occurs, the returned payload is      *)
(* b[payloadBufStart : payloadBufStart+payloadLen]").                      *)
OnlyClientBytes == TCP!OnlyClientBytes
=============================================================================
