------------------------------ MODULE TCPRelay ------------------------------
(***************************************************************************)
(* The TCP relay of service/tcp.go: the accept loop, one handleConn        *)
(* goroutine per connection, and Stop.  The bytes a client sends after     *)
(* connecting are 1, 2, ...: with a protocol handshake, those after it;    *)
(* for a handshake that fails, all of them.  They reach the remote end in  *)
(* the initial payload given to Dial and then through the two-way relay,   *)
(* of which each direction is a BytePipe (StreamRelay shows that).  Byte 0 *)
(* stands for one the client never sent.                                   *)
(***************************************************************************)
EXTENDS Integers, Sequences, FiniteSetsExt

CONSTANTS
  Conns,          \* connections (bound)
  NumBytes,       \* bytes a client sends at most
  PayloadBufSize, \* size of the buffer of the initial payload wait
  Configs         \* configurations of a relay

(* What the constants have to be.  native: server.NativeInitialPayload();  *)
(* buffered: the server is the HTTP proxy, whose handshake reads through a *)
(* bufio.Reader; disableWait: DisableInitialPayloadWait; fallback: a       *)
(* fallbackAddress.                                                        *)
TCPConstants ==
  /\ NumBytes \in Nat /\ PayloadBufSize \in Nat \ {0}
  /\ Configs \subseteq [native : BOOLEAN, buffered : BOOLEAN, disableWait : BOOLEAN, fallback : BOOLEAN]
  /\ \A conf \in Configs : ~(conf.native /\ conf.buffered)

VARIABLES
  config,     \* the relay's configuration
  accepting,  \* the accept loop runs
  listener,   \* "open", "expired" (its deadline) or "closed"
  stop,       \* Stop: "idle", "wait" or "stopped"
  pc,         \* pc[c]: handleConn; "none" before, "done" after
  sent,       \* sent[c]: bytes the client sent
  got,        \* got[c]: bytes read from the client
  ended,      \* ended[c]: the client ended its stream
  lost,       \* lost[c]: history, bytes read that the handshake's reader keeps
  timedOut,   \* timedOut[c]: history, the initial payload wait timed out
  deadline,   \* deadline[c]: the client connection's: "none", "armed" or "expired"
  payload,    \* payload[c]: the initial payload
  toRemote,   \* toRemote[c]: bytes the remote end was sent
  remote,     \* remote[c]: the remote connection: "none", "open", "ended" or "closed"
  up, down    \* up[c], down[c]: the direction of the relay runs

serverVars == <<config, accepting, listener, stop>>
clientVars == <<sent, ended, lost, timedOut>>
relayVars  == <<toRemote, remote, up, down>>
vars == <<serverVars, pc, clientVars, got, deadline, payload, relayVars>>

Init ==
  /\ config \in Configs
  /\ accepting = TRUE /\ listener = "open" /\ stop = "idle"
  /\ pc = [c \in Conns |-> "none"]
  /\ sent = [c \in Conns |-> 0] /\ got = [c \in Conns |-> 0]
  /\ ended = [c \in Conns |-> FALSE]
  /\ lost = [c \in Conns |-> 0] /\ timedOut = [c \in Conns |-> FALSE]
  /\ deadline = [c \in Conns |-> "none"]
  /\ payload = [c \in Conns |-> <<>>]
  /\ toRemote = [c \in Conns |-> <<>>]
  /\ remote = [c \in Conns |-> "none"]
  /\ up = [c \in Conns |-> FALSE] /\ down = [c \in Conns |-> FALSE]

Goto(c, label) == pc' = [pc EXCEPT ![c] = label]
Unread(c) == sent[c] - got[c]
NextBytes(c, k) == [i \in 1 .. k |-> got[c] + i]
Consume(c, k) == got' = [got EXCEPT ![c] = @ + k]

-----------------------------------------------------------------------------
(* The ends of a connection *)

ClientSends(c) ==
  /\ pc[c] # "none" /\ ~ended[c] /\ sent[c] < NumBytes
  /\ sent' = [sent EXCEPT ![c] = @ + 1]
  /\ UNCHANGED <<serverVars, pc, ended, lost, timedOut, got, deadline, payload, relayVars>>

ClientEnds(c) ==
  /\ pc[c] # "none" /\ ~ended[c]
  /\ ended' = [ended EXCEPT ![c] = TRUE]
  /\ UNCHANGED <<serverVars, pc, sent, lost, timedOut, got, deadline, payload, relayVars>>

RemoteEnds(c) ==
  /\ remote[c] = "open"
  /\ remote' = [remote EXCEPT ![c] = "ended"]
  /\ UNCHANGED <<serverVars, pc, clientVars, got, deadline, payload, toRemote, up, down>>

-----------------------------------------------------------------------------
(* Start: the accept loop *)

Accept(c) ==
  /\ accepting /\ listener = "open" /\ pc[c] = "none"
  /\ Goto(c, "handshake")
  /\ UNCHANGED <<serverVars, clientVars, got, deadline, payload, relayVars>>

(* bug: an exceeded deadline is treated like any other error *)
AcceptDeadline_Continue ==
  /\ accepting /\ listener = "expired"
  /\ UNCHANGED vars

AcceptDeadline ==
  /\ accepting /\ listener = "expired"
  /\ accepting' = FALSE
  /\ UNCHANGED <<config, listener, stop, pc, clientVars, got, deadline, payload, relayVars>>

-----------------------------------------------------------------------------
(* handleConn *)

(* server.Accept succeeds.  A native server returns what it read of the    *)
(* bytes as the payload; what the buffered reader of an HTTP CONNECT has   *)
(* read ahead is lost with it; the others read nothing but the handshake.  *)
Handshake(c) ==
  /\ pc[c] = "handshake"
  /\ \E k \in 0 .. (IF config.native \/ config.buffered THEN Unread(c) ELSE 0) :
       /\ Consume(c, k)
       /\ IF config.buffered THEN lost' = [lost EXCEPT ![c] = k] /\ UNCHANGED payload
          ELSE payload' = [payload EXCEPT ![c] = NextBytes(c, k)] /\ UNCHANGED lost
  /\ Goto(c, "route")
  /\ UNCHANGED <<serverVars, sent, ended, timedOut, deadline, relayVars>>

(* ErrAcceptDoneNoRelay: everything is done already. *)
HandshakeNoRelay(c) ==
  /\ pc[c] = "handshake"
  /\ Goto(c, "done")
  /\ UNCHANGED <<serverVars, clientVars, got, deadline, payload, relayVars>>

(* bug: the fallback does not get what the handshake has read *)
HandshakeFails_DropsRead(c) ==
  /\ pc[c] = "handshake"
  /\ \E k \in 0 .. Unread(c) :
       /\ Consume(c, k)
       /\ Goto(c, IF config.native /\ config.fallback /\ k > 0 THEN "route" ELSE "reject")
  /\ UNCHANGED <<serverVars, clientVars, deadline, payload, relayVars>>

(* server.Accept fails after k bytes: with a fallback address, and if the  *)
(* server hands back what it has read, the connection goes there.          *)
HandshakeFails(c) ==
  /\ pc[c] = "handshake"
  /\ \E k \in 0 .. Unread(c), returned \in BOOLEAN :
       LET data == IF config.native /\ returned THEN NextBytes(c, k) ELSE <<>> IN
       /\ Consume(c, k)
       /\ payload' = [payload EXCEPT ![c] = data]
       /\ Goto(c, IF config.fallback /\ data # <<>> THEN "route" ELSE "reject")
  /\ UNCHANGED <<serverVars, clientVars, deadline, relayVars>>

(* connCloser: JustClose and ForceReset return at once ... *)
CloseNow(c) ==
  /\ pc[c] = "reject"
  /\ Goto(c, "done")
  /\ UNCHANGED <<serverVars, clientVars, got, deadline, payload, relayVars>>

(* ... CloseWriteDrain and ReplyWithGibberish read on until the stream     *)
(* ends or fails.                                                          *)
CloseAfterDrain(c) ==
  /\ pc[c] = "reject"
  /\ \/ Unread(c) > 0 /\ Consume(c, Unread(c)) /\ UNCHANGED pc
     \/ ended[c] /\ Unread(c) = 0 /\ Goto(c, "done") /\ UNCHANGED got
  /\ UNCHANGED <<serverVars, clientVars, deadline, payload, relayVars>>

waitForInitialPayload == ~config.native /\ ~config.disableWait

(* router.GetTCPClient: it fails, or yields a client that takes an initial *)
(* payload along with its request or does not.  Before a wait the read     *)
(* deadline is set; setting it may fail.                                   *)
Route(c) ==
  /\ pc[c] = "route"
  /\ \/ Goto(c, "done") /\ UNCHANGED deadline
     \/ Goto(c, "dial") /\ UNCHANGED deadline
     \/ /\ waitForInitialPayload
        /\ Goto(c, "wait")
        /\ deadline' = [deadline EXCEPT ![c] = "armed"]
  /\ UNCHANGED <<serverVars, clientVars, got, payload, relayVars>>

(* initialPayloadWaitTimeout passes. *)
DeadlinePasses(c) ==
  /\ deadline[c] = "armed"
  /\ deadline' = [deadline EXCEPT ![c] = "expired"]
  /\ UNCHANGED <<serverVars, pc, clientVars, got, payload, relayVars>>

(* The wait: bytes arrive in time ... *)
WaitRead(c) ==
  /\ pc[c] = "wait" /\ deadline[c] = "armed"
  /\ \E k \in 1 .. Min({PayloadBufSize, Unread(c)}) :
       payload' = [payload EXCEPT ![c] = NextBytes(c, k)] /\ Consume(c, k)
  /\ Goto(c, "reset")
  /\ UNCHANGED <<serverVars, clientVars, deadline, relayVars>>

(* ... or do not: payload is still the whole buffer ... *)
WaitTimeout(c) ==
  /\ pc[c] = "wait" /\ deadline[c] = "expired"
  /\ payload' = [payload EXCEPT ![c] = [i \in 1 .. PayloadBufSize |-> 0]]
  /\ timedOut' = [timedOut EXCEPT ![c] = TRUE]
  /\ Goto(c, "reset")
  /\ UNCHANGED <<serverVars, sent, ended, lost, got, deadline, relayVars>>

(* ... or the stream ends first. *)
WaitFails(c) ==
  /\ pc[c] = "wait" /\ ended[c] /\ Unread(c) = 0
  /\ Goto(c, "done")
  /\ UNCHANGED <<serverVars, clientVars, got, deadline, payload, relayVars>>

(* bug: the deadline is reset only when the wait timed out *)
ResetDeadline_OnTimeout(c) ==
  /\ pc[c] = "reset"
  /\ Goto(c, "dial")
  /\ deadline' = [deadline EXCEPT ![c] = IF @ = "expired" THEN "none" ELSE @]
  /\ UNCHANGED <<serverVars, clientVars, got, payload, relayVars>>

ResetDeadline(c) ==
  /\ pc[c] = "reset"
  /\ \/ Goto(c, "dial") /\ deadline' = [deadline EXCEPT ![c] = "none"]
     \/ Goto(c, "done") /\ UNCHANGED deadline
  /\ UNCHANGED <<serverVars, clientVars, got, payload, relayVars>>

(* c.Dial with the initial payload *)
Dial(c) ==
  /\ pc[c] = "dial"
  /\ toRemote' = [toRemote EXCEPT ![c] = payload[c]]
  /\ remote' = [remote EXCEPT ![c] = "open"]
  /\ up' = [up EXCEPT ![c] = TRUE] /\ down' = [down EXCEPT ![c] = TRUE]
  /\ Goto(c, "relay")
  /\ UNCHANGED <<serverVars, clientVars, got, deadline, payload>>

DialFails(c) ==
  /\ pc[c] = "dial"
  /\ Goto(c, "done")
  /\ UNCHANGED <<serverVars, clientVars, got, deadline, payload, relayVars>>

-----------------------------------------------------------------------------
(* The two-way relay; a read deadline left behind would end it. *)

RelayUp(c) ==
  /\ pc[c] = "relay" /\ up[c] /\ deadline[c] # "expired"
  /\ \E k \in 1 .. Unread(c) :
       toRemote' = [toRemote EXCEPT ![c] = @ \o NextBytes(c, k)] /\ Consume(c, k)
  /\ UNCHANGED <<serverVars, pc, clientVars, deadline, payload, remote, up, down>>

(* The client's stream is over, or one of the ends failed. *)
RelayUpEnds(c) ==
  /\ pc[c] = "relay" /\ up[c]
  /\ up' = [up EXCEPT ![c] = FALSE]
  /\ UNCHANGED <<serverVars, pc, clientVars, got, deadline, payload, toRemote, remote, down>>

RelayDownEnds(c) ==
  /\ pc[c] = "relay" /\ down[c] /\ remote[c] = "ended"
  /\ down' = [down EXCEPT ![c] = FALSE]
  /\ UNCHANGED <<serverVars, pc, clientVars, got, deadline, payload, toRemote, remote, up>>

(* TwoWayRelay returns; the deferred calls close both connections. *)
RelayDone(c) ==
  /\ pc[c] = "relay" /\ ~up[c] /\ ~down[c]
  /\ remote' = [remote EXCEPT ![c] = "closed"]
  /\ Goto(c, "done")
  /\ UNCHANGED <<serverVars, clientVars, got, deadline, payload, toRemote, up, down>>

-----------------------------------------------------------------------------
StopBegin ==
  /\ stop = "idle"
  /\ listener' = "expired"
  /\ stop' = "wait"
  /\ UNCHANGED <<config, accepting, pc, clientVars, got, deadline, payload, relayVars>>

(* s.wg.Wait and listener.Close; connections go on. *)
StopWait ==
  /\ stop = "wait" /\ ~accepting
  /\ listener' = "closed"
  /\ stop' = "stopped"
  /\ UNCHANGED <<config, accepting, pc, clientVars, got, deadline, payload, relayVars>>

HandleConn(c) ==
  \/ Handshake(c) \/ HandshakeNoRelay(c) \/ HandshakeFails(c) \/ CloseNow(c) \/ CloseAfterDrain(c)
  \/ Route(c) \/ WaitRead(c) \/ WaitTimeout(c) \/ WaitFails(c) \/ ResetDeadline(c)
  \/ Dial(c) \/ DialFails(c)
  \/ RelayUp(c) \/ RelayDownEnds(c) \/ RelayDone(c)

(* The client's stream is over and everything in it was relayed. *)
UpDrained(c) == ended[c] /\ Unread(c) = 0 /\ RelayUpEnds(c)

Finished == stop = "stopped" /\ UNCHANGED vars

Next ==
  \/ \E c \in Conns :
       \/ ClientSends(c) \/ ClientEnds(c) \/ RemoteEnds(c) \/ Accept(c)
       \/ DeadlinePasses(c) \/ HandleConn(c) \/ RelayUpEnds(c)
  \/ AcceptDeadline \/ StopBegin \/ StopWait
  \/ Finished

Spec == Init /\ [][Next]_vars

(* Goroutines that can run do, deadlines pass.  Nothing makes an end send  *)
(* or end its stream, or a relay fail.                                     *)
FairSpec ==
  /\ Spec
  /\ \A c \in Conns :
       WF_vars(HandleConn(c)) /\ WF_vars(UpDrained(c)) /\ WF_vars(DeadlinePasses(c))
  /\ WF_vars(AcceptDeadline) /\ WF_vars(StopWait)

-----------------------------------------------------------------------------
(* The type invariant. *)
TypeOK ==
  /\ config \in Configs
  /\ accepting \in BOOLEAN /\ listener \in {"open", "expired", "closed"} /\ stop \in {"idle", "wait", "stopped"}
  /\ \A c \in Conns :
       /\ pc[c] \in {"none", "handshake", "reject", "route", "wait", "reset", "dial", "relay", "done"}
       /\ sent[c] \in 0 .. NumBytes /\ got[c] \in 0 .. sent[c] /\ ended[c] \in BOOLEAN
       /\ lost[c] \in 0 .. got[c] /\ timedOut[c] \in BOOLEAN
       /\ deadline[c] \in {"none", "armed", "expired"}
       /\ payload[c] \in Seq(0 .. NumBytes) /\ toRemote[c] \in Seq(0 .. NumBytes)
       /\ remote[c] \in {"none", "open", "ended", "closed"} /\ {up[c], down[c]} \subseteq BOOLEAN

(* What the remote end was sent is what was read from the client, in order *)
(* and without a gap, whoever read it: the handshake, a failed handshake   *)
(* before the fallback, the wait or the relay.  It begins with the first   *)
(* byte, unless the server is the HTTP proxy and had read ahead: then with *)
(* the first that was not lost that way.  Nothing comes before it, unless  *)
(* the wait timed out: then the whole, zeroed, buffer of the wait does.    *)
Filler(c) == IF timedOut[c] THEN PayloadBufSize ELSE 0
ClientBytesInOrder ==
  \A c \in Conns :
    /\ lost[c] > 0 => config.buffered
    /\ timedOut[c] => waitForInitialPayload
    /\ remote[c] # "none" =>
         toRemote[c] = [i \in 1 .. Filler(c) + (got[c] - lost[c]) |->
                          IF i <= Filler(c) THEN 0 ELSE lost[c] + (i - Filler(c))]

(* The deadline of the initial payload wait does not outlive it: a relay   *)
(* never runs under one.                                                   *)
RelayHasNoDeadline == \A c \in Conns : pc[c] \in {"dial", "relay"} => deadline[c] = "none"

(* Stop returns, however long connections last.                            *)
Stopping == stop = "wait"
Stopped == stop = "stopped"
StopReturns == Stopping ~> Stopped

(* A connection both of whose ends are through is over in the end.         *)
Through(c) == pc[c] = "relay" /\ ended[c] /\ remote[c] = "ended"
Over(c) == pc[c] = "done"
ConnectionEnds == \A c \in Conns : Through(c) ~> Over(c)

(* The remote end gets nothing that the client did not send: a read that   *)
(* fails has no payload ("If no error occurs, the returned payload is      *)
(* b[payloadBufStart : payloadBufStart+payloadLen]").                      *)
OnlyClientBytes == \A c \in Conns : \A i \in DOMAIN toRemote[c] : toRemote[c][i] # 0
=============================================================================
