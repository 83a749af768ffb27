----------------------------- MODULE HTTPServer -----------------------------
(***************************************************************************)
(* A connection of the HTTP proxy server (http/server.go, pipe/pipe.go):   *)
(* a CONNECT request becomes a tunnel; for any other request a goroutine,  *)
(* the forwarder, takes the requests off the client's connection, writes   *)
(* them to one end of a duplex pipe, and brings the responses back.  The   *)
(* other end is what handleConn of service/tcp.go routes, dials for and    *)
(* relays.  Both goroutines read the client's connection or its read       *)
(* deadline, and the pipe has no buffer: whoever writes waits for a        *)
(* reader.                                                                 *)
(*                                                                         *)
(* A request is its head and perhaps a body that comes later; a response   *)
(* is one message.  Headers are left out, but for those that end the       *)
(* connection after the response.                                          *)
(***************************************************************************)
EXTENDS Integers, Sequences, FiniteSets, SequencesExt

CONSTANT NumRequests    \* requests of a client (bound)

HTTPConstants == NumRequests \in Nat \ {0}

VARIABLES
  kind,     \* kind[r]: "plain", "body", "last" (Connection: close or HTTP/1.0), "connect"
  sent,     \* how much of its stream the client has sent
  ended,    \* the client ended its stream
  taken,    \* how much of it was read
  fw,       \* the forwarder
  req,      \* its request
  held,     \* what it has for the pipe: in plbw, or in a Write that waits
  resp,     \* the response it has read
  toClient, \* responses written to the client
  handler,  \* handleConn
  deadline, \* the read deadline of the client's connection
  initial,  \* the initial payload
  up, down, \* the directions of the relay: "idle", "run", "ended"
  inHand,   \* what the downward direction has read and writes to the pipe
  toRemote, \* what the remote end was sent
  answers,  \* what the remote end answered
  relayed,  \* how many answers were read from it
  remote    \* "none", "open", "ended" (it only reads on) or "failed"

clientVars  == <<kind, sent, ended>>
forwardVars == <<taken, fw, req, held, resp, toClient>>
relayVars   == <<initial, up, down, inHand, toRemote, relayed>>
remoteVars  == <<answers, remote>>
vars == <<clientVars, forwardVars, handler, deadline, relayVars, remoteVars>>

Requests == 1 .. NumRequests

Stream ==
  FlattenSeq([r \in Requests |->
    IF kind[r] = "body" THEN <<<<r, "head">>, <<r, "body">>>> ELSE <<<<r, "head">>>>])

Init ==
  /\ kind \in [Requests -> {"plain", "body", "last", "connect"}]
  /\ \A r \in Requests : kind[r] = "connect" => r = 1
  /\ sent = 0 /\ ended = FALSE /\ taken = 0
  /\ fw = "none" /\ req = 0 /\ held = <<>> /\ resp = <<>> /\ toClient = <<>>
  /\ handler = "accept" /\ deadline = "none"
  /\ initial = <<>> /\ up = "idle" /\ down = "idle" /\ inHand = <<>>
  /\ toRemote = <<>> /\ answers = <<>> /\ relayed = 0 /\ remote = "none"

-----------------------------------------------------------------------------
(* The ends of the connection *)

ClientSends ==
  /\ ~ended /\ sent < Len(Stream)
  /\ sent' = sent + 1
  /\ UNCHANGED <<kind, ended, forwardVars, handler, deadline, relayVars, remoteVars>>

ClientEnds ==
  /\ ~ended
  /\ ended' = TRUE
  /\ UNCHANGED <<kind, sent, forwardVars, handler, deadline, relayVars, remoteVars>>

Finals == Cardinality({i \in DOMAIN answers : answers[i][2] = "final"})

(* The remote end answers the requests in order, perhaps with an interim   *)
(* response first, and perhaps before it has the body.                     *)
RemoteAnswers ==
  /\ remote = "open" /\ Contains(toRemote, <<Finals + 1, "head">>)
  /\ \E form \in {"interim", "final"} :
       /\ ~Contains(answers, <<Finals + 1, form>>)
       /\ answers' = Append(answers, <<Finals + 1, form>>)
  /\ UNCHANGED <<clientVars, forwardVars, handler, deadline, relayVars, remote>>

RemoteEnds ==
  /\ \/ remote = "open" /\ remote' \in {"ended", "failed"}
     \/ remote = "ended" /\ remote' = "failed"
  /\ UNCHANGED <<clientVars, forwardVars, handler, deadline, relayVars, answers>>

-----------------------------------------------------------------------------
(* NewHttpStreamServerReadWriter: the first request *)

(* Reading ends with the stream, or when handleConn closes the connection. *)
NoMore == (ended /\ sent = taken) \/ handler = "done"

(* A request r was read.  Unless a body is to be copied it is written to   *)
(* the pipe at once.                                                       *)
Begin(r) ==
  /\ req' = r
  /\ taken' = taken + 1
  /\ held' = <<Stream[taken + 1]>>
  /\ fw' = IF kind[r] = "body" THEN "gather" ELSE "flush"

Accept ==
  /\ handler = "accept" /\ sent > 0 /\ kind[1] # "connect"
  /\ Begin(1)
  /\ handler' = "route"
  /\ UNCHANGED <<clientVars, resp, toClient, deadline, relayVars, remoteVars>>

(* CONNECT: the connection is handed on, what rwbr has read ahead is not.  *)
Connect ==
  /\ handler = "accept" /\ sent > 0 /\ kind[1] = "connect"
  /\ taken' \in 1 .. sent
  /\ handler' = "tunnel"
  /\ UNCHANGED <<clientVars, fw, req, held, resp, toClient, deadline, relayVars, remoteVars>>

(* No request, none that parses, or a Host that does not. *)
AcceptFails ==
  /\ handler = "accept" /\ (sent > 0 \/ ended)
  /\ handler' = "done"
  /\ UNCHANGED <<clientVars, forwardVars, deadline, relayVars, remoteVars>>

-----------------------------------------------------------------------------
(* The forwarder *)

(* req.Write reads the body ... *)
Gather ==
  /\ fw = "gather" /\ handler # "done" /\ deadline # "expired" /\ sent > taken
  /\ held' = Append(held, Stream[taken + 1])
  /\ taken' = taken + 1
  /\ fw' = "flush"
  /\ UNCHANGED <<clientVars, req, resp, toClient, handler, deadline, relayVars, remoteVars>>

(* ... with the head already on its way, if plbw overflows ... *)
Spill ==
  /\ fw = "gather" /\ held # <<>>
  /\ fw' = "spill"
  /\ UNCHANGED <<clientVars, taken, req, held, resp, toClient, handler, deadline, relayVars, remoteVars>>

(* ... and fails with the connection or its deadline. *)
GatherFails ==
  /\ fw = "gather" /\ (NoMore \/ deadline = "expired")
  /\ fw' = "closing"
  /\ UNCHANGED <<clientVars, taken, req, held, resp, toClient, handler, deadline, relayVars, remoteVars>>

(* A reader takes k pieces from the pipe; with the last Write returns. *)
Writing == fw \in {"spill", "flush"}

Taken(k) ==
  /\ Writing
  /\ held' = SubSeq(held, k + 1, Len(held))
  /\ fw' = IF k < Len(held) THEN fw ELSE IF fw = "spill" THEN "gather" ELSE "respond"
  /\ UNCHANGED <<taken, req, resp, toClient>>

(* http.ReadResponse, of whatever response comes first, which may not      *)
(* parse; or pr.CloseWrite has been called.                                *)
ReadResponse ==
  /\ fw = "respond"
  /\ \/ inHand # <<>> /\ resp' = inHand /\ inHand' = <<>> /\ fw' = "reply"
     \/ (inHand # <<>> \/ down = "ended") /\ inHand' = <<>> /\ fw' = "closing" /\ UNCHANGED resp
  /\ UNCHANGED <<clientVars, taken, req, held, toClient, handler, deadline,
                 initial, up, down, toRemote, relayed, remoteVars>>

(* resp.Write and Flush, and the end of the loop after the last request. *)
Reply ==
  /\ fw = "reply" /\ handler # "done"
  /\ toClient' = toClient \o resp /\ resp' = <<>>
  /\ fw' = IF kind[req] = "last" THEN "closing" ELSE "next"
  /\ UNCHANGED <<clientVars, taken, req, held, handler, deadline, relayVars, remoteVars>>

ReplyFails ==
  /\ fw = "reply" /\ (ended \/ handler = "done")
  /\ fw' = "closing"
  /\ UNCHANGED <<clientVars, taken, req, held, resp, toClient, handler, deadline, relayVars, remoteVars>>

(* The next request, the end of them, or one that does not parse. *)
NextRequest ==
  /\ fw = "next"
  /\ \/ sent > taken /\ handler # "done" /\ Begin(req + 1)
     \/ (sent > taken \/ NoMore) /\ fw' = "closing" /\ UNCHANGED <<taken, req, held>>
  /\ UNCHANGED <<clientVars, resp, toClient, handler, deadline, relayVars, remoteVars>>

(* pl.Close: both directions of the pipe. *)
ClosePipe ==
  /\ fw = "closing"
  /\ fw' = "closed"
  /\ UNCHANGED <<clientVars, taken, req, held, resp, toClient, handler, deadline, relayVars, remoteVars>>

-----------------------------------------------------------------------------
(* handleConn with the other end of the pipe, see TCPRelay.  Nothing of it *)
(* closes the end it reads from.                                           *)

Route ==
  /\ handler = "route"
  /\ \/ handler' \in {"done", "dial"} /\ UNCHANGED deadline
     \/ handler' = "wait" /\ deadline' = "armed"
  /\ UNCHANGED <<clientVars, forwardVars, relayVars, remoteVars>>

DeadlinePasses ==
  /\ deadline = "armed"
  /\ deadline' = "expired"
  /\ UNCHANGED <<clientVars, forwardVars, handler, relayVars, remoteVars>>

(* The wait for an initial payload reads from the pipe, which has no       *)
(* deadline: it ends with a payload or with the forwarder.                 *)
WaitRead ==
  /\ handler = "wait"
  /\ \E k \in 1 .. Len(held) : Taken(k) /\ initial' = SubSeq(held, 1, k)
  /\ handler' \in {"dial", "done"} /\ deadline' = "none"
  /\ UNCHANGED <<clientVars, up, down, inHand, toRemote, relayed, remoteVars>>

WaitFails ==
  /\ handler = "wait" /\ fw = "closed"
  /\ handler' = "done"
  /\ UNCHANGED <<clientVars, forwardVars, deadline, relayVars, remoteVars>>

Dial ==
  /\ handler = "dial"
  /\ \/ /\ handler' = "relay" /\ remote' = "open" /\ toRemote' = initial
        /\ up' = "run" /\ down' = "run"
     \/ handler' = "done" /\ UNCHANGED <<remote, toRemote, up, down>>
  /\ UNCHANGED <<clientVars, forwardVars, deadline, initial, inHand, relayed, answers>>

(* Upwards: pipe to remote end.  A failure shows when something is written.*)
RelayUp ==
  /\ up = "run"
  /\ \E k \in 1 .. Len(held) :
       /\ Taken(k)
       /\ IF remote = "failed" THEN up' = "ended" /\ UNCHANGED toRemote
          ELSE toRemote' = toRemote \o SubSeq(held, 1, k) /\ UNCHANGED up
  /\ UNCHANGED <<clientVars, handler, deadline, initial, down, inHand, relayed, remoteVars>>

RelayUpEnds ==
  /\ up = "run" /\ fw = "closed"
  /\ up' = "ended"
  /\ UNCHANGED <<clientVars, forwardVars, handler, deadline, initial, down, inHand, toRemote, relayed, remoteVars>>

(* Downwards: remote end to pipe. *)
RelayDown ==
  /\ down = "run" /\ inHand = <<>> /\ relayed < Len(answers)
  /\ inHand' = <<answers[relayed + 1]>>
  /\ relayed' = relayed + 1
  /\ UNCHANGED <<clientVars, forwardVars, handler, deadline, initial, up, down, toRemote, remoteVars>>

RelayDownEnds ==
  /\ down = "run"
  /\ \/ inHand = <<>> /\ relayed = Len(answers) /\ remote \in {"ended", "failed"}
     \/ inHand # <<>> /\ fw = "closed"
  /\ down' = "ended" /\ inHand' = <<>>
  /\ UNCHANGED <<clientVars, forwardVars, handler, deadline, initial, up, toRemote, relayed, remoteVars>>

RelayDone ==
  /\ handler = "relay" /\ up = "ended" /\ down = "ended"
  /\ handler' = "done"
  /\ UNCHANGED <<clientVars, forwardVars, deadline, relayVars, remoteVars>>

-----------------------------------------------------------------------------
Forwarder == Gather \/ GatherFails \/ ReadResponse \/ Reply \/ ReplyFails \/ NextRequest \/ ClosePipe
Handler == Accept \/ Connect \/ AcceptFails \/ Route \/ WaitRead \/ WaitFails \/ Dial \/ RelayDone
RelaysUp == RelayUp \/ RelayUpEnds
RelaysDown == RelayDown \/ RelayDownEnds

(* The forwarder waits for a reader of the pipe and there is none.  If the *)
(* downward direction waits for the forwarder at that time, for ever.      *)
Stuck == Writing /\ up = "ended"

Finished == (handler \in {"done", "tunnel"} \/ Stuck) /\ UNCHANGED vars

Next ==
  \/ ClientSends \/ ClientEnds \/ RemoteAnswers \/ RemoteEnds
  \/ Spill \/ Forwarder \/ DeadlinePasses \/ Handler \/ RelaysUp \/ RelaysDown
  \/ Finished

(* Goroutines that can run do, and nothing else is sure to happen. *)
Spec ==
  /\ Init /\ [][Next]_vars
  /\ WF_vars(Forwarder) /\ WF_vars(Handler) /\ WF_vars(RelaysUp) /\ WF_vars(RelaysDown)

-----------------------------------------------------------------------------
(* Requests reach a remote end that works as the client sent them, without *)
(* a gap and in order, though the initial payload and the relay take them  *)
(* out of the pipe at different times and heads go before their bodies.    *)
RequestsInOrder ==
  /\ IsPrefix(toRemote, Stream)
  /\ handler = "relay" /\ up = "run" => toRemote \o held = SubSeq(Stream, 1, taken)

(* The client gets the remote end's answers in order, none twice and none  *)
(* skipped: while both ends are there, those it does not have yet are held *)
(* in their order.  How long they are held is not said: the forwarder      *)
(* passes on one answer for a request, so that a final one behind an       *)
(* interim one waits for the client's next request.                        *)
AnswersInOrder ==
  /\ IsPrefix(toClient, answers)
  /\ down = "run" /\ fw \notin {"closing", "closed"} /\ ~ended => toClient \o resp \o inHand = SubSeq(answers, 1, relayed)

(* Client and remote end are through, and the remote end took everything:  *)
(* the connection is closed and the forwarder is gone.                     *)
Through == ended /\ remote = "ended"
Over == (handler = "done" /\ fw = "closed") \/ remote = "failed"
ConnectionEnds == Through ~> Over

(* The ReadWriter is "ready for use": forwarder and relay do not wait for  *)
(* each other.                                                             *)
NeverStuck == ~(Stuck /\ inHand # <<>>)

(* The forwarder does not outlive the connection. *)
ForwarderEnds == handler = "done" ~> fw \in {"none", "closed"}

(* The deadline of the initial payload wait does not cut off the body of   *)
(* a request that the forwarder is reading.                                *)
BodyHasItsTime == fw = "gather" => deadline # "expired"

(* What follows a CONNECT request reaches the tunnel. *)
ConnectLosesNothing == handler = "tunnel" => taken = 1
=============================================================================
