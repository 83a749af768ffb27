---------------------------- MODULE ShadowStream ----------------------------
(***************************************************************************)
(* Shadowsocks 2022 streams (ss2022/stream.go and the TCP headers of       *)
(* ss2022/header.go): clients with their initial payloads, the server's    *)
(* acceptance of requests, responses, and chunked reading and writing in   *)
(* both directions, over a path that may lose, repeat, swap or damage what *)
(* it carries, cut it off, or carry a stream over to another connection.   *)
(*                                                                         *)
(* What is sealed is a box: the key (PSK and salt) and nonce it was sealed *)
(* with, the length of its plaintext and the plaintext's fields.  The salt *)
(* precedes the first box of a stream in the clear, and so does the        *)
(* identity header, which tells the server the PSK.  The AEAD (external)   *)
(* opens a box only with its own key, nonce and length.                    *)
(***************************************************************************)
EXTENDS Integers, Sequences, SequencesExt

CONSTANTS
  Sessions,         \* connections, each with its client
  PSKs, Users,      \* PSKs of clients; those in uPSKMap (if any)
  ServerPSK,
  MaxPayloadSize,   \* largest uint16
  AddrLens,         \* lengths of target addresses
  MaxPaddingLength,
  InitialPayloads,  \* lengths of initial payloads
  MaxSent,          \* bytes written in one direction at most (bound)
  MaxFaults         \* faults of the paths (bound)

ShadowConstants ==
  /\ {MaxPayloadSize, MaxPaddingLength} \subseteq Nat \ {0}
  /\ AddrLens \subseteq Nat \ {0}
  /\ \A a \in AddrLens : MaxPaddingLength <= MaxPayloadSize - a - 2
  /\ Users \subseteq PSKs /\ InitialPayloads \subseteq Nat /\ {MaxSent, MaxFaults} \subseteq Nat

VARIABLES
  psk,       \* psk[s]: the client's PSK
  excess,    \* excess[s]: initial payload not yet written, <<next, last>>
  bufLen,    \* bufLen[s]: length of the buffer it is written from
  wNonce,    \* wNonce[s, d]: the writer's next nonce; -1 before the first write
  sent,      \* sent[s, d]: bytes written
  log,       \* log[s, d]: boxes sealed
  path,      \* path[s, d]: boxes on their way
  open,      \* open[s, d]: the writing end is open
  rpc,       \* rpc[s, d]: what the reader reads next; "eof" or "failed" in the end
  rKey, rNonce, rLen, \* the reader's cipher and the length of the next box
  delivered, \* delivered[s, d]: bytes the reader returned
  peer,      \* peer[s]: salt of the request the server accepted
  pool,      \* the salt pool
  forgotten, \* the salts it has cleaned away
  faults

clientVars == <<psk, excess, bufLen>>
writerVars == <<wNonce, sent, log, path>>
readerVars == <<rpc, rKey, rNonce, rLen, delivered>>
vars == <<clientVars, writerVars, open, readerVars, peer, pool, forgotten, faults>>

Dirs == {"c2s", "s2c"}
None == <<>>
FixedLen == 11   \* TCPRequestFixedLengthHeaderLength
SaltLen == 16

(* rand.Read: no two salts are equal (external). *)
Salt(s, d) == <<s, d>>

Init ==
  /\ psk \in [Sessions -> PSKs]
  /\ excess = [s \in Sessions |-> <<1, 0>>] /\ bufLen = [s \in Sessions |-> 0]
  /\ wNonce = [p \in Sessions \X Dirs |-> -1] /\ sent = [p \in Sessions \X Dirs |-> 0]
  /\ log = [p \in Sessions \X Dirs |-> <<>>] /\ path = log
  /\ open = [p \in Sessions \X Dirs |-> TRUE]
  /\ rpc = [p \in Sessions \X Dirs |-> "header"]
  /\ rKey = [p \in Sessions \X Dirs |-> None]
  /\ rNonce = [p \in Sessions \X Dirs |-> 0] /\ rLen = rNonce
  /\ delivered = log
  /\ peer = [s \in Sessions |-> None] /\ pool = {} /\ forgotten = {} /\ faults = 0

-----------------------------------------------------------------------------
(* ShadowStreamCipher and the plaintexts *)

Uint16(i) == i % (MaxPayloadSize + 1)
Bytes(s, d, from, to) == [i \in 1 .. to - from + 1 |-> <<s, d, from + i - 1>>]

Box(key, nonce, len, n, salt, bytes) ==
  [key |-> key, nonce |-> nonce, len |-> len, n |-> n, salt |-> salt, bytes |-> bytes, intact |-> TRUE]

Opens(box, key, nonce, len) == box.intact /\ box.key = key /\ box.nonce = nonce /\ box.len = len

(* bug: sealing to another buffer leaves the nonce as it was *)
NextNonce_Stays(nonce) == IF nonce = 1 THEN nonce ELSE nonce + 1

(* increment, after each operation that succeeds *)
NextNonce(nonce) == nonce + 1

(* Sealing two plaintexts in a row and writing them out in one go *)
WriteTwo(s, d, box1, box2, next) ==
  /\ open[s, d]
  /\ log' = [log EXCEPT ![<<s, d>>] = @ \o <<box1, box2>>]
  /\ path' = [path EXCEPT ![<<s, d>>] = @ \o <<box1, box2>>]
  /\ wNonce' = [wNonce EXCEPT ![<<s, d>>] = next]

-----------------------------------------------------------------------------
(* NewShadowStreamClientReadWriter *)

Room(a) == MaxPayloadSize - a - 2

(* paddingPayloadLen: the payload with its random padding *)
PaddedLens(a, n) ==
  CASE n > Room(a)           -> {Room(a)}
    [] n >= MaxPaddingLength -> {n}
    [] n > 0                 -> n .. MaxPaddingLength
    [] OTHER                 -> 1 .. MaxPaddingLength

(* The request: fixed-length header, then variable-length header with the  *)
(* padding and as much of the payload as fits.                             *)
Request(s) ==
  /\ wNonce[s, "c2s"] = -1
  /\ \E a \in AddrLens, n \in InitialPayloads : \E padded \in PaddedLens(a, n) :
       LET own == IF n > padded THEN padded ELSE n
           vhlen == a + 2 + padded
           key == <<psk[s], Salt(s, "c2s")>>
           fixed == Box(key, 0, FixedLen, <<Uint16(vhlen)>>, None, <<>>)
           variable == Box(key, NextNonce(0), vhlen, <<a, Uint16(padded - own)>>, None, Bytes(s, "c2s", 1, own)) IN
       /\ WriteTwo(s, "c2s", fixed, variable, NextNonce(NextNonce(0)))
       /\ sent' = [sent EXCEPT ![<<s, "c2s">>] = own]
       /\ excess' = [excess EXCEPT ![s] = <<own + 1, n>>]
       /\ bufLen' = [bufLen EXCEPT ![s] = vhlen]
  /\ UNCHANGED <<psk, open, readerVars, peer, pool, forgotten, faults>>

(* ShadowStreamWriter.WriteZeroCopy: length chunk and payload chunk *)
WriteChunk(s, d, key, n) ==
  LET nonce == wNonce[s, d] IN
  /\ WriteTwo(s, d, Box(key, nonce, 2, <<Uint16(n)>>, None, <<>>),
              Box(key, NextNonce(nonce), n, <<>>, None, Bytes(s, d, sent[s, d] + 1, sent[s, d] + n)),
              NextNonce(NextNonce(nonce)))
  /\ sent' = [sent EXCEPT ![<<s, d>>] = @ + n]

HasExcess(s) == excess[s][1] <= excess[s][2]

(* bug: only one buffer of excess payload is written *)
WriteExcess_Once(s) ==
  /\ HasExcess(s)
  /\ LET left == excess[s][2] - excess[s][1] + 1
         n == IF left < bufLen[s] THEN left ELSE bufLen[s] IN
     /\ WriteChunk(s, "c2s", <<psk[s], Salt(s, "c2s")>>, n)
     /\ excess' = [excess EXCEPT ![s] = <<@[2] + 1, @[2]>>]
  /\ UNCHANGED <<psk, bufLen, open, readerVars, peer, pool, forgotten, faults>>

(* One turn of the loop over the excess payload, a buffer at a time *)
WriteExcess(s) ==
  /\ HasExcess(s)
  /\ LET left == excess[s][2] - excess[s][1] + 1
         n == IF left < bufLen[s] THEN left ELSE bufLen[s] IN
     /\ WriteChunk(s, "c2s", <<psk[s], Salt(s, "c2s")>>, n)
     /\ excess' = [excess EXCEPT ![s] = <<@[1] + n, @[2]>>]
  /\ UNCHANGED <<psk, bufLen, open, readerVars, peer, pool, forgotten, faults>>

(* WriteZeroCopy of the client *)
ClientWrite(s) ==
  /\ wNonce[s, "c2s"] > 0 /\ ~HasExcess(s)
  /\ \E n \in 1 .. MaxPayloadSize :
       sent[s, "c2s"] + n <= MaxSent /\ WriteChunk(s, "c2s", <<psk[s], Salt(s, "c2s")>>, n)
  /\ UNCHANGED <<clientVars, open, readerVars, peer, pool, forgotten, faults>>

-----------------------------------------------------------------------------
(* NewShadowStreamServerReadWriter, and reading a chunk *)

GivesUp(s, d) ==
  /\ rpc' = [rpc EXCEPT ![<<s, d>>] = "failed"]
  /\ UNCHANGED <<rKey, rNonce, rLen, delivered, peer>>

Fail(s, d) == GivesUp(s, d) /\ UNCHANGED <<pool, forgotten>>

(* Opens the next box, to go on with one of length len at label. *)
Advance(s, d, key, nonce, label, len) ==
  /\ rpc' = [rpc EXCEPT ![<<s, d>>] = label]
  /\ rKey' = [rKey EXCEPT ![<<s, d>>] = key]
  /\ rNonce' = [rNonce EXCEPT ![<<s, d>>] = NextNonce(nonce)]
  /\ rLen' = [rLen EXCEPT ![<<s, d>>] = len]

Take(s, d, label) ==
  /\ rpc[s, d] = label /\ path[s, d] # <<>>
  /\ path' = [path EXCEPT ![<<s, d>>] = Tail(@)]
  /\ UNCHANGED <<clientVars, wNonce, sent, log, open, faults>>

(* Fixed-length header: the user's PSK, the opening, the salt pool.  Add   *)
(* first cleans away salts of any age here; which, and when a request can  *)
(* still be repeated then, is what the SaltPool module is about.           *)
ServerHeader(s) ==
  /\ Take(s, "c2s", "header")
  /\ LET box == Head(path[s, "c2s"])
         known == Users = {} \/ box.key[1] \in Users
         key == <<IF Users = {} THEN ServerPSK ELSE box.key[1], box.key[2]>> IN
     IF known /\ Opens(box, key, 0, FixedLen)
     THEN \E old \in SUBSET pool :
            /\ forgotten' = forgotten \cup old
            /\ IF key[2] \in pool \ old
               THEN GivesUp(s, "c2s") /\ pool' = pool \ old
               ELSE /\ Advance(s, "c2s", key, 0, "variable", box.n[1])
                    /\ peer' = [peer EXCEPT ![s] = key] /\ pool' = (pool \ old) \cup {key[2]}
                    /\ UNCHANGED delivered
     ELSE Fail(s, "c2s")

(* ParseTCPRequestVariableLengthHeader *)
VariableHeaderOk(box) ==
  LET rest == box.len - box.n[1] IN rest > 2 /\ 2 + box.n[2] <= rest

ServerVariable(s) ==
  /\ Take(s, "c2s", "variable")
  /\ LET box == Head(path[s, "c2s"]) IN
     IF Opens(box, rKey[s, "c2s"], rNonce[s, "c2s"], rLen[s, "c2s"]) /\ VariableHeaderOk(box)
     THEN /\ Advance(s, "c2s", rKey[s, "c2s"], rNonce[s, "c2s"], "length", 2)
          /\ delivered' = [delivered EXCEPT ![<<s, "c2s">>] = @ \o box.bytes]
          /\ UNCHANGED <<peer, pool, forgotten>>
     ELSE Fail(s, "c2s")

(* ShadowStreamReader.ReadZeroCopy: the length chunk ... *)
ReadLength(s, d) ==
  /\ Take(s, d, "length")
  /\ LET box == Head(path[s, d]) IN
     IF Opens(box, rKey[s, d], rNonce[s, d], 2) /\ box.n[1] # 0
     THEN Advance(s, d, rKey[s, d], rNonce[s, d], "payload", box.n[1]) /\ UNCHANGED <<delivered, peer, pool, forgotten>>
     ELSE Fail(s, d)

(* ... and the payload chunk; also the one after a response header *)
ReadPayload(s, d) ==
  /\ Take(s, d, "payload")
  /\ LET box == Head(path[s, d]) IN
     IF Opens(box, rKey[s, d], rNonce[s, d], rLen[s, d])
     THEN /\ Advance(s, d, rKey[s, d], rNonce[s, d], "length", 2)
          /\ delivered' = [delivered EXCEPT ![<<s, d>>] = @ \o box.bytes]
          /\ UNCHANGED <<peer, pool, forgotten>>
     ELSE Fail(s, d)

(* Nothing more to read *)
ReadEnds(s, d) ==
  /\ rpc[s, d] \notin {"eof", "failed"} /\ path[s, d] = <<>> /\ ~open[s, d]
  /\ rpc' = [rpc EXCEPT ![<<s, d>>] = "eof"]
  /\ UNCHANGED <<clientVars, writerVars, open, rKey, rNonce, rLen, delivered, peer, pool, forgotten, faults>>

(* The first read returns less than a header, or the timestamp in it is    *)
(* too far from the reader's clock, which is looked at before the salt     *)
(* pool: the stream was held up, or the clocks differ.                     *)
HeaderRefused(s, d) ==
  /\ faults < MaxFaults /\ faults' = faults + 1
  /\ rpc[s, d] = "header" /\ path[s, d] # <<>>
  /\ Fail(s, d)
  /\ path' = [path EXCEPT ![<<s, d>>] = Tail(@)]
  /\ UNCHANGED <<clientVars, wNonce, sent, log, open>>

-----------------------------------------------------------------------------
(* The response *)

(* Both headers of the request have been opened. *)
Accepted(s) == peer[s] # None /\ rNonce[s, "c2s"] > 1

(* WriteZeroCopy of the server: the first write begins with the response   *)
(* header, which takes the place of the length chunk.                      *)
ServerWrite(s) ==
  /\ Accepted(s)
  /\ \E n \in 1 .. MaxPayloadSize :
       /\ sent[s, "s2c"] + n <= MaxSent
       /\ LET key == <<peer[s][1], Salt(s, "s2c")>> IN
          IF wNonce[s, "s2c"] = -1
          THEN /\ WriteTwo(s, "s2c", Box(key, 0, FixedLen + SaltLen, <<Uint16(n)>>, peer[s][2], <<>>),
                           Box(key, NextNonce(0), n, <<>>, None, Bytes(s, "s2c", 1, n)), NextNonce(NextNonce(0)))
               /\ sent' = [sent EXCEPT ![<<s, "s2c">>] = n]
          ELSE WriteChunk(s, "s2c", key, n)
  /\ UNCHANGED <<clientVars, open, readerVars, peer, pool, forgotten, faults>>

(* bug: the request salt in the response is not compared *)
ClientHeader_AnySalt(s) ==
  /\ Take(s, "s2c", "header")
  /\ LET box == Head(path[s, "s2c"])
         key == <<psk[s], box.key[2]>> IN
     IF Opens(box, key, 0, FixedLen + SaltLen)
     THEN Advance(s, "s2c", key, 0, "payload", box.n[1]) /\ UNCHANGED <<delivered, peer, pool, forgotten>>
     ELSE Fail(s, "s2c")

(* The client's first read *)
ClientHeader(s) ==
  /\ Take(s, "s2c", "header")
  /\ LET box == Head(path[s, "s2c"])
         key == <<psk[s], box.key[2]>> IN
     IF Opens(box, key, 0, FixedLen + SaltLen) /\ box.salt = Salt(s, "c2s")
     THEN Advance(s, "s2c", key, 0, "payload", box.n[1]) /\ UNCHANGED <<delivered, peer, pool, forgotten>>
     ELSE Fail(s, "s2c")

CloseWrite(s, d) ==
  /\ open[s, d] /\ wNonce[s, d] > 0 /\ (d = "c2s" => ~HasExcess(s))
  /\ open' = [open EXCEPT ![<<s, d>>] = FALSE]
  /\ UNCHANGED <<clientVars, writerVars, readerVars, peer, pool, forgotten, faults>>

-----------------------------------------------------------------------------
(* The paths *)

Fault == faults < MaxFaults /\ faults' = faults + 1
         /\ UNCHANGED <<clientVars, wNonce, sent, log, readerVars, peer, pool, forgotten>>

Damaged(box) == [box EXCEPT !.intact = FALSE, !.bytes = <<<<"damaged", "damaged", 0>>>>]

Disturb(s, d) ==
  /\ Fault /\ UNCHANGED open
  /\ \E i \in DOMAIN path[s, d] :
       \/ path' = [path EXCEPT ![<<s, d>>] = RemoveAt(@, i)]
       \/ path' = [path EXCEPT ![<<s, d>>] = InsertAt(@, i, @[i])]
       \/ path' = [path EXCEPT ![<<s, d>>] = ReplaceAt(@, i, Damaged(@[i]))]
       \/ i > 1 /\ path' = [path EXCEPT ![<<s, d>>] = ReplaceAt(ReplaceAt(@, i, @[i - 1]), i - 1, @[i])]

Cut(s, d) ==
  /\ Fault /\ open[s, d]
  /\ open' = [open EXCEPT ![<<s, d>>] = FALSE]
  /\ \E k \in 0 .. Len(path[s, d]) : path' = [path EXCEPT ![<<s, d>>] = SubSeq(@, 1, k)]

(* What was sealed for one connection arrives on another. *)
CarryOver(s, t, d) ==
  /\ Fault /\ UNCHANGED open
  /\ s # t /\ rpc[t, d] = "header" /\ log[s, d] # <<>>
  /\ path' = [path EXCEPT ![<<t, d>>] = log[s, d]]

Reads(s, d) == ReadLength(s, d) \/ ReadPayload(s, d) \/ ReadEnds(s, d)

(* A connection may be left as it is once its readers have read all there  *)
(* is, or have given up.                                                   *)
Finished ==
  /\ \A s \in Sessions, d \in Dirs : path[s, d] = <<>> \/ rpc[s, d] = "failed"
  /\ UNCHANGED vars

Next ==
  \/ \E s \in Sessions :
       \/ Request(s) \/ WriteExcess(s) \/ ClientWrite(s) \/ ServerHeader(s) \/ ServerVariable(s)
       \/ ServerWrite(s) \/ ClientHeader(s)
       \/ \E d \in Dirs : ReadLength(s, d) \/ ReadPayload(s, d) \/ ReadEnds(s, d) \/ HeaderRefused(s, d)
                          \/ CloseWrite(s, d) \/ Disturb(s, d) \/ Cut(s, d)
       \/ \E t \in Sessions, d \in Dirs : CarryOver(s, t, d)
  \/ Finished

Spec == Init /\ [][Next]_vars

(* What the two ends do by themselves: readers read what there is, and the *)
(* excess payload is written.                                              *)
ClientGoesOn(s) == WriteExcess(s) \/ ClientHeader(s) \/ Reads(s, "s2c")
ServerGoesOn(s) == ServerHeader(s) \/ ServerVariable(s) \/ Reads(s, "c2s")

-----------------------------------------------------------------------------
Known(p) == p \in (IF Users = {} THEN {ServerPSK} ELSE Users)

(* What a reader returns is an unbroken beginning of what one writer wrote *)
(* in that direction, whatever the path did: bytes of the initial payload, *)
(* of the excess payload and of later writes in their order.               *)
DeliveredInOrder ==
  \A s \in Sessions, d \in Dirs : \E t \in Sessions :
    delivered[s, d] = Bytes(t, d, 1, Len(delivered[s, d])) /\ Len(delivered[s, d]) <= sent[t, d]

(* A request is served on one connection at most, even when it arrives on  *)
(* several, unless the pool had forgotten its salt in between.             *)
ServedOnce ==
  \A s, t \in Sessions : s # t /\ peer[s] # None /\ peer[s] = peer[t] => peer[s][2] \in forgotten

(* What a client returns was written in response to its own request.       *)
ResponsesAnswerTheRequest ==
  \A s \in Sessions : \A i \in DOMAIN delivered[s, "s2c"] :
    peer[delivered[s, "s2c"][i][1]] = <<psk[s], Salt(s, "c2s")>>

(* No key is used with a nonce twice, in either direction.                 *)
NoncesUsedOnce ==
  \A p, q \in Sessions \X Dirs : \A i \in DOMAIN log[p], j \in DOMAIN log[q] :
    log[p][i].key = log[q][j].key /\ log[p][i].nonce = log[q][j].nonce => p = q /\ i = j

(* A server accepts what a client with a PSK it knows writes, whatever the *)
(* length of the initial payload and the padding drawn, and each reads the *)
(* other's chunks: reading fails only when the path did.                   *)
OwnStreamsAccepted ==
  \A s \in Sessions, d \in Dirs : rpc[s, d] = "failed" /\ faults = 0 => ~Known(psk[s])

(* On paths without faults, all of the initial payload (the last of which  *)
(* has the index excess[s][2]) and all that is written later arrives,      *)
(* whenever the writers pause.                                             *)
EverythingArrives ==
  []<>(\A s \in Sessions, d \in Dirs :
         \/ faults > 0 \/ ~Known(psk[s])
         \/ /\ Len(delivered[s, d]) = sent[s, d]
            /\ d = "c2s" => Len(delivered[s, d]) >= excess[s][2])
=============================================================================
