----------------------------- MODULE DNSResolver ----------------------------
(***************************************************************************)
(* The caching resolver of dns/dns.go: Lookup, sendQueries, sendQueriesUDP *)
(* with its two sender goroutines, and sendQueriesTCP.                     *)
(*                                                                         *)
(* A lookup is a goroutine in Lookup.  An answer record is its type and    *)
(* its TTL; a message is its transaction ID, what is wrong with it, and    *)
(* the answers that parse.  The address of a record is not modelled: which *)
(* records end up in a result is.  Packets that cannot be read or          *)
(* unpacked, or come from another address, leave the read loop where it    *)
(* was and are no steps of the model.  The two senders pack with one       *)
(* packer without synchronisation: a query they garble or send under a     *)
(* packet ID already used is a query the server does not answer.           *)
(***************************************************************************)
EXTENDS Integers, FiniteSets, FiniteSetsExt, Sequences, SequencesExt

CONSTANTS
  Lookups,      \* goroutines that may call Lookup
  Names,
  NameOf,       \* NameOf[l]: the name l looks up
  Settings,     \* settings of the resolver, see the variable
  Iterations,   \* how often a sender sends its query (10 in the code)
  MaxTTL,       \* math.MaxUint32
  MaxTime,      \* bound: the clock stops there
  None

Families == {4, 6}    \* the transaction IDs of the A and the AAAA query

RR == [type : {"A", "AAAA", "CNAME"}, ttl : 0 .. MaxTTL]

ASSUME ResolverAssumption ==
  /\ NameOf \in [Lookups -> Names]
  /\ \A s \in Settings : /\ s.clients \subseteq {"udp", "tcp"} /\ s.clients # {}
                        /\ s.callers \subseteq Lookups /\ s.answers \subseteq Seq(RR)
  /\ Iterations \in Nat \ {0} /\ MaxTTL \in Nat \ {0} /\ MaxTime \in Nat

VARIABLES
  setting,  \* the resolver's clients, the goroutines that call it, and the
            \* answer sections the upstream server may send
  now,      \* the clock, in seconds
  cache,    \* cache[n]: a cached result, with its expiry, or None
  pc,       \* pc[l]: where the lookup is
  res,      \* res[l]: result.IPv4 and result.IPv6, the records behind them
  minTTL,   \* minTTL[l]
  done,     \* done[l]: v4done and v6done
  read,     \* read[l]: messages read from the TCP connection
  expiry,   \* expiry[l].ttl: result.TTL; expiry[l].at: when it was set
  ret,      \* ret[l]: how the lookup returned: "no", "cache", "answer", "error"
  sock,     \* sock[l]: udpConn: "none", "armed", "expired", "closed"
  ctrl,     \* ctrl[l][f]: the control channel: "open", "signalled"; it is closed then
  snd,      \* snd[l][f]: the sender goroutine of family f
  iter,     \* iter[l][f]: its i
  panicked, \* a send on a closed channel
  got,      \* history: the messages taken into res[l] over the present transport
  late      \* history: late[l][f]: queries of family f written since it was answered

udpVars  == <<sock, ctrl, snd, iter, late>>
workVars == <<res, minTTL, done, read, got>>
vars == <<setting, now, cache, pc, workVars, expiry, ret, udpVars, panicked>>

NoResult == [v4 |-> <<>>, v6 |-> <<>>]
NoExpiry == [ttl |-> 0, at |-> 0]

Init ==
  /\ setting \in Settings
  /\ now = 0
  /\ cache = [n \in Names |-> None]
  /\ pc = [l \in Lookups |-> "idle"]
  /\ res = [l \in Lookups |-> NoResult]
  /\ minTTL = [l \in Lookups |-> 0]
  /\ done = [l \in Lookups |-> {}]
  /\ read = [l \in Lookups |-> 0]
  /\ expiry = [l \in Lookups |-> NoExpiry]
  /\ ret = [l \in Lookups |-> "no"]
  /\ sock = [l \in Lookups |-> "none"]
  /\ ctrl = [l \in Lookups |-> [f \in Families |-> "open"]]
  /\ snd = [l \in Lookups |-> [f \in Families |-> "done"]]
  /\ iter = [l \in Lookups |-> [f \in Families |-> 0]]
  /\ panicked = FALSE
  /\ got = [l \in Lookups |-> <<>>]
  /\ late = [l \in Lookups |-> [f \in Families |-> 0]]

At(l, label) == ~panicked /\ pc[l] = label

Goto(l, label) == pc' = [pc EXCEPT ![l] = label]

Return(l, how) ==
  /\ Goto(l, "returned")
  /\ ret' = [ret EXCEPT ![l] = how]

-----------------------------------------------------------------------------
(* Messages *)

(* What the code tells apart in a message, in the order it looks: a header *)
(* that does not parse, an unknown ID, no response bit, the truncated bit, *)
(* an RCode, questions that cannot be skipped, and an answer that does not *)
(* parse after the ones listed.                                            *)
Faults == {"none", "header", "id", "query", "truncated", "rcode", "questions", "answer"}

Messages ==
  {m \in [id : Families, fault : Faults, answers : setting.answers] :
     m.fault \in {"header", "id", "query", "rcode", "questions"} => m.answers = <<>>}

OfType(answers, t) ==
  LET first[i \in 0 .. Len(answers)] ==   \* those among the first i answers
        IF i = 0 THEN <<>>
        ELSE IF answers[i].type = t THEN Append(first[i - 1], answers[i])
        ELSE first[i - 1]
  IN  first[Len(answers)]

(* "Set minimum TTL": every answer's, before its type is looked at. *)
LeastTTL(ttl, answers) == Min({ttl} \union {answers[i].ttl : i \in DOMAIN answers})

(* "Parse answers and add to result": an A record goes to IPv4 and an AAAA *)
(* record to IPv6 whatever the query was for.                              *)
ParseAnswers(l, m) ==
  /\ res' = [res EXCEPT ![l] = [v4 |-> @.v4 \o OfType(m.answers, "A"),
                                v6 |-> @.v6 \o OfType(m.answers, "AAAA")]]
  /\ minTTL' = [minTTL EXCEPT ![l] = LeastTTL(@, m.answers)]
  /\ got' = [got EXCEPT ![l] = Append(@, m)]

-----------------------------------------------------------------------------
(* Lookup *)

(* The cache is read under r.mu. *)
LookupCache(l) ==
  /\ At(l, "idle")
  /\ IF cache[NameOf[l]] = None
       THEN Goto(l, "query") /\ UNCHANGED <<res, expiry>>
       ELSE /\ Goto(l, "check")
            /\ res' = [res EXCEPT ![l] = [v4 |-> cache[NameOf[l]].v4, v6 |-> cache[NameOf[l]].v6]]
            /\ expiry' = [expiry EXCEPT ![l] = cache[NameOf[l]].exp]
  /\ UNCHANGED <<now, cache, minTTL, done, read, got, ret, udpVars, panicked>>

(* bug: a result is used in the second in which it expires *)
CheckTTL_Inclusive(l) ==
  /\ At(l, "check")
  /\ IF expiry[l].ttl >= now
       THEN Return(l, "cache")
       ELSE Goto(l, "query") /\ UNCHANGED ret
  /\ UNCHANGED <<now, cache, workVars, expiry, udpVars, panicked>>

(* result.TTL.After(time.Now()), after the unlock. *)
CheckTTL(l) ==
  /\ At(l, "check")
  /\ IF expiry[l].ttl > now
       THEN Return(l, "cache")
       ELSE Goto(l, "query") /\ UNCHANGED ret
  /\ UNCHANGED <<now, cache, workVars, expiry, udpVars, panicked>>

(* sendQueries: a name that cannot be packed fails; UDP comes first. *)
SendQueries(l) ==
  /\ At(l, "query")
  /\ \/ Return(l, "error")
     \/ /\ Goto(l, IF "udp" \in setting.clients THEN "udp" ELSE "tcp")
        /\ UNCHANGED ret
  /\ UNCHANGED <<now, cache, workVars, expiry, udpVars, panicked>>

(* The next call of Lookup, with locals of its own; bound: the senders of  *)
(* the last call are gone.                                                 *)
LookupAgain(l) ==
  /\ At(l, "returned")
  /\ \A f \in Families : snd[l][f] = "done"
  /\ Goto(l, "idle")
  /\ ret' = [ret EXCEPT ![l] = "no"]
  /\ res' = [res EXCEPT ![l] = NoResult]
  /\ minTTL' = [minTTL EXCEPT ![l] = 0]
  /\ done' = [done EXCEPT ![l] = {}]
  /\ read' = [read EXCEPT ![l] = 0]
  /\ got' = [got EXCEPT ![l] = <<>>]
  /\ expiry' = [expiry EXCEPT ![l] = NoExpiry]
  /\ sock' = [sock EXCEPT ![l] = "none"]
  /\ iter' = [iter EXCEPT ![l] = [f \in Families |-> 0]]
  /\ late' = [late EXCEPT ![l] = [f \in Families |-> 0]]
  /\ ctrl' = [ctrl EXCEPT ![l] = [f \in Families |-> "open"]]
  /\ UNCHANGED <<now, cache, snd, panicked>>

-----------------------------------------------------------------------------
(* sendQueriesUDP *)

(* What sendQueries does with an unhandled result of the UDP client. *)
Unhandled(l) ==
  IF "tcp" \in setting.clients
    THEN Goto(l, "tcp") /\ UNCHANGED ret
    ELSE Return(l, "error")

(* No client session, no socket, or no deadline. *)
StartUDPFails(l) ==
  /\ At(l, "udp")
  /\ res' = [res EXCEPT ![l] = NoResult]
  /\ Unhandled(l)
  /\ UNCHANGED <<now, cache, minTTL, done, read, got, expiry, udpVars, panicked>>

StartUDP(l) ==
  /\ At(l, "udp")
  /\ Goto(l, "read")
  /\ res' = [res EXCEPT ![l] = NoResult]
  /\ minTTL' = [minTTL EXCEPT ![l] = MaxTTL]
  /\ done' = [done EXCEPT ![l] = {}]
  /\ got' = [got EXCEPT ![l] = <<>>]
  /\ sock' = [sock EXCEPT ![l] = "armed"]
  /\ ctrl' = [ctrl EXCEPT ![l] = [f \in Families |-> "open"]]
  /\ snd' = [snd EXCEPT ![l] = [f \in Families |-> "write"]]
  /\ iter' = [iter EXCEPT ![l] = [f \in Families |-> 0]]
  /\ late' = [late EXCEPT ![l] = [f \in Families |-> 0]]
  /\ UNCHANGED <<now, cache, read, expiry, ret, panicked>>

(* sendFunc packs and writes the query, then sleeps.  A failure of either  *)
(* (a write after the lookup has closed udpConn always fails) moves the    *)
(* read deadline to the present and ends the sender.                       *)
SenderWrite(l, f) ==
  /\ ~panicked /\ snd[l][f] = "write"
  /\ \/ /\ sock[l] # "closed"
        /\ snd' = [snd EXCEPT ![l][f] = "sleep"]
        /\ late' = [late EXCEPT ![l][f] = IF f \in done[l] THEN @ + 1 ELSE @]
        /\ UNCHANGED sock
     \/ /\ snd' = [snd EXCEPT ![l][f] = "done"]
        /\ sock' = [sock EXCEPT ![l] = IF @ = "closed" THEN @ ELSE "expired"]
        /\ UNCHANGED late
  /\ UNCHANGED <<now, cache, pc, workVars, expiry, ret, ctrl, iter, panicked>>

(* After two seconds: stop when signalled, or after the last iteration. *)
SenderWake(l, f) ==
  /\ ~panicked /\ snd[l][f] = "sleep"
  /\ IF ctrl[l][f] # "open"
       THEN /\ snd' = [snd EXCEPT ![l][f] = "done"]
            /\ UNCHANGED iter
       ELSE /\ iter' = [iter EXCEPT ![l][f] = @ + 1]
            /\ snd' = [snd EXCEPT ![l][f] = IF iter[l][f] + 1 = Iterations THEN "done" ELSE "write"]
  /\ UNCHANGED <<now, cache, pc, workVars, expiry, ret, sock, ctrl, late, panicked>>

(* Send on and close the control channels of F (a channel holds one signal *)
(* and is sent one); a send on a closed channel panics.                    *)
Signal(l, F) ==
  /\ panicked' = \E f \in F : ctrl[l][f] # "open"
  /\ ctrl' = [ctrl EXCEPT ![l] = [f \in Families |-> IF f \in F THEN "signalled" ELSE @[f]]]

(* The server answers a query of this lookup that was written. *)
Answers(l, m) == snd[l][m.id] = "sleep" \/ iter[l][m.id] > 0

(* bug: an answer for a family that is done is taken again *)
ReadReply_Again(l, m) ==
  /\ At(l, "read") /\ sock[l] = "armed" /\ Answers(l, m) /\ m.fault = "none"
  /\ ParseAnswers(l, m)
  /\ done' = [done EXCEPT ![l] = @ \union {m.id}]
  /\ Signal(l, {m.id} \ done[l])
  /\ Goto(l, IF done[l] \union {m.id} = Families THEN "cleanup" ELSE "read")
  /\ UNCHANGED <<now, cache, read, expiry, ret, sock, snd, iter, late>>

(* A good reply to a query still open.  (A reply to one that is done       *)
(* leaves the loop where it was.)                                          *)
ReadReply(l, m) ==
  /\ At(l, "read") /\ sock[l] = "armed" /\ Answers(l, m)
  /\ m.fault = "none" /\ m.id \notin done[l]
  /\ ParseAnswers(l, m)
  /\ done' = [done EXCEPT ![l] = @ \union {m.id}]
  /\ Signal(l, {m.id})
  /\ Goto(l, IF done[l] \union {m.id} = Families THEN "cleanup" ELSE "read")
  /\ UNCHANGED <<now, cache, read, expiry, ret, sock, snd, iter, late>>

(* Any fault ends the loop; the answers before one that does not parse     *)
(* stay in the result.                                                     *)
ReadBadReply(l, m) ==
  /\ At(l, "read") /\ sock[l] = "armed" /\ Answers(l, m)
  /\ m.fault # "none" /\ (m.fault \in {"header", "id"} \/ m.id \notin done[l])
  /\ IF m.fault = "answer" THEN ParseAnswers(l, m) ELSE UNCHANGED <<res, minTTL, got>>
  /\ Goto(l, "cleanup")
  /\ UNCHANGED <<now, cache, done, read, expiry, ret, udpVars, panicked>>

(* bug: an exceeded deadline is treated like any other read error, and the *)
(* deadline is set anew                                                    *)
ReadTimeout_Retry(l) ==
  /\ At(l, "read") /\ sock[l] = "expired"
  /\ sock' = [sock EXCEPT ![l] = "armed"]
  /\ UNCHANGED <<now, cache, pc, workVars, expiry, ret, ctrl, snd, iter, late, panicked>>

ReadTimeout(l) ==
  /\ At(l, "read") /\ sock[l] = "expired"
  /\ Goto(l, "cleanup")
  /\ UNCHANGED <<now, cache, workVars, expiry, ret, udpVars, panicked>>

(* The read deadline, 20 s after the start, passes. *)
Deadline(l) ==
  /\ ~panicked /\ sock[l] = "armed"
  /\ sock' = [sock EXCEPT ![l] = "expired"]
  /\ UNCHANGED <<now, cache, pc, workVars, expiry, ret, ctrl, snd, iter, late, panicked>>

(* bug: both senders are told, also the one that was *)
CleanupUDP_Both(l) ==
  /\ At(l, "cleanup")
  /\ Signal(l, Families)
  /\ sock' = [sock EXCEPT ![l] = "closed"]
  /\ IF done[l] = Families THEN Goto(l, "store") /\ UNCHANGED ret ELSE Unhandled(l)
  /\ UNCHANGED <<now, cache, workVars, expiry, snd, iter, late>>

(* "Clean up in case of error", the deferred udpConn.Close, and handled. *)
CleanupUDP(l) ==
  /\ At(l, "cleanup")
  /\ Signal(l, Families \ done[l])
  /\ sock' = [sock EXCEPT ![l] = "closed"]
  /\ IF done[l] = Families THEN Goto(l, "store") /\ UNCHANGED ret ELSE Unhandled(l)
  /\ UNCHANGED <<now, cache, workVars, expiry, snd, iter, late>>

-----------------------------------------------------------------------------
(* sendQueriesTCP *)

(* Dial, with both queries as the payload, and SetReadDeadline.  The       *)
(* result begins anew.  Clients that read from a proxy in Dial do so       *)
(* without a deadline.                                                     *)
DialTCP(l) ==
  /\ At(l, "tcp")
  /\ res' = [res EXCEPT ![l] = NoResult]
  /\ read' = [read EXCEPT ![l] = 0]
  /\ \/ Return(l, "error") /\ UNCHANGED minTTL
     \/ /\ Goto(l, "message") /\ UNCHANGED ret
        /\ minTTL' = [minTTL EXCEPT ![l] = MaxTTL]
  /\ done' = [done EXCEPT ![l] = {}]
  /\ got' = [got EXCEPT ![l] = <<>>]
  /\ UNCHANGED <<now, cache, expiry, udpVars, panicked>>

(* A message without a fault the code looks for (the truncated bit is not  *)
(* one).  Two are read, whatever their IDs; handled says whether they      *)
(* answer both queries.                                                    *)
ReadMessage(l, m) ==
  /\ At(l, "message") /\ m.fault \in {"none", "truncated"}
  /\ ParseAnswers(l, m)
  /\ done' = [done EXCEPT ![l] = @ \union {m.id}]
  /\ read' = [read EXCEPT ![l] = @ + 1]
  /\ IF read[l] = 0 THEN UNCHANGED <<pc, ret>>
     ELSE IF done[l] \union {m.id} = Families THEN Goto(l, "store") /\ UNCHANGED ret
     ELSE Return(l, "error")
  /\ UNCHANGED <<now, cache, expiry, udpVars, panicked>>

(* A read fails or times out, the length is zero, or the message has one   *)
(* of the faults: all of them end the lookup.                              *)
ReadMessageFails(l) ==
  /\ At(l, "message")
  /\ Return(l, "error")
  /\ UNCHANGED <<now, cache, workVars, expiry, udpVars, panicked>>

-----------------------------------------------------------------------------
(* The end of sendQueries *)

SetTTL(l) ==
  /\ At(l, "store")
  /\ IF minTTL[l] = 0
       THEN Return(l, "answer") /\ UNCHANGED expiry
       ELSE /\ Goto(l, "lock") /\ UNCHANGED ret
            /\ expiry' = [expiry EXCEPT ![l] = [ttl |-> now + minTTL[l], at |-> now]]
  /\ UNCHANGED <<now, cache, workVars, udpVars, panicked>>

(* Under r.mu. *)
StoreResult(l) ==
  /\ At(l, "lock")
  /\ cache' = [cache EXCEPT ![NameOf[l]] =
                 [v4 |-> res[l].v4, v6 |-> res[l].v6, exp |-> expiry[l]]]
  /\ Return(l, "answer")
  /\ UNCHANGED <<now, workVars, expiry, udpVars, panicked>>

Tick ==
  /\ now < MaxTime
  /\ now' = now + 1
  /\ UNCHANGED <<cache, pc, workVars, expiry, ret, udpVars, panicked>>

-----------------------------------------------------------------------------
UDPStep(l) == StartUDPFails(l) \/ StartUDP(l) \/ ReadTimeout(l) \/ CleanupUDP(l)

Step(l) ==
  \/ LookupCache(l) \/ CheckTTL(l) \/ SendQueries(l)
  \/ UDPStep(l)
  \/ ReadMessageFails(l)
  \/ SetTTL(l) \/ StoreResult(l)

Sender(l, f) == SenderWrite(l, f) \/ SenderWake(l, f)

Reply(l) ==
  \E m \in Messages : ReadReply(l, m) \/ ReadBadReply(l, m) \/ ReadMessage(l, m)

Next ==
  /\ \/ \E l \in setting.callers : Step(l) \/ DialTCP(l) \/ Deadline(l) \/ LookupAgain(l) \/ Reply(l)
     \/ \E l \in setting.callers, f \in Families : Sender(l, f)
     \/ Tick
  /\ UNCHANGED setting

Spec == Init /\ [][Next]_vars

Calls(l) == l \in setting.callers /\ UNCHANGED setting

(* A lookup and its senders that can run do, and a read deadline passes    *)
(* (over TCP it ends the read with a failure).  Nothing makes the server   *)
(* answer, Dial return, or the caller look up again.                       *)
FairSpec ==
  /\ Spec
  /\ \A l \in Lookups :
       /\ WF_vars(Calls(l) /\ Step(l)) /\ WF_vars(Calls(l) /\ Deadline(l))
       /\ \A f \in Families : WF_vars(Calls(l) /\ Sender(l, f))

-----------------------------------------------------------------------------
Records(r) == Range(r.v4) \union Range(r.v6)

(* The type invariant. *)
TypeOK ==
  /\ now \in 0 .. MaxTime
  /\ \A n \in Names : cache[n] = None \/
       (Records(cache[n]) \subseteq RR /\ cache[n].exp \in [ttl : Nat, at : Nat])
  /\ \A l \in Lookups :
       /\ pc[l] \in {"idle", "check", "query", "udp", "read", "cleanup", "tcp", "message",
                     "store", "lock", "returned"}
       /\ Records(res[l]) \subseteq RR
       /\ minTTL[l] \in 0 .. MaxTTL /\ done[l] \subseteq Families /\ read[l] \in 0 .. 2
       /\ expiry[l] \in [ttl : Nat, at : Nat]
       /\ ret[l] \in {"no", "cache", "answer", "error"}
       /\ sock[l] \in {"none", "armed", "expired", "closed"}
       /\ \A f \in Families :
            /\ ctrl[l][f] \in {"open", "signalled"} /\ snd[l][f] \in {"write", "sleep", "done"}
            /\ iter[l][f] \in 0 .. Iterations /\ late[l][f] \in Nat

(* A result that is cached or returned consists of the answers of exactly  *)
(* one reply to each query, both over the same transport: no reply is      *)
(* counted twice though queries are repeated, and nothing of a failed try  *)
(* over UDP stays in what TCP answers.                                     *)
OneReplyPerQuery ==
  \A l \in Lookups :
    pc[l] \in {"store", "lock"} \/ (pc[l] = "returned" /\ ret[l] = "answer") =>
      /\ Len(got[l]) = 2 /\ {got[l][1].id, got[l][2].id} = Families
      /\ \A i \in 1 .. 2 : got[l][i].fault \in {"none", "truncated"}
      /\ res[l] = [v4 |-> OfType(got[l][1].answers \o got[l][2].answers, "A"),
                   v6 |-> OfType(got[l][1].answers \o got[l][2].answers, "AAAA")]

(* No address record is answered from the cache once its TTL has passed,   *)
(* counted from the end of the lookup that cached it, whichever lookup of  *)
(* the name that was.                                                      *)
CacheHitsAreFresh ==
  [][\A l \in Lookups :
       ret[l] = "no" /\ ret'[l] = "cache" =>
         \A rr \in Records(res[l]) : now < expiry[l].at + rr.ttl]_vars

(* Each sender is told to stop exactly once, on every way out of the read  *)
(* loop (a second send, on a closed channel, would panic): once its family *)
(* is answered it writes at most the one query it was about to, though     *)
(* nothing interrupts its sleep.                                           *)
SendersToldOnce ==
  /\ TypeOK /\ ~panicked
  /\ \A l \in Lookups, f \in Families : late[l][f] <= 1

(* A lookup returns, whatever the server and the network do, unless it is  *)
(* in the Dial of the TCP client for ever; its two senders end.            *)
LookupReturns ==
  \A l \in Lookups :
    /\ pc[l] = "query" ~> (pc[l] = "returned" \/ [](pc[l] = "tcp"))
    /\ \A f \in Families : snd[l][f] = "write" ~> snd[l][f] = "done"

(* "TTL is the minimum TTL of A and AAAA RRs." *)
TTLIsThatOfAddressRecords ==
  \A n \in Names : cache[n] # None =>
    \E rr \in Records(cache[n]) : cache[n].exp.ttl = cache[n].exp.at + rr.ttl
=============================================================================
