-------------------------- MODULE DNSResolverProofs --------------------------
(***************************************************************************)
(* What the resolver of DNSResolver keeps for any number of lookups and    *)
(* names, any settings and TTLs and any number of repeated queries, proved *)
(* from the inductive invariant IInv.                                      *)
(***************************************************************************)
EXTENDS DNSResolver, FiniteSums, SequenceTheorems

Labels == {"idle", "check", "query", "udp", "read", "cleanup", "tcp", "message",
           "store", "lock", "returned"}
Results == [v4 : Seq(RR), v6 : Seq(RR)]
Expiries == [ttl : Nat, at : Nat]
Taken == [id : Families, fault : Faults, answers : Seq(RR)]

Types ==
  /\ setting \in Settings
  /\ now \in 0 .. MaxTime
  /\ DOMAIN cache = Names
  /\ \A n \in Names : cache[n] # None => cache[n] \in [v4 : Seq(RR), v6 : Seq(RR), exp : Expiries]
  /\ pc \in [Lookups -> Labels]
  /\ res \in [Lookups -> Results]
  /\ minTTL \in [Lookups -> 0 .. MaxTTL]
  /\ done \in [Lookups -> SUBSET Families]
  /\ read \in [Lookups -> 0 .. 2]
  /\ expiry \in [Lookups -> Expiries]
  /\ ret \in [Lookups -> {"no", "cache", "answer", "error"}]
  /\ sock \in [Lookups -> {"none", "armed", "expired", "closed"}]
  /\ ctrl \in [Lookups -> [Families -> {"open", "signalled"}]]
  /\ snd \in [Lookups -> [Families -> {"write", "sleep", "done"}]]
  /\ iter \in [Lookups -> [Families -> 0 .. Iterations]]
  /\ late \in [Lookups -> [Families -> Nat]]
  /\ got \in [Lookups -> Seq(Taken)]
  /\ panicked = FALSE

(* The socket is open while the read loop runs and its end is cleaned up;  *)
(* there are senders only after it was opened, and one that may write has  *)
(* an iteration left.                                                      *)
Sockets(l) ==
  /\ pc[l] \in {"idle", "check", "query", "udp"} =>
       sock[l] = "none" /\ \A f \in Families : snd[l][f] = "done"
  /\ sock[l] \in {"armed", "expired"} <=> pc[l] \in {"read", "cleanup"}
  /\ \A f \in Families : snd[l][f] # "done" => sock[l] # "none" /\ iter[l][f] < Iterations

(* While the socket is open the channels still open are those of the       *)
(* families not done, and a query written after its family was done is the *)
(* sender's last.                                                          *)
Channels(l) ==
  /\ pc[l] \in {"read", "cleanup"} => \A f \in Families : ctrl[l][f] = "open" <=> f \notin done[l]
  /\ pc[l] = "read" => done[l] # Families
  /\ \A f \in Families : late[l][f] = 0 \/ (late[l][f] = 1 /\ ctrl[l][f] # "open" /\ snd[l][f] # "write")

Good(m) == m.fault \in {"none", "truncated"}

(* No reply, one, or one to each query is in the result. *)
Begun(l) == got[l] = <<>> /\ done[l] = {} /\ res[l] = NoResult

Half(l) ==
  /\ Len(got[l]) = 1 /\ Good(got[l][1])
  /\ done[l] = {got[l][1].id}
  /\ res[l] = [v4 |-> OfType(got[l][1].answers, "A"), v6 |-> OfType(got[l][1].answers, "AAAA")]

Complete(l) ==
  /\ Len(got[l]) = 2 /\ {got[l][1].id, got[l][2].id} = Families
  /\ \A i \in 1 .. 2 : Good(got[l][i])
  /\ res[l] = [v4 |-> OfType(got[l][1].answers \o got[l][2].answers, "A"),
               v6 |-> OfType(got[l][1].answers \o got[l][2].answers, "AAAA")]

Replies(l) ==
  /\ pc[l] = "read" => Begun(l) \/ Half(l)
  /\ pc[l] = "message" => (read[l] = 0 /\ Begun(l)) \/ (read[l] = 1 /\ Half(l))
  /\ pc[l] = "cleanup" /\ done[l] = Families => Complete(l)
  /\ pc[l] \in {"store", "lock"} => Complete(l)
  /\ pc[l] = "returned" /\ ret[l] = "answer" => Complete(l)

(* minTTL bounds the TTL of every record of a result in the making, and    *)
(* the expiry of one that was made, or cached, is no later than that of    *)
(* its records.                                                            *)
Fresh(r, exp) == \A rr \in Records(r) : exp.ttl <= exp.at + rr.ttl

TTLs(l) ==
  /\ pc[l] \in {"read", "cleanup", "message", "store", "lock"} =>
       \A rr \in Records(res[l]) : minTTL[l] <= rr.ttl
  /\ pc[l] = "lock" => expiry[l].ttl = expiry[l].at + minTTL[l]
  /\ pc[l] = "check" => Fresh(res[l], expiry[l])

CacheFresh == \A n \in Names : cache[n] # None => Fresh(cache[n], cache[n].exp)

AllSockets == \A l \in Lookups : Sockets(l)
AllChannels == \A l \in Lookups : Channels(l)
AllReplies == \A l \in Lookups : Replies(l)
AllTTLs == \A l \in Lookups : TTLs(l)

IInv == Types /\ AllSockets /\ AllChannels /\ AllReplies /\ AllTTLs /\ CacheFresh

-----------------------------------------------------------------------------
(* The records of one type in a sequence of answers *)

(* One step of OfType: g is the selection from shorter prefixes. *)
Select(s, t, g, i) ==
  IF i = 0 THEN <<>>
  ELSE IF s[i].type = t THEN Append(g[i - 1], s[i])
  ELSE g[i - 1]

Collects(s, t, g) == g = [i \in 0 .. Len(s) |-> Select(s, t, g, i)]

(* The recursion of OfType has a solution. *)
LEMMA PrefixesExist ==
  ASSUME NEW s \in Seq(RR), NEW t
  PROVE  \E g : Collects(s, t, g)
  <1> DEFINE G == {k \in Nat : \E g : g = [i \in 0 .. k |-> Select(s, t, g, i)]}
  <1>1. 0 \in G
    <2> DEFINE g == [i \in 0 .. 0 |-> <<>>]
    <2>1. g = [i \in 0 .. 0 |-> Select(s, t, g, i)]
      BY DEF Select
    <2> HIDE DEF g
    <2> QED  BY <2>1
  <1>2. ASSUME NEW k \in 0 .. (Len(s) - 1), k \in G PROVE k + 1 \in G
    <2>1. PICK g : g = [i \in 0 .. k |-> Select(s, t, g, i)]
      BY <1>2
    <2> DEFINE h == [i \in 0 .. (k + 1) |-> Select(s, t, g, i)]
    <2>2. \A i \in 0 .. k : h[i] = g[i]
      BY <2>1
    <2>3. ASSUME NEW i \in 0 .. (k + 1) PROVE h[i] = Select(s, t, h, i)
      <3>1. h[i] = Select(s, t, g, i)
        OBVIOUS
      <3>2. i # 0 => i - 1 \in 0 .. k /\ h[i - 1] = g[i - 1]
        BY <2>2
      <3> HIDE DEF h
      <3> QED  BY <3>1, <3>2 DEF Select
    <2>4. h = [i \in 0 .. (k + 1) |-> Select(s, t, h, i)]
      BY <2>3
    <2>5. k + 1 \in Nat
      OBVIOUS
    <2> HIDE DEF h
    <2> QED  BY <2>4, <2>5
  <1>3. Len(s) \in G
    <2>1. Len(s) \in Nat
      BY LenProperties
    <2> HIDE DEF G
    <2>2. \A k \in 0 .. Len(s) : k \in G
      BY <1>1, <1>2, <2>1, UpTo
    <2> QED  BY <2>1, <2>2
  <1> QED  BY <1>3 DEF Collects

(* OfType is that solution at the whole sequence. *)
LEMMA OfTypeRecursion ==
  ASSUME NEW s \in Seq(RR), NEW t
  PROVE  \E g : Collects(s, t, g) /\ OfType(s, t) = g[Len(s)]
  <1> DEFINE g == CHOOSE g : g = [i \in 0 .. Len(s) |-> Select(s, t, g, i)]
  <1>1. Collects(s, t, g)
    BY PrefixesExist DEF Collects
  <1>2. OfType(s, t) = g[Len(s)]
    BY DEF OfType, Select
  <1> HIDE DEF g
  <1> QED  BY <1>1, <1>2

(* Every prefix selects a sequence of records of the answers. *)
LEMMA PrefixType ==
  ASSUME NEW s \in Seq(RR), NEW t, NEW g, Collects(s, t, g)
  PROVE  \A i \in 0 .. Len(s) : g[i] \in Seq(RR) /\ Range(g[i]) \subseteq Range(s)
  <1> DEFINE G == {i \in 0 .. Len(s) : g[i] \in Seq(RR) /\ Range(g[i]) \subseteq Range(s)}
  <1>0. Len(s) \in Nat /\ DOMAIN s = 1 .. Len(s) /\ \A i \in 1 .. Len(s) : s[i] \in RR
    BY LenProperties
  <1>1. 0 \in G
    <2>1. g[0] = <<>>
      BY <1>0 DEF Collects, Select
    <2>2. g[0] \in Seq(RR)
      BY <2>1
    <2>3. Range(g[0]) = {}
      BY <2>1 DEF Range
    <2>4. 0 \in 0 .. Len(s)
      BY <1>0
    <2> QED  BY <2>2, <2>3, <2>4
  <1>2. ASSUME NEW k \in 0 .. (Len(s) - 1), k \in G PROVE k + 1 \in G
    <2>1. k + 1 \in 1 .. Len(s) /\ (k + 1) - 1 = k
      BY <1>0
    <2>2. g[k + 1] = IF s[k + 1].type = t THEN Append(g[k], s[k + 1]) ELSE g[k]
      <3>1. k + 1 \in 0 .. Len(s) /\ k + 1 # 0
        BY <1>0
      <3>2. g[k + 1] = Select(s, t, g, k + 1)
        BY <3>1 DEF Collects
      <3> QED  BY <2>1, <3>1, <3>2 DEF Select
    <2>3. g[k] \in Seq(RR) /\ Range(g[k]) \subseteq Range(s) /\ s[k + 1] \in Range(s)
      BY <1>0, <1>2, <2>1 DEF Range
    <2>4. Append(g[k], s[k + 1]) \in Seq(RR)
      BY <1>0, <2>1, <2>3
    <2>5. Range(Append(g[k], s[k + 1])) \subseteq Range(s)
      <3> DEFINE a == Append(g[k], s[k + 1])
      <3>1. /\ Len(a) = Len(g[k]) + 1 /\ DOMAIN a = 1 .. Len(a)
            /\ \A i \in 1 .. Len(g[k]) : a[i] = g[k][i]
            /\ a[Len(g[k]) + 1] = s[k + 1]
        BY <1>0, <2>1, <2>3, <2>4, AppendProperties, LenProperties
      <3>2. DOMAIN g[k] = 1 .. Len(g[k]) /\ Len(g[k]) \in Nat
        BY <2>3, LenProperties
      <3> HIDE DEF a
      <3>3. ASSUME NEW i \in DOMAIN a PROVE a[i] \in Range(s)
        <4>1. i \in 1 .. Len(g[k]) \/ i = Len(g[k]) + 1
          BY <3>1, <3>2
        <4>2. i \in 1 .. Len(g[k]) => a[i] \in Range(g[k])
          BY <3>1, <3>2 DEF Range
        <4> QED  BY <2>3, <3>1, <4>1, <4>2
      <3>4. Range(a) \subseteq Range(s)
        BY <3>3 DEF Range
      <3> QED  BY <3>4 DEF a
    <2>6. k + 1 \in 0 .. Len(s)
      BY <1>0
    <2> QED  BY <2>2, <2>3, <2>4, <2>5, <2>6
  <1> HIDE DEF G
  <1>3. \A i \in 0 .. Len(s) : i \in G
    BY <1>0, <1>1, <1>2, UpTo
  <1> QED  BY <1>3 DEF G

(* The records of one type are records of the message. *)
LEMMA OfTypeType ==
  ASSUME NEW s \in Seq(RR), NEW t
  PROVE  OfType(s, t) \in Seq(RR) /\ Range(OfType(s, t)) \subseteq Range(s)
  <1>1. PICK g : Collects(s, t, g) /\ OfType(s, t) = g[Len(s)]
    BY OfTypeRecursion
  <1>2. Len(s) \in 0 .. Len(s)
    BY LenProperties
  <1> QED  BY <1>1, <1>2, PrefixType

(* Appending to the second part of a concatenation. *)
LEMMA AppendConcat ==
  ASSUME NEW a \in Seq(RR), NEW b \in Seq(RR), NEW e \in RR
  PROVE  Append(a \o b, e) = a \o Append(b, e)
  <1>1. <<e>> \in Seq(RR) /\ a \o b \in Seq(RR)
    BY ConcatProperties
  <1>2. Append(b, e) = b \o <<e>>
    BY AppendIsConcat
  <1>3. Append(a \o b, e) = (a \o b) \o <<e>>
    BY <1>1, AppendIsConcat
  <1>4. (a \o b) \o <<e>> = a \o (b \o <<e>>)
    BY <1>1, ConcatAssociative, SMTT(30)
  <1> QED  BY <1>2, <1>3, <1>4

(* What is selected from two sections is selected from each. *)
LEMMA OfTypeConcat ==
  ASSUME NEW s1 \in Seq(RR), NEW s2 \in Seq(RR), NEW t
  PROVE  OfType(s1 \o s2, t) = OfType(s1, t) \o OfType(s2, t)
  <1> DEFINE s == s1 \o s2
             n1 == Len(s1)
             n2 == Len(s2)
  <1>0. /\ n1 \in Nat /\ n2 \in Nat /\ s \in Seq(RR) /\ Len(s) = n1 + n2
        /\ \A i \in 1 .. n1 : s[i] = s1[i]
        /\ \A i \in 1 .. n2 : s[n1 + i] = s2[i] /\ s2[i] \in RR
    BY LenProperties, ConcatProperties
  <1>1. PICK g1 : Collects(s1, t, g1) /\ OfType(s1, t) = g1[n1]
    BY OfTypeRecursion
  <1>2. PICK g2 : Collects(s2, t, g2) /\ OfType(s2, t) = g2[n2]
    BY OfTypeRecursion
  <1> HIDE DEF s
  <1>3. PICK g : Collects(s, t, g) /\ OfType(s, t) = g[Len(s)]
    BY <1>0, OfTypeRecursion
  <1> HIDE DEF n1, n2
  <1>4. \A i \in 0 .. n1 : g[i] = g1[i]
    <2> DEFINE G == {i \in 0 .. n1 : g[i] = g1[i]}
    <2>1. 0 \in G
      BY <1>0, <1>1, <1>3 DEF Collects, Select, n1
    <2>2. ASSUME NEW k \in 0 .. (n1 - 1), k \in G PROVE k + 1 \in G
      <3>1. k + 1 \in 1 .. n1 /\ (k + 1) - 1 = k /\ k + 1 \in 0 .. Len(s)
            /\ k + 1 \in 0 .. n1
        BY <1>0
      <3>2. g[k + 1] = Select(s, t, g, k + 1)
        BY <1>3, <3>1 DEF Collects
      <3>3. g1[k + 1] = Select(s1, t, g1, k + 1)
        BY <1>1, <3>1 DEF Collects, n1
      <3>4. s[k + 1] = s1[k + 1] /\ k + 1 # 0 /\ k + 1 \in 0 .. n1
        BY <1>0, <3>1
      <3> QED  BY <2>2, <3>1, <3>2, <3>3, <3>4 DEF Select
    <2> HIDE DEF G
    <2>3. \A i \in 0 .. n1 : i \in G
      BY <1>0, <2>1, <2>2, UpTo
    <2> QED  BY <2>3 DEF G
  <1>5. \A i \in 0 .. n1 : g1[i] \in Seq(RR)
    BY <1>1, PrefixType DEF n1
  <1>6. \A i \in 0 .. n2 : g2[i] \in Seq(RR)
    BY <1>2, PrefixType DEF n2
  <1>7. \A i \in 0 .. n2 : g[n1 + i] = g1[n1] \o g2[i]
    <2> DEFINE G == {i \in 0 .. n2 : g[n1 + i] = g1[n1] \o g2[i]}
    <2>1. 0 \in G
      <3>1. g2[0] = <<>>
        BY <1>0, <1>2 DEF Collects, Select, n2
      <3>2. g[n1] = g1[n1] /\ g1[n1] \in Seq(RR)
        BY <1>0, <1>4, <1>5
      <3>3. g1[n1] \o <<>> = g1[n1]
        BY <3>2, ConcatEmptySeq
      <3>4. n1 + 0 = n1 /\ 0 \in 0 .. n2
        BY <1>0
      <3>5. g[n1 + 0] = g1[n1] \o g2[0]
        BY <3>1, <3>2, <3>3, <3>4
      <3> QED  BY <3>4, <3>5
    <2>2. ASSUME NEW k \in 0 .. (n2 - 1), k \in G PROVE k + 1 \in G
      <3>1. /\ k + 1 \in 1 .. n2 /\ (k + 1) - 1 = k
            /\ n1 + (k + 1) \in 0 .. Len(s) /\ (n1 + (k + 1)) - 1 = n1 + k
            /\ k + 1 \in 0 .. n2 /\ k + 1 # 0 /\ n1 + (k + 1) # 0 /\ k \in 0 .. n2
        BY <1>0
      <3>2. g[n1 + (k + 1)] = Select(s, t, g, n1 + (k + 1))
        BY <1>3, <3>1 DEF Collects
      <3>2a. g2[k + 1] = Select(s2, t, g2, k + 1)
        BY <1>2, <3>1 DEF Collects, n2
      <3>3. /\ g1[n1] \in Seq(RR) /\ g2[k] \in Seq(RR)
            /\ s[n1 + (k + 1)] = s2[k + 1] /\ s2[k + 1] \in RR
        BY <1>0, <1>5, <1>6, <3>1
      <3>4. Append(g1[n1] \o g2[k], s2[k + 1]) = g1[n1] \o Append(g2[k], s2[k + 1])
        <4> DEFINE x == g1[n1]
                   y == g2[k]
                   e == s2[k + 1]
        <4>1. x \in Seq(RR) /\ y \in Seq(RR) /\ e \in RR
          BY <3>3
        <4> HIDE DEF x, y, e
        <4>2. Append(x \o y, e) = x \o Append(y, e)
          BY <4>1, AppendConcat
        <4> QED  BY <4>2 DEF x, y, e
      <3>5. g[n1 + (k + 1)] = g1[n1] \o g2[k + 1]
        BY <2>2, <3>1, <3>2, <3>2a, <3>3, <3>4 DEF Select
      <3> QED  BY <3>1, <3>5
    <2> HIDE DEF G
    <2>3. \A i \in 0 .. n2 : i \in G
      BY <1>0, <2>1, <2>2, UpTo
    <2> QED  BY <2>3 DEF G
  <1>8. g[n1 + n2] = g1[n1] \o g2[n2]
    <2>1. n2 \in 0 .. n2
      BY <1>0
    <2> QED  BY <1>7, <2>1
  <1> QED  BY <1>0, <1>1, <1>2, <1>3, <1>8 DEF s

(* The least TTL is one of them, and no answer has a smaller one. *)
LEMMA LeastTTLIsLeast ==
  ASSUME NEW ttl \in 0 .. MaxTTL, NEW s \in Seq(RR)
  PROVE  /\ LeastTTL(ttl, s) \in 0 .. MaxTTL /\ LeastTTL(ttl, s) <= ttl
         /\ \A rr \in Range(s) : LeastTTL(ttl, s) <= rr.ttl
  <1> DEFINE T == {ttl} \union {s[i].ttl : i \in DOMAIN s}
  <1>1. T \in SUBSET Nat /\ T \subseteq 0 .. MaxTTL /\ T # {}
    <2>1. \A i \in DOMAIN s : s[i].ttl \in 0 .. MaxTTL
      <3>1. \A i \in DOMAIN s : s[i] \in RR
        BY LenProperties
      <3> QED  BY <3>1 DEF RR
    <2> QED  BY <2>1, ResolverAssumption
  <1>2. LeastTTL(ttl, s) \in T /\ \A y \in T : LeastTTL(ttl, s) <= y
    <2>1. \E x \in T : \A y \in T : x <= y
      <3> HIDE DEF T
      <3> QED  BY <1>1, LeastNat
    <2>2. LeastTTL(ttl, s) = Min(T)
      BY DEF LeastTTL
    <2> HIDE DEF T
    <2> QED  BY <2>1, <2>2 DEF Min
  <1> QED  BY <1>1, <1>2 DEF Range

-----------------------------------------------------------------------------
(* The steps *)

(* Nothing of lookup k changes. *)
Same(k) ==
  /\ pc'[k] = pc[k] /\ res'[k] = res[k] /\ minTTL'[k] = minTTL[k] /\ done'[k] = done[k]
  /\ read'[k] = read[k] /\ expiry'[k] = expiry[k] /\ ret'[k] = ret[k] /\ sock'[k] = sock[k]
  /\ ctrl'[k] = ctrl[k] /\ snd'[k] = snd[k] /\ iter'[k] = iter[k] /\ late'[k] = late[k]
  /\ got'[k] = got[k]

(* A step of lookup l keeps IInv if it keeps the types, what IInv says of  *)
(* l, and the freshness of the cache.                                      *)
LEMMA OneLookup ==
  ASSUME IInv, Types', NEW l \in Lookups, \A k \in Lookups : k # l => Same(k),
         Sockets(l)', Channels(l)', Replies(l)', TTLs(l)', CacheFresh'
  PROVE  IInv'
  <1>1. ASSUME NEW k \in Lookups, k # l PROVE Sockets(k)' /\ Channels(k)'
    BY <1>1 DEF IInv, AllSockets, AllChannels, Sockets, Channels, Same
  <1>2. ASSUME NEW k \in Lookups, k # l PROVE Replies(k)'
    BY <1>2 DEF IInv, AllReplies, Replies, Begun, Half, Complete, Same
  <1>3. ASSUME NEW k \in Lookups, k # l PROVE TTLs(k)'
    BY <1>3 DEF IInv, AllTTLs, TTLs, Fresh, Same
  <1> QED  BY <1>1, <1>2, <1>3 DEF IInv, AllSockets, AllChannels, AllReplies, AllTTLs

(* The replies taken stay what they are while res and got do. *)
LEMMA TakenKept ==
  ASSUME NEW l, res'[l] = res[l], got'[l] = got[l]
  PROVE  /\ Complete(l) => Complete(l)'
         /\ done'[l] = done[l] => (Begun(l) => Begun(l)') /\ (Half(l) => Half(l)')
  BY DEF Begun, Half, Complete

(* A lookup that has no reply yet has no records. *)
LEMMA NoRecords == Records(NoResult) = {} /\ NoResult \in Results
  BY DEF Records, NoResult, Range, Results

(* What the cache holds is fresh, so what a lookup takes from it is too. *)
LEMMA LookupCacheKeeps ==
  ASSUME IInv, NEW l \in Lookups, LookupCache(l), UNCHANGED setting
  PROVE  IInv'
  <1> USE DEF IInv
  <1>1. Types'
    <2> DEFINE c == cache[NameOf[l]]
    <2>1. NameOf[l] \in Names
      BY ResolverAssumption
    <2>2. CASE c = None
      BY <2>2 DEF Types, LookupCache, At, Goto, udpVars, Labels
    <2>3. CASE c # None
      <3>1. [v4 |-> c.v4, v6 |-> c.v6] \in Results /\ c.exp \in Expiries
        BY <2>1, <2>3 DEF Types, Results
      <3>2. /\ res' = [res EXCEPT ![l] = [v4 |-> c.v4, v6 |-> c.v6]]
            /\ expiry' = [expiry EXCEPT ![l] = c.exp]
        BY <2>3 DEF LookupCache
      <3> HIDE DEF c
      <3>3. res' \in [Lookups -> Results] /\ expiry' \in [Lookups -> Expiries]
        BY <3>1, <3>2 DEF Types
      <3> QED  BY <2>3, <3>3 DEF Types, LookupCache, At, Goto, udpVars, Labels, c
    <2> QED  BY <2>2, <2>3
  <1>2. \A k \in Lookups : k # l => Same(k)
    BY DEF Types, LookupCache, At, Goto, udpVars, Same
  <1>3. Sockets(l)' /\ Channels(l)'
    BY ResolverAssumption DEF Types, AllSockets, AllChannels, Sockets, Channels, LookupCache,
           At, Goto, udpVars, Families
  <1>4. Replies(l)'
    BY TakenKept DEF Types, AllReplies, Replies, Begun, NoResult, LookupCache, At, Goto, udpVars
  <1>5. TTLs(l)'
    <2> DEFINE c == cache[NameOf[l]]
               r == [v4 |-> c.v4, v6 |-> c.v6]
    <2>1. NameOf[l] \in Names
      BY ResolverAssumption
    <2>2. CASE c = None
      BY <2>2 DEF Types, TTLs, LookupCache, At, Goto, udpVars
    <2>3. CASE c # None
      <3>1. Fresh(r, c.exp)
        BY <2>1, <2>3 DEF CacheFresh, Fresh, Records
      <3>2. res'[l] = r /\ expiry'[l] = c.exp /\ pc'[l] = "check"
        BY <2>3 DEF Types, LookupCache, Goto
      <3> HIDE DEF c, r
      <3> QED  BY <3>1, <3>2 DEF TTLs, Fresh
    <2> QED  BY <2>2, <2>3
  <1>6. CacheFresh'
    BY DEF CacheFresh, Fresh, LookupCache, At, Goto, udpVars
  <1> QED  BY <1>1, <1>2, <1>3, <1>4, <1>5, <1>6, OneLookup

(* The entry found is returned, or the lookup goes on to ask. *)
LEMMA CheckTTLKeeps ==
  ASSUME IInv, NEW l \in Lookups, CheckTTL(l), UNCHANGED setting
  PROVE  IInv'
  <1> USE DEF IInv
  <1>1. Types'
    BY ResolverAssumption, ZenonT(40) DEF Types, CheckTTL, At, Goto, Return, workVars, udpVars, Labels,
           Expiries, NoExpiry, Results
  <1>2. \A k \in Lookups : k # l => Same(k)
    BY DEF Types, CheckTTL, At, Goto, Return, workVars, udpVars, Same
  <1>3. Sockets(l)' /\ Channels(l)'
    BY ResolverAssumption DEF Types, AllSockets, AllChannels, Sockets, Channels, CheckTTL, At,
           Goto, Return, workVars, udpVars, Families
  <1>4. Replies(l)'
    BY TakenKept DEF Types, AllReplies, Replies, Begun, NoResult, CheckTTL, At, Goto, Return,
           workVars, udpVars
  <1>5. TTLs(l)'
    BY TakenKept DEF Types, AllTTLs, TTLs, Fresh, CheckTTL, At, Goto, Return, workVars, udpVars
  <1>6. CacheFresh'
    BY DEF CacheFresh, Fresh, CheckTTL, At, Goto, Return, workVars, udpVars
  <1> QED  BY <1>1, <1>2, <1>3, <1>4, <1>5, <1>6, OneLookup

(* The lookup begins to ask over UDP, or over TCP at once. *)
LEMMA SendQueriesKeeps ==
  ASSUME IInv, NEW l \in Lookups, SendQueries(l), UNCHANGED setting
  PROVE  IInv'
  <1> USE DEF IInv
  <1>1. Types'
    BY ResolverAssumption DEF Types, SendQueries, At, Goto, Return, workVars, udpVars, Labels,
           Expiries, NoExpiry, Results
  <1>2. \A k \in Lookups : k # l => Same(k)
    BY DEF Types, SendQueries, At, Goto, Return, workVars, udpVars, Same
  <1>3. Sockets(l)' /\ Channels(l)'
    BY ResolverAssumption DEF Types, AllSockets, AllChannels, Sockets, Channels, SendQueries,
           At, Goto, Return, workVars, udpVars, Families
  <1>4. Replies(l)'
    BY TakenKept DEF Types, AllReplies, Replies, Begun, NoResult, SendQueries, At, Goto, Return,
           workVars, udpVars
  <1>5. TTLs(l)'
    BY TakenKept DEF Types, AllTTLs, TTLs, Fresh, SendQueries, At, Goto, Return, workVars, udpVars
  <1>6. CacheFresh'
    BY DEF CacheFresh, Fresh, SendQueries, At, Goto, Return, workVars, udpVars
  <1> QED  BY <1>1, <1>2, <1>3, <1>4, <1>5, <1>6, OneLookup

(* The lookup starts over with nothing received. *)
LEMMA LookupAgainKeeps ==
  ASSUME IInv, NEW l \in Lookups, LookupAgain(l), UNCHANGED setting
  PROVE  IInv'
  <1> USE DEF IInv
  <1>1. Types'
    BY NoRecords, ResolverAssumption, SMTT(20) DEF Types, LookupAgain, At, Goto, Labels, Expiries,
           NoExpiry, Results
  <1>2. \A k \in Lookups : k # l => Same(k)
    BY DEF Types, LookupAgain, At, Goto, Same
  <1>3. Sockets(l)' /\ Channels(l)'
    BY ResolverAssumption DEF Types, AllSockets, AllChannels, Sockets, Channels, LookupAgain,
           At, Goto, Families
  <1>4. Replies(l)'
    BY TakenKept DEF Types, AllReplies, Replies, Begun, NoResult, LookupAgain, At, Goto
  <1>5. TTLs(l)'
    BY NoRecords, TakenKept DEF Types, AllTTLs, TTLs, Fresh, LookupAgain, At, Goto
  <1>6. CacheFresh'
    BY DEF CacheFresh, Fresh, LookupAgain, At, Goto
  <1> QED  BY <1>1, <1>2, <1>3, <1>4, <1>5, <1>6, OneLookup

(* No socket, and so no senders and no channels. *)
LEMMA StartUDPFailsKeeps ==
  ASSUME IInv, NEW l \in Lookups, StartUDPFails(l), UNCHANGED setting
  PROVE  IInv'
  <1> USE DEF IInv
  <1>1. Types'
    BY NoRecords, ResolverAssumption, ZenonT(40) DEF Types, StartUDPFails, At, Goto, Return, Unhandled,
           udpVars, Labels, Expiries, NoExpiry, Results
  <1>2. \A k \in Lookups : k # l => Same(k)
    BY DEF Types, StartUDPFails, At, Goto, Return, Unhandled, udpVars, Same
  <1>3. Sockets(l)' /\ Channels(l)'
    BY ResolverAssumption DEF Types, AllSockets, AllChannels, Sockets, Channels, StartUDPFails,
           At, Goto, Return, Unhandled, udpVars, Families
  <1>4. Replies(l)'
    BY TakenKept DEF Types, AllReplies, Replies, Begun, NoResult, StartUDPFails, At, Goto,
           Return, Unhandled, udpVars
  <1>5. TTLs(l)'
    BY NoRecords, TakenKept DEF Types, AllTTLs, TTLs, Fresh, StartUDPFails, At, Goto, Return,
           Unhandled, udpVars
  <1>6. CacheFresh'
    BY DEF CacheFresh, Fresh, StartUDPFails, At, Goto, Return, Unhandled, udpVars
  <1> QED  BY <1>1, <1>2, <1>3, <1>4, <1>5, <1>6, OneLookup

(* A socket of its own, both senders and both channels. *)
LEMMA StartUDPKeeps ==
  ASSUME IInv, NEW l \in Lookups, StartUDP(l), UNCHANGED setting
  PROVE  IInv'
  <1> USE DEF IInv
  <1>1. Types'
    BY NoRecords, ResolverAssumption DEF Types, StartUDP, At, Goto, Labels, Expiries, NoExpiry,
           Results
  <1>2. \A k \in Lookups : k # l => Same(k)
    BY DEF Types, StartUDP, At, Goto, Same
  <1>3. Sockets(l)' /\ Channels(l)'
    BY ResolverAssumption DEF Types, AllSockets, AllChannels, Sockets, Channels, StartUDP, At,
           Goto, Families
  <1>4. Replies(l)'
    BY TakenKept DEF Types, AllReplies, Replies, Begun, NoResult, StartUDP, At, Goto
  <1>5. TTLs(l)'
    BY NoRecords, TakenKept DEF Types, AllTTLs, TTLs, Fresh, StartUDP, At, Goto
  <1>6. CacheFresh'
    BY DEF CacheFresh, Fresh, StartUDP, At, Goto
  <1> QED  BY <1>1, <1>2, <1>3, <1>4, <1>5, <1>6, OneLookup

(* The read ends by the deadline. *)
LEMMA ReadTimeoutKeeps ==
  ASSUME IInv, NEW l \in Lookups, ReadTimeout(l), UNCHANGED setting
  PROVE  IInv'
  <1> USE DEF IInv
  <1>1. Types'
    BY ResolverAssumption DEF Types, ReadTimeout, At, Goto, workVars, udpVars, Labels, Expiries,
           NoExpiry, Results
  <1>2. \A k \in Lookups : k # l => Same(k)
    BY DEF Types, ReadTimeout, At, Goto, workVars, udpVars, Same
  <1>3. Sockets(l)' /\ Channels(l)'
    BY ResolverAssumption DEF Types, AllSockets, AllChannels, Sockets, Channels, ReadTimeout,
           At, Goto, workVars, udpVars, Families
  <1>4. Replies(l)'
    BY DEF Types, AllChannels, Channels, Replies, ReadTimeout, At, Goto, workVars, udpVars
  <1>5. TTLs(l)'
    BY TakenKept DEF Types, AllTTLs, TTLs, Fresh, ReadTimeout, At, Goto, workVars, udpVars
  <1>6. CacheFresh'
    BY DEF CacheFresh, Fresh, ReadTimeout, At, Goto, workVars, udpVars
  <1> QED  BY <1>1, <1>2, <1>3, <1>4, <1>5, <1>6, OneLookup

(* The read deadline passes. *)
LEMMA DeadlineKeeps ==
  ASSUME IInv, NEW l \in Lookups, Deadline(l), UNCHANGED setting
  PROVE  IInv'
  <1> USE DEF IInv
  <1>1. Types'
    BY ResolverAssumption DEF Types, Deadline, workVars, Labels, Expiries, NoExpiry, Results
  <1>2. \A k \in Lookups : k # l => Same(k)
    BY DEF Types, Deadline, workVars, Same
  <1>3. Sockets(l)' /\ Channels(l)'
    BY ResolverAssumption DEF Types, AllSockets, AllChannels, Sockets, Channels, Deadline,
           workVars, Families
  <1>4. Replies(l)'
    BY TakenKept DEF Types, AllReplies, Replies, Begun, NoResult, Deadline, workVars
  <1>5. TTLs(l)'
    BY TakenKept DEF Types, AllTTLs, TTLs, Fresh, Deadline, workVars
  <1>6. CacheFresh'
    BY DEF CacheFresh, Fresh, Deadline, workVars
  <1> QED  BY <1>1, <1>2, <1>3, <1>4, <1>5, <1>6, OneLookup

(* The senders are told once each: only those not told before. *)
LEMMA CleanupUDPKeeps ==
  ASSUME IInv, NEW l \in Lookups, CleanupUDP(l), UNCHANGED setting
  PROVE  IInv'
  <1> USE DEF IInv
  <1>1. Types'
    <2>1. panicked' = FALSE
      BY DEF Types, CleanupUDP, At, Signal, AllChannels, Channels
    <2>2. ctrl' \in [Lookups -> [Families -> {"open", "signalled"}]]
      BY DEF Types, CleanupUDP, Signal
    <2>3. pc' \in [Lookups -> Labels] /\ ret' \in [Lookups -> {"no", "cache", "answer", "error"}]
      BY DEF Types, CleanupUDP, Goto, Return, Unhandled, Labels
    <2> QED  BY <2>1, <2>2, <2>3 DEF Types, CleanupUDP, workVars
  <1>2. \A k \in Lookups : k # l => Same(k)
    BY DEF Types, CleanupUDP, At, Goto, Return, Unhandled, Signal, workVars, Same
  <1>3. Sockets(l)' /\ Channels(l)'
    BY ResolverAssumption DEF Types, AllSockets, AllChannels, Sockets, Channels, CleanupUDP, At,
           Goto, Return, Unhandled, Signal, workVars, Families
  <1>4. Replies(l)'
    BY TakenKept DEF Types, AllReplies, Replies, Begun, NoResult, CleanupUDP, At, Goto, Return,
           Unhandled, Signal, workVars
  <1>5. TTLs(l)'
    BY TakenKept DEF Types, AllTTLs, TTLs, Fresh, CleanupUDP, At, Goto, Return, Unhandled,
           Signal, workVars
  <1>6. CacheFresh'
    BY DEF CacheFresh, Fresh, CleanupUDP, At, Goto, Return, Unhandled, Signal, workVars
  <1> QED  BY <1>1, <1>2, <1>3, <1>4, <1>5, <1>6, OneLookup

(* The replies taken over UDP are forgotten. *)
LEMMA DialTCPKeeps ==
  ASSUME IInv, NEW l \in Lookups, DialTCP(l), UNCHANGED setting
  PROVE  IInv'
  <1> USE DEF IInv
  <1>1. Types'
    <2>1. pc' \in [Lookups -> Labels] /\ ret' \in [Lookups -> {"no", "cache", "answer", "error"}]
      BY DEF Types, DialTCP, Goto, Return, Labels
    <2>2. minTTL' \in [Lookups -> 0 .. MaxTTL]
      <3>1. minTTL' = minTTL \/ minTTL' = [minTTL EXCEPT ![l] = MaxTTL]
        BY DEF DialTCP
      <3>2. MaxTTL \in 0 .. MaxTTL
        BY ResolverAssumption
      <3> QED  BY <3>1, <3>2, ZenonT(40) DEF Types
    <2>3. res' \in [Lookups -> Results] /\ got' \in [Lookups -> Seq(Taken)]
      BY NoRecords DEF Types, DialTCP
    <2>4. read' \in [Lookups -> 0 .. 2] /\ done' \in [Lookups -> SUBSET Families]
      BY DEF Types, DialTCP
    <2> QED  BY <2>1, <2>2, <2>3, <2>4 DEF Types, DialTCP, udpVars
  <1>2. \A k \in Lookups : k # l => Same(k)
    BY DEF Types, DialTCP, At, Goto, Return, udpVars, Same
  <1>3. Sockets(l)' /\ Channels(l)'
    BY ResolverAssumption DEF Types, AllSockets, AllChannels, Sockets, Channels, DialTCP, At,
           Goto, Return, udpVars, Families
  <1>4. Replies(l)'
    BY TakenKept DEF Types, AllReplies, Replies, Begun, NoResult, DialTCP, At, Goto, Return,
           udpVars
  <1>5. TTLs(l)'
    BY NoRecords, TakenKept DEF Types, AllTTLs, TTLs, Fresh, DialTCP, At, Goto, Return, udpVars
  <1>6. CacheFresh'
    BY DEF CacheFresh, Fresh, DialTCP, At, Goto, Return, udpVars
  <1> QED  BY <1>1, <1>2, <1>3, <1>4, <1>5, <1>6, OneLookup

(* The TCP connection ends before both replies came. *)
LEMMA ReadMessageFailsKeeps ==
  ASSUME IInv, NEW l \in Lookups, ReadMessageFails(l), UNCHANGED setting
  PROVE  IInv'
  <1> USE DEF IInv
  <1>1. Types'
    BY ResolverAssumption DEF Types, ReadMessageFails, At, Return, Goto, workVars, udpVars,
           Labels, Expiries, NoExpiry, Results
  <1>2. \A k \in Lookups : k # l => Same(k)
    BY DEF Types, ReadMessageFails, At, Return, Goto, workVars, udpVars, Same
  <1>3. Sockets(l)' /\ Channels(l)'
    <2>1. pc'[l] = "returned"
      BY DEF Types, ReadMessageFails, At, Return, Goto
    <2> QED  BY <2>1 DEF AllSockets, AllChannels, Sockets, Channels, ReadMessageFails, At,
                    Return, Goto, workVars, udpVars
  <1>4. Replies(l)'
    BY TakenKept DEF Types, AllReplies, Replies, Begun, NoResult, ReadMessageFails, At, Return,
           Goto, workVars, udpVars
  <1>5. TTLs(l)'
    BY TakenKept DEF Types, AllTTLs, TTLs, Fresh, ReadMessageFails, At, Return, Goto, workVars,
           udpVars
  <1>6. CacheFresh'
    BY DEF CacheFresh, Fresh, ReadMessageFails, At, Return, Goto, workVars, udpVars
  <1> QED  BY <1>1, <1>2, <1>3, <1>4, <1>5, <1>6, OneLookup

(* The least TTL becomes the expiry of the result. *)
LEMMA SetTTLKeeps ==
  ASSUME IInv, NEW l \in Lookups, SetTTL(l), UNCHANGED setting
  PROVE  IInv'
  <1> USE DEF IInv
  <1>1. Types'
    <2>1. pc' \in [Lookups -> Labels] /\ ret' \in [Lookups -> {"no", "cache", "answer", "error"}]
      BY DEF Types, SetTTL, Goto, Return, Labels
    <2>2. [ttl |-> now + minTTL[l], at |-> now] \in Expiries
      BY ResolverAssumption DEF Types, Expiries
    <2>3. expiry' \in [Lookups -> Expiries]
      BY <2>2, ZenonT(40) DEF Types, SetTTL
    <2> QED  BY <2>1, <2>3 DEF Types, SetTTL, workVars, udpVars
  <1>2. \A k \in Lookups : k # l => Same(k)
    BY DEF Types, SetTTL, At, Goto, Return, workVars, udpVars, Same
  <1>3. Sockets(l)' /\ Channels(l)'
    BY ResolverAssumption DEF Types, AllSockets, AllChannels, Sockets, Channels, SetTTL, At,
           Goto, Return, workVars, udpVars, Families
  <1>4. Replies(l)'
    BY TakenKept DEF Types, AllReplies, Replies, Begun, NoResult, SetTTL, At, Goto, Return,
           workVars, udpVars
  <1>5. TTLs(l)'
    BY TakenKept DEF Types, AllTTLs, TTLs, Fresh, SetTTL, At, Goto, Return, workVars, udpVars
  <1>6. CacheFresh'
    BY DEF CacheFresh, Fresh, SetTTL, At, Goto, Return, workVars, udpVars
  <1> QED  BY <1>1, <1>2, <1>3, <1>4, <1>5, <1>6, OneLookup

(* The cache takes the result, with the expiry of its records. *)
LEMMA StoreResultKeeps ==
  ASSUME IInv, NEW l \in Lookups, StoreResult(l), UNCHANGED setting
  PROVE  IInv'
  <1> USE DEF IInv
  <1>1. Types'
    BY ResolverAssumption DEF Types, StoreResult, At, Goto, Return, workVars, udpVars, Labels,
           Expiries, NoExpiry, Results
  <1>2. \A k \in Lookups : k # l => Same(k)
    BY DEF Types, StoreResult, At, Goto, Return, workVars, udpVars, Same
  <1>3. Sockets(l)' /\ Channels(l)'
    <2>1. pc'[l] = "returned"
      BY DEF Types, StoreResult, At, Goto, Return
    <2> QED  BY <2>1 DEF AllSockets, AllChannels, Sockets, Channels, StoreResult, At, Goto,
                    Return, workVars, udpVars
  <1>4. Replies(l)'
    BY TakenKept DEF Types, AllReplies, Replies, Begun, NoResult, StoreResult, At, Goto, Return,
           workVars, udpVars
  <1>5. TTLs(l)'
    BY TakenKept DEF Types, AllTTLs, TTLs, Fresh, StoreResult, At, Goto, Return, workVars, udpVars
  <1>6. CacheFresh'
    <2> DEFINE c == [v4 |-> res[l].v4, v6 |-> res[l].v6, exp |-> expiry[l]]
    <2>1. Fresh(c, c.exp)
      <3>1. Records(c) = Records(res[l])
        BY DEF Records
      <3>2. \A rr \in Records(res[l]) : minTTL[l] <= rr.ttl /\ rr.ttl \in Nat
        <4>1. \A rr \in Records(res[l]) : rr \in RR
          BY DEF Types, Results, Records, Range
        <4> QED  BY <4>1, ResolverAssumption DEF AllTTLs, TTLs, StoreResult, At, RR
      <3>3. /\ expiry[l].ttl = expiry[l].at + minTTL[l]
            /\ expiry[l].at \in Nat /\ minTTL[l] \in Nat
        BY DEF Types, AllTTLs, TTLs, StoreResult, At, Expiries
      <3> QED  BY <3>1, <3>2, <3>3 DEF Fresh
    <2>2. \A n \in Names : cache'[n] = IF n = NameOf[l] THEN c ELSE cache[n]
      BY DEF Types, StoreResult
    <2> HIDE DEF c
    <2> QED  BY <2>1, <2>2 DEF CacheFresh
  <1> QED  BY <1>1, <1>2, <1>3, <1>4, <1>5, <1>6, OneLookup

(* A message has the identifier of a query and resource records. *)
LEMMA MessageType ==
  ASSUME Types, NEW m \in Messages
  PROVE  m \in Taken /\ m.answers \in Seq(RR) /\ m.id \in Families
  BY ResolverAssumption DEF Types, Messages, Taken

(* What ParseAnswers does to the result, to minTTL and to the messages     *)
(* taken.                                                                  *)
LEMMA Parsed ==
  ASSUME IInv, NEW l \in Lookups, NEW m \in Messages, ParseAnswers(l, m)
  PROVE  /\ res' \in [Lookups -> Results] /\ got' \in [Lookups -> Seq(Taken)]
         /\ minTTL' \in [Lookups -> 0 .. MaxTTL]
         /\ \A k \in Lookups : k # l => /\ res'[k] = res[k] /\ got'[k] = got[k]
                                        /\ minTTL'[k] = minTTL[k]
         /\ Begun(l) => /\ Len(got'[l]) = 1 /\ got'[l][1] = m
                        /\ res'[l] = [v4 |-> OfType(m.answers, "A"),
                                      v6 |-> OfType(m.answers, "AAAA")]
         /\ Half(l) => /\ Len(got'[l]) = 2 /\ got'[l][1] = got[l][1] /\ got'[l][2] = m
                       /\ res'[l] = [v4 |-> OfType(got[l][1].answers \o m.answers, "A"),
                                     v6 |-> OfType(got[l][1].answers \o m.answers, "AAAA")]
         /\ (\A rr \in Records(res[l]) : minTTL[l] <= rr.ttl) =>
              (\A rr \in Records(res[l])' : minTTL'[l] <= rr.ttl)
  <1> DEFINE a4 == OfType(m.answers, "A")
             a6 == OfType(m.answers, "AAAA")
             r4 == res[l].v4
             r6 == res[l].v6
  <1>0. Types
    BY DEF IInv
  <1>1. m \in Taken /\ m.answers \in Seq(RR)
    BY <1>0, MessageType
  <1>2. /\ a4 \in Seq(RR) /\ Range(a4) \subseteq Range(m.answers)
        /\ a6 \in Seq(RR) /\ Range(a6) \subseteq Range(m.answers)
    BY <1>1, OfTypeType
  <1>3. r4 \in Seq(RR) /\ r6 \in Seq(RR) /\ got[l] \in Seq(Taken) /\ minTTL[l] \in 0 .. MaxTTL
    BY <1>0 DEF Types, Results
  <1>4. /\ res' = [res EXCEPT ![l] = [v4 |-> r4 \o a4, v6 |-> r6 \o a6]]
        /\ minTTL' = [minTTL EXCEPT ![l] = LeastTTL(minTTL[l], m.answers)]
        /\ got' = [got EXCEPT ![l] = Append(got[l], m)]
    BY DEF ParseAnswers
  <1> HIDE DEF a4, a6, r4, r6
  <1>5. r4 \o a4 \in Seq(RR) /\ r6 \o a6 \in Seq(RR) /\ Append(got[l], m) \in Seq(Taken)
    BY <1>1, <1>2, <1>3, ConcatProperties, AppendProperties
  <1>6. LeastTTL(minTTL[l], m.answers) \in 0 .. MaxTTL
    BY <1>1, <1>3, LeastTTLIsLeast
  <1>7. res' \in [Lookups -> Results]
    <2>1. [v4 |-> r4 \o a4, v6 |-> r6 \o a6] \in Results
      BY <1>5 DEF Results
    <2> QED  BY <1>0, <1>4, <2>1 DEF Types
  <1>8. got' \in [Lookups -> Seq(Taken)] /\ minTTL' \in [Lookups -> 0 .. MaxTTL]
    BY <1>0, <1>4, <1>5, <1>6 DEF Types
  <1>9. /\ res'[l] = [v4 |-> r4 \o a4, v6 |-> r6 \o a6]
        /\ got'[l] = Append(got[l], m)
        /\ minTTL'[l] = LeastTTL(minTTL[l], m.answers)
    BY <1>0, <1>4 DEF Types
  <1>10. \A k \in Lookups : k # l => res'[k] = res[k] /\ got'[k] = got[k] /\ minTTL'[k] = minTTL[k]
    BY <1>0, <1>4 DEF Types
  <1>11. ASSUME Begun(l)
         PROVE  Len(got'[l]) = 1 /\ got'[l][1] = m /\ res'[l] = [v4 |-> a4, v6 |-> a6]
    <2>1. got[l] = <<>> /\ r4 = <<>> /\ r6 = <<>>
      BY <1>11 DEF Begun, NoResult, r4, r6
    <2>2. r4 \o a4 = a4 /\ r6 \o a6 = a6
      BY <1>2, <2>1, ConcatEmptySeq
    <2>3. Len(got'[l]) = 1 /\ got'[l][1] = m
      BY <1>1, <1>3, <1>9, <2>1, AppendProperties
    <2> QED  BY <1>9, <2>2, <2>3
  <1>12. ASSUME Half(l)
         PROVE  /\ Len(got'[l]) = 2 /\ got'[l][1] = got[l][1] /\ got'[l][2] = m
                /\ res'[l] = [v4 |-> OfType(got[l][1].answers \o m.answers, "A"),
                              v6 |-> OfType(got[l][1].answers \o m.answers, "AAAA")]
    <2> DEFINE g == got[l][1].answers
    <2>1. Len(got[l]) = 1 /\ r4 = OfType(g, "A") /\ r6 = OfType(g, "AAAA")
      BY <1>12 DEF Half, r4, r6
    <2>2. g \in Seq(RR)
      <3>1. got[l][1] \in Taken
        <4>1. 1 \in 1 .. Len(got[l])
          BY <2>1
        <4> QED  BY <1>3, <4>1, ElementOfSeq
      <3> QED  BY <3>1 DEF Taken
    <2> HIDE DEF g
    <2>3. /\ OfType(g \o m.answers, "A") = r4 \o a4
          /\ OfType(g \o m.answers, "AAAA") = r6 \o a6
      BY <1>1, <2>1, <2>2, OfTypeConcat DEF a4, a6
    <2>4. Len(got'[l]) = 2 /\ got'[l][1] = got[l][1] /\ got'[l][2] = m
      <3>1. /\ Len(Append(got[l], m)) = Len(got[l]) + 1
            /\ \A i \in 1 .. Len(got[l]) : Append(got[l], m)[i] = got[l][i]
            /\ Append(got[l], m)[Len(got[l]) + 1] = m
        BY <1>1, <1>3, AppendProperties
      <3>2. 1 \in 1 .. 1 /\ 1 + 1 = 2
        OBVIOUS
      <3> QED  BY <1>9, <2>1, <3>1, <3>2
    <2> QED  BY <1>9, <2>3, <2>4 DEF g
  <1>13. ASSUME \A rr \in Records(res[l]) : minTTL[l] <= rr.ttl,
                NEW rr \in Records(res[l])'
         PROVE  minTTL'[l] <= rr.ttl
    <2>1. rr \in Range(r4 \o a4) \/ rr \in Range(r6 \o a6)
      BY <1>9 DEF Records
    <2>2. \A x \in Seq(RR), y \in Seq(RR) : Range(x \o y) = Range(x) \union Range(y)
      BY RangeConcatenation
    <2>3. rr \in Records(res[l]) \/ rr \in Range(m.answers)
      BY <1>2, <1>3, <2>1, <2>2 DEF Records, r4, r6
    <2>4. LeastTTL(minTTL[l], m.answers) <= minTTL[l]
          /\ \A x \in Range(m.answers) : LeastTTL(minTTL[l], m.answers) <= x.ttl
      BY <1>1, <1>3, LeastTTLIsLeast
    <2>5. rr \in Records(res[l]) => rr.ttl \in Nat
      <3>1. \A x \in Seq(RR) : Range(x) \subseteq RR
        BY DEF Range
      <3>2. Records(res[l]) \subseteq RR
        BY <1>3, <3>1 DEF Records, r4, r6
      <3>3. \A x \in RR : x.ttl \in Nat
        BY ResolverAssumption DEF RR
      <3> QED  BY <3>2, <3>3
    <2> QED  BY <1>3, <1>6, <1>9, <1>13, <2>3, <2>4, <2>5
  <1> QED  BY <1>7, <1>8, <1>10, <1>11, <1>12, <1>13 DEF a4, a6

(* A good reply to the query still open completes the result. *)
LEMMA BothTaken ==
  ASSUME IInv, NEW l \in Lookups, NEW m \in Messages, ParseAnswers(l, m),
         Half(l), Good(m), {got[l][1].id, m.id} = Families
  PROVE  Complete(l)'
  <1>1. /\ Len(got'[l]) = 2 /\ got'[l][1] = got[l][1] /\ got'[l][2] = m
        /\ res'[l] = [v4 |-> OfType(got[l][1].answers \o m.answers, "A"),
                      v6 |-> OfType(got[l][1].answers \o m.answers, "AAAA")]
    BY Parsed
  <1>2. Good(got'[l][1]) /\ Good(got'[l][2])
    BY <1>1 DEF Half
  <1>3. \A i \in 1 .. 2 : Good(got'[l][i])
    BY <1>2
  <1>4. {got'[l][1].id, got'[l][2].id} = Families
    BY <1>1
  <1>5. res'[l] = [v4 |-> OfType(got'[l][1].answers \o got'[l][2].answers, "A"),
                   v6 |-> OfType(got'[l][1].answers \o got'[l][2].answers, "AAAA")]
    BY <1>1
  <1> QED  BY <1>1, <1>3, <1>4, <1>5 DEF Complete

(* A reply over UDP: parsed once, and its sender told. *)
LEMMA ReadReplyKeeps ==
  ASSUME IInv, NEW l \in Lookups, NEW m \in Messages, ReadReply(l, m), UNCHANGED setting
  PROVE  IInv'
  <1> USE DEF IInv
  <1>a. m.id \in Families /\ m.id \notin done[l] /\ Good(m) /\ pc[l] = "read" /\ ParseAnswers(l, m)
    BY MessageType DEF ReadReply, At, Good
  <1>b. /\ pc' = [pc EXCEPT ![l] = IF done[l] \union {m.id} = Families THEN "cleanup" ELSE "read"]
        /\ done' = [done EXCEPT ![l] = done[l] \union {m.id}]
        /\ ctrl' = [ctrl EXCEPT ![l] = [f \in Families |-> IF f = m.id THEN "signalled" ELSE ctrl[l][f]]]
        /\ UNCHANGED <<now, cache, read, expiry, ret, sock, snd, iter, late>>
    BY DEF ReadReply, Goto, Signal
  <1>c. /\ pc'[l] = IF done[l] \union {m.id} = Families THEN "cleanup" ELSE "read"
        /\ done'[l] = done[l] \union {m.id}
        /\ \A f \in Families : ctrl'[l][f] = IF f = m.id THEN "signalled" ELSE ctrl[l][f]
    BY <1>b DEF Types
  <1>1. Types'
    <2>1. panicked' = FALSE
      BY <1>a DEF ReadReply, Signal, AllChannels, Channels
    <2>2. pc' \in [Lookups -> Labels] /\ done' \in [Lookups -> SUBSET Families]
      BY <1>a, <1>b DEF Types, Labels
    <2>3. ctrl' \in [Lookups -> [Families -> {"open", "signalled"}]]
      BY <1>b DEF Types
    <2> QED  BY <1>a, <1>b, <2>1, <2>2, <2>3, Parsed DEF Types
  <1>2. \A k \in Lookups : k # l => Same(k)
    <2>1. \A k \in Lookups : k # l => /\ res'[k] = res[k] /\ got'[k] = got[k]
                                      /\ minTTL'[k] = minTTL[k]
      BY <1>a, Parsed
    <2>2. \A k \in Lookups : k # l => pc'[k] = pc[k] /\ done'[k] = done[k] /\ ctrl'[k] = ctrl[k]
      BY <1>b DEF Types
    <2> QED  BY <1>b, <2>1, <2>2 DEF Same
  <1>3. Sockets(l)' /\ Channels(l)'
    BY <1>a, <1>b, <1>c DEF AllSockets, AllChannels, Sockets, Channels
  <1>4. Replies(l)'
    <2>1. CASE Begun(l)
      <3>1. done'[l] = {m.id} /\ {m.id} # Families
        BY <1>a, <1>c, <2>1 DEF Begun, Families
      <3>2. Half(l)'
        BY <1>a, <2>1, <3>1, Parsed DEF Half, Good
      <3>3. pc'[l] = "read"
        BY <1>c, <3>1
      <3> QED  BY <3>2, <3>3 DEF Replies
    <2>2. CASE Half(l)
      <3>1. done'[l] = {got[l][1].id, m.id} /\ done'[l] = Families
        <4>1. done[l] = {got[l][1].id} /\ done[l] \subseteq Families
          BY <2>2 DEF Half, Types
        <4> QED  BY <1>a, <1>c, <4>1 DEF Families
      <3>2. Complete(l)'
        BY <1>a, <2>2, <3>1, BothTaken
      <3>3. pc'[l] = "cleanup"
        BY <1>c, <3>1
      <3> QED  BY <3>2, <3>3 DEF Replies
    <2> QED  BY <1>a, <2>1, <2>2 DEF AllReplies, Replies
  <1>5. TTLs(l)'
    <2>1. \A rr \in Records(res[l])' : minTTL'[l] <= rr.ttl
      BY <1>a, Parsed DEF AllTTLs, TTLs
    <2> QED  BY <1>c, <2>1 DEF TTLs
  <1>6. CacheFresh'
    BY <1>b DEF CacheFresh, Fresh
  <1> QED  BY <1>1, <1>2, <1>3, <1>4, <1>5, <1>6, OneLookup

(* A reply over UDP that is faulty, or of an unknown query, ends the read. *)
LEMMA ReadBadReplyKeeps ==
  ASSUME IInv, NEW l \in Lookups, NEW m \in Messages, ReadBadReply(l, m), UNCHANGED setting
  PROVE  IInv'
  <1> USE DEF IInv
  <1>a. /\ pc[l] = "read" /\ done[l] # Families
        /\ ParseAnswers(l, m) \/ UNCHANGED <<res, minTTL, got>>
    BY DEF ReadBadReply, At, AllChannels, Channels
  <1>b. /\ pc' = [pc EXCEPT ![l] = "cleanup"]
        /\ UNCHANGED <<now, cache, done, read, expiry, ret, sock, ctrl, snd, iter, late, panicked>>
    BY DEF ReadBadReply, Goto, udpVars
  <1>c. pc'[l] = "cleanup"
    BY <1>b DEF Types
  <1>1. Types'
    <2>1. pc' \in [Lookups -> Labels]
      BY <1>b DEF Types, Labels
    <2>2. /\ res' \in [Lookups -> Results] /\ got' \in [Lookups -> Seq(Taken)]
          /\ minTTL' \in [Lookups -> 0 .. MaxTTL]
      BY <1>a, Parsed DEF Types
    <2> QED  BY <1>b, <2>1, <2>2 DEF Types
  <1>2. \A k \in Lookups : k # l => Same(k)
    <2>1. \A k \in Lookups : k # l => /\ res'[k] = res[k] /\ got'[k] = got[k]
                                      /\ minTTL'[k] = minTTL[k]
      BY <1>a, Parsed
    <2>2. \A k \in Lookups : k # l => pc'[k] = pc[k]
      BY <1>b DEF Types
    <2> QED  BY <1>b, <2>1, <2>2 DEF Same
  <1>3. Sockets(l)' /\ Channels(l)'
    BY <1>a, <1>b, <1>c DEF AllSockets, AllChannels, Sockets, Channels
  <1>4. Replies(l)'
    BY <1>a, <1>b, <1>c DEF Replies
  <1>5. TTLs(l)'
    <2>1. \A rr \in Records(res[l])' : minTTL'[l] <= rr.ttl
      BY <1>a, Parsed DEF AllTTLs, TTLs
    <2> QED  BY <1>c, <2>1 DEF TTLs
  <1>6. CacheFresh'
    BY <1>b DEF CacheFresh, Fresh
  <1> QED  BY <1>1, <1>2, <1>3, <1>4, <1>5, <1>6, OneLookup

(* A reply over TCP: parsed once. *)
LEMMA ReadMessageKeeps ==
  ASSUME IInv, NEW l \in Lookups, NEW m \in Messages, ReadMessage(l, m), UNCHANGED setting
  PROVE  IInv'
  <1> USE DEF IInv
  <1>a. m.id \in Families /\ Good(m) /\ pc[l] = "message" /\ ParseAnswers(l, m)
    BY MessageType DEF ReadMessage, At, Good
  <1>b. /\ done' = [done EXCEPT ![l] = done[l] \union {m.id}]
        /\ read' = [read EXCEPT ![l] = read[l] + 1]
        /\ UNCHANGED <<now, cache, expiry, sock, ctrl, snd, iter, late, panicked>>
    BY DEF ReadMessage, udpVars
  <1>c. \/ read[l] = 0 /\ UNCHANGED <<pc, ret>>
        \/ /\ read[l] # 0 /\ done[l] \union {m.id} = Families
           /\ pc' = [pc EXCEPT ![l] = "store"] /\ UNCHANGED ret
        \/ /\ read[l] # 0 /\ pc' = [pc EXCEPT ![l] = "returned"]
           /\ ret' = [ret EXCEPT ![l] = "error"]
    BY DEF ReadMessage, Goto, Return
  <1>d. done'[l] = done[l] \union {m.id} /\ read'[l] = read[l] + 1
    BY <1>b DEF Types
  <1>e. (read[l] = 0 /\ Begun(l)) \/ (read[l] = 1 /\ Half(l))
    BY <1>a DEF AllReplies, Replies
  <1>1. Types'
    <2>1. pc' \in [Lookups -> Labels] /\ ret' \in [Lookups -> {"no", "cache", "answer", "error"}]
      BY <1>c DEF Types, Labels
    <2>2. done' \in [Lookups -> SUBSET Families]
      BY <1>a, <1>b DEF Types
    <2>3. read' \in [Lookups -> 0 .. 2]
      BY <1>b, <1>e DEF Types
    <2> QED  BY <1>a, <1>b, <2>1, <2>2, <2>3, Parsed DEF Types
  <1>2. \A k \in Lookups : k # l => Same(k)
    <2>1. \A k \in Lookups : k # l => pc'[k] = pc[k] /\ ret'[k] = ret[k]
      BY <1>c DEF Types
    <2>2. \A k \in Lookups : k # l => /\ res'[k] = res[k] /\ got'[k] = got[k]
                                      /\ minTTL'[k] = minTTL[k]
      BY <1>a, Parsed
    <2>3. \A k \in Lookups : k # l => done'[k] = done[k] /\ read'[k] = read[k]
      BY <1>b DEF Types
    <2> QED  BY <1>b, <2>1, <2>2, <2>3 DEF Same
  <1>f. pc'[l] \in {"message", "store", "returned"}
    BY <1>a, <1>c DEF Types
  <1>3. Sockets(l)' /\ Channels(l)'
    BY <1>a, <1>b, <1>f DEF AllSockets, AllChannels, Sockets, Channels
  <1>4. Replies(l)'
    <2>1. CASE read[l] = 0 /\ Begun(l)
      <3>1. pc'[l] = "message" /\ read'[l] = 1 /\ done'[l] = {m.id}
        BY <1>a, <1>c, <1>d, <2>1 DEF Begun
      <3>2. Half(l)'
        BY <1>a, <2>1, <3>1, Parsed DEF Half, Good
      <3> QED  BY <3>1, <3>2 DEF Replies
    <2>2. CASE read[l] = 1 /\ Half(l)
      <3>1. CASE done[l] \union {m.id} = Families /\ pc' = [pc EXCEPT ![l] = "store"]
        <4>1. {got[l][1].id, m.id} = Families
          BY <2>2, <3>1 DEF Half
        <4>2. Complete(l)'
          BY <1>a, <2>2, <4>1, BothTaken
        <4>3. pc'[l] = "store"
          BY <3>1 DEF Types
        <4> QED  BY <4>2, <4>3 DEF Replies
      <3>2. CASE pc' = [pc EXCEPT ![l] = "returned"] /\ ret' = [ret EXCEPT ![l] = "error"]
        BY <3>2 DEF Types, Replies
      <3> QED  BY <1>c, <2>2, <3>1, <3>2
    <2> QED  BY <1>e, <2>1, <2>2
  <1>5. TTLs(l)'
    <2>1. \A rr \in Records(res[l])' : minTTL'[l] <= rr.ttl
      BY <1>a, Parsed DEF AllTTLs, TTLs
    <2> QED  BY <1>f, <2>1 DEF TTLs
  <1>6. CacheFresh'
    BY <1>b DEF CacheFresh, Fresh
  <1> QED  BY <1>1, <1>2, <1>3, <1>4, <1>5, <1>6, OneLookup

(* Changing what is kept for one sender keeps the type. *)
LEMMA OneSender ==
  ASSUME NEW V, NEW F \in [Lookups -> [Families -> V]], NEW l \in Lookups, NEW f \in Families, NEW v \in V
  PROVE  [F EXCEPT ![l][f] = v] \in [Lookups -> [Families -> V]]
  OBVIOUS

(* A sender writes its query, or fails to. *)
LEMMA SenderWriteKeeps ==
  ASSUME IInv, NEW l \in Lookups, NEW f \in Families, SenderWrite(l, f), UNCHANGED setting
  PROVE  IInv'
  <1> USE DEF IInv
  <1>a. snd[l][f] = "write" /\ UNCHANGED <<now, cache, pc, res, minTTL, done, read, got,
                                           expiry, ret, ctrl, iter, panicked>>
    BY DEF SenderWrite, workVars
  <1>b. \/ /\ sock[l] # "closed" /\ UNCHANGED sock
           /\ snd' = [snd EXCEPT ![l][f] = "sleep"]
           /\ late' = [late EXCEPT ![l][f] = IF f \in done[l] THEN late[l][f] + 1 ELSE late[l][f]]
        \/ /\ snd' = [snd EXCEPT ![l][f] = "done"]
           /\ sock' = [sock EXCEPT ![l] = IF sock[l] = "closed" THEN "closed" ELSE "expired"]
           /\ UNCHANGED late
    BY DEF SenderWrite
  <1>1. Types'
    <2>1. snd' \in [Lookups -> [Families -> {"write", "sleep", "done"}]]
      <3> DEFINE V == {"write", "sleep", "done"}
      <3>1. \E v \in V : snd' = [snd EXCEPT ![l][f] = v]
        BY <1>b
      <3>2. snd \in [Lookups -> [Families -> V]]
        BY DEF Types
      <3> HIDE DEF V
      <3>3. snd' \in [Lookups -> [Families -> V]]
        BY <3>1, <3>2, OneSender
      <3> QED  BY <3>3 DEF V
    <2>2. late' \in [Lookups -> [Families -> Nat]]
      <3> DEFINE V == Nat
                 v == IF f \in done[l] THEN late[l][f] + 1 ELSE late[l][f]
      <3>1. late \in [Lookups -> [Families -> V]] /\ v \in V
        BY DEF Types
      <3>2. late' = late \/ late' = [late EXCEPT ![l][f] = v]
        BY <1>b
      <3> HIDE DEF V, v
      <3>3. [late EXCEPT ![l][f] = v] \in [Lookups -> [Families -> V]]
        BY <3>1, OneSender
      <3>4. late' \in [Lookups -> [Families -> V]]
        BY <3>1, <3>2, <3>3
      <3> QED  BY <3>4 DEF V
    <2>3. sock' \in [Lookups -> {"none", "armed", "expired", "closed"}]
      BY <1>b DEF Types
    <2> QED  BY <1>a, <2>1, <2>2, <2>3 DEF Types
  <1>2. \A k \in Lookups : k # l => Same(k)
    BY <1>a, <1>b DEF Types, Same
  <1>c. sock[l] # "closed" => pc[l] \in {"read", "cleanup"}
    BY <1>a DEF Types, AllSockets, Sockets
  <1>3. Sockets(l)'
    BY <1>a, <1>b, <1>c DEF Types, AllSockets, Sockets
  <1>4. Channels(l)'
    BY <1>a, <1>b, <1>c DEF Types, AllChannels, Channels
  <1>5. Replies(l)' /\ TTLs(l)' /\ CacheFresh'
    BY <1>a DEF AllReplies, Replies, Begun, Half, Complete, AllTTLs, TTLs, CacheFresh, Fresh
  <1> QED  BY <1>1, <1>2, <1>3, <1>4, <1>5, OneLookup

(* A sender is told, or its interval ends. *)
LEMMA SenderWakeKeeps ==
  ASSUME IInv, NEW l \in Lookups, NEW f \in Families, SenderWake(l, f), UNCHANGED setting
  PROVE  IInv'
  <1> USE DEF IInv
  <1>a. /\ snd[l][f] = "sleep"
        /\ UNCHANGED <<now, cache, pc, res, minTTL, done, read, got, expiry, ret, sock, ctrl,
                       late, panicked>>
    BY DEF SenderWake, workVars
  <1>b. \/ ctrl[l][f] # "open" /\ snd' = [snd EXCEPT ![l][f] = "done"] /\ UNCHANGED iter
        \/ /\ ctrl[l][f] = "open" /\ iter' = [iter EXCEPT ![l][f] = iter[l][f] + 1]
           /\ snd' = [snd EXCEPT ![l][f] = IF iter[l][f] + 1 = Iterations THEN "done" ELSE "write"]
    BY DEF SenderWake
  <1>1. Types'
    <2>1. snd' \in [Lookups -> [Families -> {"write", "sleep", "done"}]]
      <3> DEFINE V == {"write", "sleep", "done"}
      <3>1. \E v \in V : snd' = [snd EXCEPT ![l][f] = v]
        BY <1>b
      <3>2. snd \in [Lookups -> [Families -> V]]
        BY DEF Types
      <3> HIDE DEF V
      <3>3. snd' \in [Lookups -> [Families -> V]]
        BY <3>1, <3>2, OneSender
      <3> QED  BY <3>3 DEF V
    <2>2. iter[l][f] + 1 \in 0 .. Iterations
      <3>1. iter[l][f] \in 0 .. Iterations
        BY DEF Types
      <3>2. iter[l][f] < Iterations
        BY <1>a DEF AllSockets, Sockets
      <3> QED  BY <3>1, <3>2, ResolverAssumption
    <2>3. iter' \in [Lookups -> [Families -> 0 .. Iterations]]
      <3> DEFINE V == 0 .. Iterations
                 v == iter[l][f] + 1
      <3>1. iter \in [Lookups -> [Families -> V]] /\ v \in V
        BY <2>2 DEF Types
      <3>2. iter' = iter \/ iter' = [iter EXCEPT ![l][f] = v]
        BY <1>b
      <3> HIDE DEF V, v
      <3>3. [iter EXCEPT ![l][f] = v] \in [Lookups -> [Families -> V]]
        BY <3>1, OneSender
      <3>4. iter' \in [Lookups -> [Families -> V]]
        BY <3>1, <3>2, <3>3
      <3> QED  BY <3>4 DEF V
    <2> QED  BY <1>a, <2>1, <2>3 DEF Types
  <1>2. \A k \in Lookups : k # l => Same(k)
    BY <1>a, <1>b DEF Types, Same
  <1>3. Sockets(l)'
    <2>1. ASSUME NEW g \in Families, snd'[l][g] # "done"
          PROVE  sock[l] # "none" /\ iter'[l][g] < Iterations
      <3>1. iter[l][g] \in 0 .. Iterations /\ Iterations \in Nat
        BY ResolverAssumption DEF Types
      <3>2. CASE g = f
        <4>1. iter'[l][f] = iter[l][f] + 1 /\ iter[l][f] + 1 # Iterations
          BY <1>b, <2>1, <3>2 DEF Types
        <4>2. sock[l] # "none" /\ iter[l][f] < Iterations
          BY <1>a DEF AllSockets, Sockets
        <4> QED  BY <3>1, <3>2, <4>1, <4>2
      <3>3. CASE g # f
        <4>1. snd'[l][g] = snd[l][g] /\ iter'[l][g] = iter[l][g]
          BY <1>b, <3>3 DEF Types
        <4> QED  BY <2>1, <4>1 DEF AllSockets, Sockets
      <3> QED  BY <3>2, <3>3
    <2>2. pc[l] \notin {"idle", "check", "query", "udp"}
      BY <1>a DEF AllSockets, Sockets
    <2> QED  BY <1>a, <2>1, <2>2 DEF AllSockets, Sockets
  <1>4. Channels(l)'
    BY <1>a, <1>b DEF Types, AllChannels, Channels
  <1>5. Replies(l)' /\ TTLs(l)' /\ CacheFresh'
    BY <1>a DEF AllReplies, Replies, Begun, Half, Complete, AllTTLs, TTLs, CacheFresh, Fresh
  <1> QED  BY <1>1, <1>2, <1>3, <1>4, <1>5, OneLookup

(* Time passes: what has expired stays expired. *)
LEMMA TickKeeps ==
  ASSUME IInv, Tick, UNCHANGED setting
  PROVE  IInv'
  <1> USE DEF IInv
  <1>a. now' \in 0 .. MaxTime
    BY ResolverAssumption DEF Types, Tick
  <1>b. UNCHANGED <<cache, pc, res, minTTL, done, read, got, expiry, ret, sock, ctrl, snd,
                    iter, late, panicked>>
    BY DEF Tick, workVars, udpVars
  <1>1. Types'
    BY <1>a, <1>b DEF Types
  <1>2. AllSockets' /\ AllChannels' /\ AllTTLs' /\ CacheFresh'
    BY <1>b DEF AllSockets, Sockets, AllChannels, Channels, AllTTLs, TTLs, CacheFresh, Fresh
  <1>3. AllReplies'
    BY <1>b DEF AllReplies, Replies, Begun, Half, Complete
  <1> QED  BY <1>1, <1>2, <1>3

(* The invariant holds when the resolver starts. *)
LEMMA InitInvariant == Init => IInv
  <1> SUFFICES ASSUME Init PROVE IInv
    OBVIOUS
  <1>1. Types
    BY ResolverAssumption, NoRecords DEF Init, Types, Labels, Expiries, NoExpiry
  <1>2. AllSockets /\ AllChannels
    BY DEF Init, AllSockets, Sockets, AllChannels, Channels
  <1>3. AllReplies /\ AllTTLs /\ CacheFresh
    BY DEF Init, AllReplies, Replies, AllTTLs, TTLs, CacheFresh
  <1> QED  BY <1>1, <1>2, <1>3 DEF IInv

(* Every step keeps the invariant, by the lemma of its action. *)
LEMMA NextInvariant == IInv /\ [Next]_vars => IInv'
  <1> SUFFICES ASSUME IInv, [Next]_vars PROVE IInv'
    OBVIOUS
  <1>0. setting.callers \subseteq Lookups
    BY ResolverAssumption DEF IInv, Types
  <1>1. ASSUME UNCHANGED setting, NEW l \in Lookups, Step(l) PROVE IInv'
    BY <1>1, LookupCacheKeeps, CheckTTLKeeps, SendQueriesKeeps, StartUDPFailsKeeps, StartUDPKeeps,
       ReadTimeoutKeeps, CleanupUDPKeeps, ReadMessageFailsKeeps, SetTTLKeeps,
       StoreResultKeeps DEF Step, UDPStep
  <1>2. ASSUME UNCHANGED setting, NEW l \in Lookups, Reply(l) PROVE IInv'
    BY <1>2, ReadReplyKeeps, ReadBadReplyKeeps, ReadMessageKeeps DEF Reply
  <1>3. ASSUME UNCHANGED setting, NEW l \in Lookups, DialTCP(l) \/ Deadline(l) \/ LookupAgain(l) PROVE IInv'
    BY <1>3, DialTCPKeeps, DeadlineKeeps, LookupAgainKeeps
  <1>4. ASSUME UNCHANGED setting, NEW l \in Lookups, NEW f \in Families, Sender(l, f) PROVE IInv'
    BY <1>4, SenderWriteKeeps, SenderWakeKeeps DEF Sender
  <1>5. CASE UNCHANGED vars
    <2>1. UNCHANGED <<setting, now, cache, pc, res, minTTL, done, read, got, expiry, ret, sock,
                      ctrl, snd, iter, late, panicked>>
      BY <1>5 DEF vars, workVars, udpVars
    <2>2. Types'
      BY <2>1 DEF IInv, Types
    <2>3. AllSockets' /\ AllChannels' /\ AllTTLs' /\ CacheFresh'
      BY <2>1 DEF IInv, AllSockets, Sockets, AllChannels, Channels, AllTTLs, TTLs, CacheFresh,
             Fresh
    <2>4. AllReplies'
      BY <2>1 DEF IInv, AllReplies, Replies, Begun, Half, Complete
    <2> QED  BY <2>2, <2>3, <2>4 DEF IInv
  <1>6. CASE Next
    BY <1>0, <1>1, <1>2, <1>3, <1>4, <1>6, TickKeeps DEF Next
  <1> QED  BY <1>5, <1>6

-----------------------------------------------------------------------------
(* IInv holds in every state of the resolver. *)
THEOREM Invariance == Spec => []IInv
  BY InitInvariant, NextInvariant, PTL DEF Spec

(* A result that is cached or returned is made of exactly one reply to     *)
(* each query, taken over one transport, whatever was repeated and         *)
(* whatever a failed try over UDP left behind.                             *)
THEOREM OneReplyEach == Spec => []OneReplyPerQuery
  <1>1. IInv => OneReplyPerQuery
    BY DEF IInv, AllReplies, Replies, Complete, Good, OneReplyPerQuery
  <1> QED  BY Invariance, <1>1, PTL

(* The control channels are never sent on or closed twice, and a sender    *)
(* writes at most one query after its family was answered.                 *)
THEOREM ToldOnce == Spec => []SendersToldOnce
  <1>1. IInv => SendersToldOnce
    <2> SUFFICES ASSUME IInv PROVE SendersToldOnce
      OBVIOUS
    <2>1. ASSUME NEW n \in Names
          PROVE  cache[n] = None \/ (Records(cache[n]) \subseteq RR /\ cache[n].exp \in [ttl : Nat, at : Nat])
      BY DEF IInv, Types, Records, Range, Expiries
    <2>2. ASSUME NEW l \in Lookups PROVE Records(res[l]) \subseteq RR
      BY DEF IInv, Types, Results, Records, Range
    <2>3. TypeOK
      BY <2>1, <2>2 DEF IInv, Types, TypeOK, Labels, Expiries
    <2>4. \A l \in Lookups, f \in Families : late[l][f] <= 1
      BY DEF IInv, AllChannels, Channels
    <2> QED  BY <2>3, <2>4 DEF SendersToldOnce, IInv, Types
  <1> QED  BY Invariance, <1>1, PTL

(* Only a lookup that finds its expiry in the future answers from the      *)
(* cache.                                                                  *)
LEMMA OnlyUnexpired ==
  ASSUME IInv, Next, NEW l \in Lookups, ret[l] = "no", ret'[l] = "cache"
  PROVE  pc[l] = "check" /\ expiry[l].ttl > now
  <1>0. ret \in [Lookups -> {"no", "cache", "answer", "error"}]
    BY DEF IInv, Types
  <1>1. ASSUME NEW k, \/ ret' = ret
                      \/ \E how \in {"no", "answer", "error"} : ret' = [ret EXCEPT ![k] = how]
        PROVE  FALSE
    BY <1>0, <1>1
  <1>2. ASSUME NEW k, CheckTTL(k) PROVE k = l /\ pc[l] = "check" /\ expiry[l].ttl > now
    BY <1>0, <1>2 DEF CheckTTL, At, Return
  <1>3. ASSUME NEW k, LookupCache(k) \/ SendQueries(k) \/ UDPStep(k) PROVE FALSE
    BY <1>1, <1>3 DEF LookupCache, SendQueries, UDPStep, StartUDPFails, StartUDP, ReadTimeout,
                      CleanupUDP, Unhandled, Return
  <1>4. ASSUME NEW k, DialTCP(k) \/ ReadMessageFails(k) \/ SetTTL(k) \/ StoreResult(k) PROVE FALSE
    BY <1>1, <1>4 DEF DialTCP, ReadMessageFails, SetTTL, StoreResult, Return
  <1>5. ASSUME NEW k, Deadline(k) \/ LookupAgain(k) \/ Reply(k) PROVE FALSE
    BY <1>1, <1>5 DEF Deadline, LookupAgain, Reply, ReadReply, ReadBadReply, ReadMessage, Return
  <1>6. ASSUME NEW k, NEW f, Sender(k, f) PROVE FALSE
    BY <1>1, <1>6 DEF Sender, SenderWrite, SenderWake
  <1>7. ~ Tick
    BY <1>1 DEF Tick
  <1> QED  BY <1>2, <1>3, <1>4, <1>5, <1>6, <1>7 DEF Next, Step

(* A lookup answered from the cache returns no address record whose TTL    *)
(* has passed since it was cached.                                         *)
THEOREM CacheFreshness == Spec => CacheHitsAreFresh
  <1>1. ASSUME IInv, [Next]_vars
        PROVE  [\A l \in Lookups :
                  ret[l] = "no" /\ ret'[l] = "cache" =>
                    \A rr \in Records(res[l]) : now < expiry[l].at + rr.ttl]_vars
    <2> SUFFICES ASSUME Next, NEW l \in Lookups, ret[l] = "no", ret'[l] = "cache",
                        NEW rr \in Records(res[l])
                 PROVE  now < expiry[l].at + rr.ttl
      BY <1>1
    <2>1. pc[l] = "check" /\ expiry[l].ttl > now
      BY <1>1, OnlyUnexpired
    <2>2. expiry[l].ttl <= expiry[l].at + rr.ttl
      BY <1>1, <2>1 DEF IInv, AllTTLs, TTLs, Fresh
    <2>3. now \in Nat /\ expiry[l].ttl \in Nat /\ expiry[l].at \in Nat
      BY <1>1, ResolverAssumption DEF IInv, Types, Expiries
    <2>4. rr.ttl \in Nat
      <3>1. rr \in RR
        BY <1>1 DEF IInv, Types, Results, Records, Range
      <3> QED  BY <3>1, ResolverAssumption DEF RR
    <2> QED  BY <2>1, <2>2, <2>3, <2>4
  <1> QED  BY Invariance, <1>1, PTL DEF Spec, CacheHitsAreFresh

=============================================================================
