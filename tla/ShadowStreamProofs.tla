------------------------- MODULE ShadowStreamProofs -------------------------
(***************************************************************************)
(* Shadowsocks 2022 streams: what a reader returns is what one writer      *)
(* wrote, in its order, whatever the path does; requests are served once,  *)
(* or the salt pool forgot them; responses answer the client's own request;*)
(* no nonce is used twice; and without faults nothing that was written     *)
(* fails to open.  For any number of connections, PSKs and users, every    *)
(* length of addresses, payloads and padding, and any number of faults.    *)
(*                                                                         *)
(* IInv says where every box of a stream lies, what it announces of the    *)
(* next one and which bytes it has (Sealed), that an intact box on a path  *)
(* is one of a stream (Carried), that a reader is at the box of one stream *)
(* that its nonce counts (Received), and what the paths have as long as    *)
(* there was no fault (Undisturbed).                                       *)
(***************************************************************************)
EXTENDS ShadowStream, SequenceTheorems, TLAPS

-----------------------------------------------------------------------------
(* Bytes *)

(* The bytes from a + 1 to b. *)
LEMMA BytesAre ==
  ASSUME NEW s \in Sessions, NEW d \in Dirs, NEW a \in Nat, NEW b \in Nat, a <= b
  PROVE  /\ Bytes(s, d, a + 1, b) \in Seq(Sessions \X Dirs \X Nat)
         /\ Len(Bytes(s, d, a + 1, b)) = b - a
         /\ \A i \in 1 .. b - a : Bytes(s, d, a + 1, b)[i] = <<s, d, a + i>>
  <1>1. b - a \in Nat /\ b - (a + 1) + 1 = b - a /\ \A i \in 1 .. b - a : a + 1 + i - 1 = a + i /\ a + i \in Nat
    OBVIOUS
  <1>2. Bytes(s, d, a + 1, b) = [i \in 1 .. b - a |-> <<s, d, a + 1 + i - 1>>]
    BY <1>1 DEF Bytes
  <1>3. Bytes(s, d, a + 1, b) = [i \in 1 .. b - a |-> <<s, d, a + i>>]
    BY <1>1, <1>2
  <1> HIDE DEF Bytes
  <1>4. \A i \in 1 .. b - a : <<s, d, a + i>> \in Sessions \X Dirs \X Nat
    BY <1>1
  <1> DEFINE X == Sessions \X Dirs \X Nat
             m == b - a
             f == [i \in 1 .. m |-> <<s, d, a + i>>]
  <1>5. m \in Nat /\ \A i \in 1 .. m : f[i] \in X
    BY <1>1, <1>4
  <1> HIDE DEF X, m
  <1>6. f \in Seq(X) /\ Len(f) = m /\ \A i \in 1 .. m : f[i] = <<s, d, a + i>>
    BY <1>5
  <1> QED  BY <1>3, <1>6 DEF X, m

(* No bytes lie between a + 1 and a. *)
LEMMA NoBytes ==
  ASSUME NEW s, NEW d, NEW a \in Nat
  PROVE  Bytes(s, d, a + 1, a) = <<>>
  BY DEF Bytes

(* The first n bytes. *)
LEMMA FirstBytes ==
  ASSUME NEW s \in Sessions, NEW d \in Dirs, NEW n \in Nat
  PROVE  /\ Bytes(s, d, 1, n) \in Seq(Sessions \X Dirs \X Nat)
         /\ Len(Bytes(s, d, 1, n)) = n
         /\ \A i \in 1 .. n : Bytes(s, d, 1, n)[i] = <<s, d, i>>
  <1>1. 0 \in Nat /\ 0 <= n /\ 0 + 1 = 1 /\ n - 0 = n /\ \A i \in 1 .. n : 0 + i = i
    OBVIOUS
  <1>2. /\ Bytes(s, d, 0 + 1, n) \in Seq(Sessions \X Dirs \X Nat)
        /\ Len(Bytes(s, d, 0 + 1, n)) = n - 0
        /\ \A i \in 1 .. n - 0 : Bytes(s, d, 0 + 1, n)[i] = <<s, d, 0 + i>>
    BY <1>1, BytesAre
  <1> QED  BY <1>1, <1>2

(* The first a bytes and those up to b are the first b. *)
LEMMA BytesConcat ==
  ASSUME NEW s \in Sessions, NEW d \in Dirs, NEW a \in Nat, NEW b \in Nat, a <= b
  PROVE  Bytes(s, d, 1, a) \o Bytes(s, d, a + 1, b) = Bytes(s, d, 1, b)
  <1> DEFINE X == Sessions \X Dirs \X Nat
             u == Bytes(s, d, 1, a)
             v == Bytes(s, d, a + 1, b)
             w == Bytes(s, d, 1, b)
             c == b - a
  <1>1. u \in Seq(X) /\ Len(u) = a /\ \A i \in 1 .. a : u[i] = <<s, d, i>>
    BY FirstBytes
  <1>2. v \in Seq(X) /\ Len(v) = c /\ \A i \in 1 .. c : v[i] = <<s, d, a + i>>
    BY BytesAre
  <1>3. w \in Seq(X) /\ Len(w) = b /\ \A i \in 1 .. b : w[i] = <<s, d, i>>
    BY FirstBytes
  <1>4. c \in Nat /\ a + c = b /\ \A i \in 1 .. b : i > a => i - a \in 1 .. c /\ a + (i - a) = i
    OBVIOUS
  <1> HIDE DEF u, v, w, c, X
  <1>5. /\ u \o v \in Seq(X) /\ Len(u \o v) = b
        /\ \A i \in 1 .. b : (u \o v)[i] = IF i <= a THEN u[i] ELSE v[i - a]
    <2>1. /\ u \o v \in Seq(X) /\ Len(u \o v) = Len(u) + Len(v)
          /\ \A i \in 1 .. Len(u) + Len(v) : (u \o v)[i] = IF i <= Len(u) THEN u[i] ELSE v[i - Len(u)]
      BY <1>1, <1>2, ConcatProperties
    <2>2. Len(u) = a /\ Len(v) = c /\ a + c = b
      BY <1>1, <1>2, <1>4
    <2> QED  BY <2>1, <2>2
  <1>6. \A i \in 1 .. b : (u \o v)[i] = w[i]
    <2> TAKE i \in 1 .. b
    <2>1. CASE i <= a
      <3>1. i \in 1 .. a
        BY <2>1
      <3> QED  BY <1>1, <1>3, <1>5, <2>1, <3>1
    <2>2. CASE i > a
      <3>1. i - a \in 1 .. c /\ a + (i - a) = i /\ ~ (i <= a)
        BY <1>4, <2>2
      <3>2. (u \o v)[i] = v[i - a]
        BY <1>5, <3>1
      <3>3. v[i - a] = <<s, d, a + (i - a)>>
        BY <1>2, <3>1
      <3> QED  BY <1>3, <3>1, <3>2, <3>3
    <2>3. i <= a \/ i > a
      OBVIOUS
    <2> QED  BY <2>1, <2>2, <2>3, Zenon
  <1>7. u \o v = w
    BY <1>3, <1>5, <1>6, SeqEqual
  <1> QED  BY <1>7 DEF u, v, w

-----------------------------------------------------------------------------
(* The invariant *)

Pairs == Sessions \X Dirs
Plain == Sessions \X Dirs \X Nat

Boxes ==
  [key : PSKs \X Pairs, nonce : Nat, len : Nat, n : Seq(Nat), salt : Pairs \cup {None},
   bytes : Seq(Plain \cup {<<"damaged", "damaged", 0>>}), intact : BOOLEAN]

(* Headers and length chunks have the length of the box that follows; the  *)
(* boxes in between have the bytes.                                        *)
IsHead(box) == Len(box.n) = 1

HeadLen(p, j) == IF j > 1 THEN 2 ELSE IF p[2] = "c2s" THEN FixedLen ELSE FixedLen + SaltLen

(* The j-th of the boxes that were sealed for p; the first i of them have  *)
(* o[i] bytes.                                                             *)
GoodBox(p, boxes, o, key, salt, j) ==
  /\ boxes[j].intact /\ boxes[j].key = key /\ boxes[j].nonce = j - 1
  /\ o[j - 1] <= o[j] /\ boxes[j].bytes = Bytes(p[1], p[2], o[j - 1] + 1, o[j])
  /\ IsHead(boxes[j]) =>
       /\ o[j] = o[j - 1] /\ j < Len(boxes)
       /\ boxes[j].n[1] = boxes[j + 1].len /\ boxes[j].n[1] # 0
       /\ boxes[j].len = HeadLen(p, j)
  /\ j < Len(boxes) => (IsHead(boxes[j + 1]) <=> ~IsHead(boxes[j]))
  /\ j = 1 => boxes[j].salt = salt
  /\ j = 2 /\ p[2] = "c2s" => VariableHeaderOk(boxes[j])

GoodStream(p, boxes, o, key, salt) ==
  /\ o[0] = 0
  /\ \A j \in 1 .. Len(boxes) : GoodBox(p, boxes, o, key, salt, j)
  /\ \A j \in 0 .. Len(boxes) : o[j] <= o[Len(boxes)]
  /\ Len(boxes) # 0 => IsHead(boxes[1]) /\ ~IsHead(boxes[Len(boxes)])

(* A reader that has read r of the boxes and returned got. *)
At(q, r, boxes, o, label, len, got) ==
  /\ r \in 1 .. Len(boxes)
  /\ got = Bytes(q[1], q[2], 1, o[r])
  /\ label \in {"variable", "payload"} => IsHead(boxes[r]) /\ len = boxes[r + 1].len
  /\ label = "variable" => r = 1
  /\ label = "length" => ~IsHead(boxes[r])

(* What a stream is sealed with. *)
Key(p) == <<IF p[2] = "c2s" THEN psk[p[1]] ELSE peer[p[1]][1], p>>
FirstSalt(p) == IF p[2] = "c2s" THEN None ELSE peer[p[1]][2]

Sealed(p, off) ==
  /\ GoodStream(p, log[p], off[p], Key(p), FirstSalt(p))
  /\ wNonce[p] = IF Len(log[p]) = 0 THEN -1 ELSE Len(log[p])
  /\ sent[p] = off[p][Len(log[p])]

(* Whatever the path did, an intact box is one of a stream. *)
Carried(p) ==
  \A i \in 1 .. Len(path[p]) : path[p][i].intact =>
    \E s \in Sessions : \E j \in 1 .. Len(log[<<s, p[2]>>]) : path[p][i] = log[<<s, p[2]>>][j]

(* p reads the stream of s: it has read rNonce boxes of it.  A client reads *)
(* the response to its own request.                                        *)
ReaderOf(p, s, off) ==
  /\ rKey[p] = Key(<<s, p[2]>>)
  /\ At(<<s, p[2]>>, rNonce[p], log[<<s, p[2]>>], off[<<s, p[2]>>], rpc[p], rLen[p], delivered[p])
  /\ p[2] = "s2c" => peer[s] = <<psk[p[1]], <<p[1], "c2s">>>>

Received(p, off) ==
  /\ rpc[p] = "header" => rKey[p] = None
  /\ rKey[p] = None => rpc[p] \in {"header", "eof", "failed"} /\ rNonce[p] = 0 /\ delivered[p] = <<>>
  /\ rpc[p] = "variable" => p[2] = "c2s"
  /\ rKey[p] # None => \E s \in Sessions : ReaderOf(p, s, off)

(* Requests that were accepted. *)
Served ==
  /\ \A s \in Sessions :
       /\ peer[s] # None => peer[s][2] \in pool \cup forgotten /\ \E t \in Sessions : peer[s] = <<psk[t], <<t, "c2s">>>>
       /\ rpc[<<s, "c2s">>] = "header" => peer[s] = None
       /\ Len(log[<<s, "s2c">>]) # 0 => peer[s] # None
  /\ ServedOnce

(* The excess payload. *)
Excess ==
  \A s \in Sessions :
    HasExcess(s) => bufLen[s] \in 1 .. MaxPayloadSize /\ Len(log[<<s, "c2s">>]) # 0

(* As long as the path did nothing, it has what is sealed and not read yet, *)
(* and a request is accepted on its own connection.                        *)
Quiet(p) ==
  /\ rpc[p] # "failed" => path[p] = SubSeq(log[p], rNonce[p] + 1, Len(log[p]))
  /\ rpc[p] = "failed" => ~Known(psk[p[1]])
  /\ rKey[p] # None => rKey[p][2] = p

Own(s) ==
  /\ peer[s] # None => peer[s] = <<psk[s], <<s, "c2s">>>>
  /\ <<s, "c2s">> \in pool => peer[s] # None

Undisturbed == faults = 0 => (\A p \in Pairs : Quiet(p)) /\ (\A s \in Sessions : Own(s))

Types ==
  /\ psk \in [Sessions -> PSKs] /\ faults \in Nat
  /\ excess \in [Sessions -> Nat \X Nat] /\ bufLen \in [Sessions -> Nat]
  /\ peer \in [Sessions -> (PSKs \X Pairs) \cup {None}]
  /\ wNonce \in [Pairs -> Int] /\ sent \in [Pairs -> Nat]
  /\ log \in [Pairs -> Seq(Boxes)] /\ path \in [Pairs -> Seq(Boxes)]
  /\ rpc \in [Pairs -> {"header", "variable", "length", "payload", "eof", "failed"}]
  /\ rKey \in [Pairs -> (PSKs \X Pairs) \cup {None}]
  /\ rNonce \in [Pairs -> Nat] /\ rLen \in [Pairs -> Nat]
  /\ delivered \in [Pairs -> Seq(Plain)]

Offsets == [Pairs -> [Nat -> Nat]]

Streams(off) ==
  /\ \A p \in Pairs : Sealed(p, off)
  /\ \A p \in Pairs : Received(p, off)

IInv ==
  /\ Types /\ Served /\ Excess /\ Undisturbed
  /\ \A p \in Pairs : Carried(p)
  /\ \E off \in Offsets : Streams(off)

-----------------------------------------------------------------------------
(* Streams of boxes *)

(* Two boxes are added. *)
LEMMA TwoMore ==
  ASSUME NEW X, NEW boxes \in Seq(X), NEW a \in X, NEW b \in X
  PROVE  LET more == boxes \o <<a, b>> IN
         /\ more \in Seq(X) /\ Len(more) = Len(boxes) + 2
         /\ \A j \in 1 .. Len(boxes) : more[j] = boxes[j]
         /\ more[Len(boxes) + 1] = a /\ more[Len(boxes) + 2] = b
  <1> DEFINE L == Len(boxes)
             e == <<a, b>>
             more == boxes \o e
  <1>1. L \in Nat /\ e \in Seq(X) /\ Len(e) = 2 /\ e[1] = a /\ e[2] = b
    OBVIOUS
  <1> HIDE DEF e
  <1>2. /\ more \in Seq(X) /\ Len(more) = Len(boxes) + Len(e)
        /\ \A j \in 1 .. Len(boxes) + Len(e) : more[j] = IF j <= Len(boxes) THEN boxes[j] ELSE e[j - Len(boxes)]
    BY <1>1, ConcatProperties
  <1>3. L + 1 \in 1 .. L + 2 /\ L + 2 \in 1 .. L + 2 /\ (L + 1) - L = 1 /\ (L + 2) - L = 2
        /\ ~ (L + 1 <= L) /\ ~ (L + 2 <= L) /\ \A j \in 1 .. L : j \in 1 .. L + 2 /\ j <= L
    BY <1>1
  <1> HIDE DEF more
  <1>4. Len(more) = L + 2 /\ \A j \in 1 .. L + 2 : more[j] = IF j <= L THEN boxes[j] ELSE e[j - L]
    BY <1>1, <1>2
  <1> HIDE DEF L
  <1>5. more[L + 1] = a /\ more[L + 2] = b /\ \A j \in 1 .. L : more[j] = boxes[j]
    BY <1>1, <1>3, <1>4
  <1> QED  BY <1>2, <1>4, <1>5 DEF L, more, e

(* What is left behind the first r. *)
LEMMA RestElements ==
  ASSUME NEW X, NEW boxes \in Seq(X), NEW r \in Nat, r <= Len(boxes)
  PROVE  /\ SubSeq(boxes, r + 1, Len(boxes)) \in Seq(X)
         /\ Len(SubSeq(boxes, r + 1, Len(boxes))) = Len(boxes) - r
         /\ \A i \in 1 .. Len(boxes) - r : SubSeq(boxes, r + 1, Len(boxes))[i] = boxes[r + i]
  OBVIOUS

(* What the reader has before it. *)
LEMMA RestIs ==
  ASSUME NEW X, NEW boxes \in Seq(X), NEW r \in Nat, r < Len(boxes)
  PROVE  /\ SubSeq(boxes, r + 1, Len(boxes)) # <<>>
         /\ Head(SubSeq(boxes, r + 1, Len(boxes))) = boxes[r + 1]
         /\ Tail(SubSeq(boxes, r + 1, Len(boxes))) = SubSeq(boxes, r + 1 + 1, Len(boxes))
  <1> DEFINE s == SubSeq(boxes, r + 1, Len(boxes))
             t == SubSeq(boxes, r + 1 + 1, Len(boxes))
             L == Len(boxes)
             m == L - r
  <1>1. L \in Nat /\ m \in Nat /\ m > 0 /\ r + 1 \in 1 .. L /\ \A i \in 1 .. m : r + i \in 1 .. L
    OBVIOUS
  <1>2. s \in Seq(X) /\ Len(s) = m /\ \A i \in 1 .. m : s[i] = boxes[r + i]
    OBVIOUS
  <1>3. t \in Seq(X) /\ Len(t) = m - 1 /\ \A i \in 1 .. m - 1 : t[i] = boxes[r + 1 + i]
    OBVIOUS
  <1> HIDE DEF s, t, m, L
  <1>4. s # <<>> /\ Head(s) = s[1] /\ Tail(s) \in Seq(X) /\ Len(Tail(s)) = m - 1
        /\ \A i \in 1 .. m - 1 : Tail(s)[i] = s[i + 1]
    BY <1>1, <1>2
  <1>5. s[1] = boxes[r + 1]
    BY <1>1, <1>2
  <1>6. \A i \in 1 .. m - 1 : Tail(s)[i] = t[i]
    <2> TAKE i \in 1 .. m - 1
    <2>1. i + 1 \in 1 .. m /\ r + (i + 1) = r + 1 + i
      BY <1>1
    <2> QED  BY <1>2, <1>3, <1>4, <2>1
  <1>7. Tail(s) = t
    BY <1>3, <1>4, <1>6, SeqEqual
  <1> QED  BY <1>4, <1>5, <1>7 DEF s, t, L

(* Something is left only behind a box that is not the last. *)
LEMMA RestEmpty ==
  ASSUME NEW X, NEW boxes \in Seq(X), NEW r \in Nat, SubSeq(boxes, r + 1, Len(boxes)) # <<>>
  PROVE  r < Len(boxes)
  OBVIOUS

(* Two boxes that are added are added to what is left as well. *)
LEMMA RestLonger ==
  ASSUME NEW X, NEW boxes \in Seq(X), NEW r \in 0 .. Len(boxes), NEW a \in X, NEW b \in X
  PROVE  SubSeq(boxes \o <<a, b>>, r + 1, Len(boxes \o <<a, b>>)) = SubSeq(boxes, r + 1, Len(boxes)) \o <<a, b>>
  <1> DEFINE L == Len(boxes)
             m == L - r
             more == boxes \o <<a, b>>
             u == SubSeq(boxes, r + 1, L)
             v == u \o <<a, b>>
             w == SubSeq(more, r + 1, L + 2)
  <1>1. L \in Nat /\ m \in Nat /\ r \in Nat /\ r + m = L /\ \A i \in 1 .. m : r + i \in 1 .. L
    OBVIOUS
  <1>2. u \in Seq(X) /\ Len(u) = m /\ \A i \in 1 .. m : u[i] = boxes[r + i]
    OBVIOUS
  <1>3. more \in Seq(X) /\ Len(more) = L + 2 /\ (\A j \in 1 .. L : more[j] = boxes[j])
        /\ more[L + 1] = a /\ more[L + 2] = b
    BY TwoMore
  <1> HIDE DEF u, more, L
  <1>4. v \in Seq(X) /\ Len(v) = Len(u) + 2 /\ (\A i \in 1 .. Len(u) : v[i] = u[i])
        /\ v[Len(u) + 1] = a /\ v[Len(u) + 2] = b
    BY <1>2, TwoMore
  <1>5. w \in Seq(X) /\ Len(w) = m + 2 /\ \A i \in 1 .. m + 2 : w[i] = more[r + i]
    <2>1. Len(more) - r = m + 2 /\ r <= Len(more) /\ Len(more) = L + 2
      BY <1>1, <1>3
    <2>2. /\ SubSeq(more, r + 1, Len(more)) \in Seq(X) /\ Len(SubSeq(more, r + 1, Len(more))) = Len(more) - r
          /\ \A i \in 1 .. Len(more) - r : SubSeq(more, r + 1, Len(more))[i] = more[r + i]
      BY <1>1, <1>3, <2>1, RestElements
    <2> QED  BY <2>1, <2>2
  <1> HIDE DEF v, w, m
  <1>6. \A i \in 1 .. m + 2 : w[i] = v[i]
    <2> TAKE i \in 1 .. m + 2
    <2>1. CASE i \in 1 .. m
      BY <1>1, <1>2, <1>3, <1>4, <1>5, <2>1
    <2>2. CASE i = m + 1
      <3>1. r + i = L + 1
        BY <1>1, <2>2
      <3> QED  BY <1>2, <1>3, <1>4, <1>5, <2>2, <3>1
    <2>3. CASE i = m + 2
      <3>1. r + i = L + 2
        BY <1>1, <2>3
      <3> QED  BY <1>2, <1>3, <1>4, <1>5, <2>3, <3>1
    <2>4. i \in 1 .. m \/ i = m + 1 \/ i = m + 2
      BY <1>1
    <2> QED  BY <2>1, <2>2, <2>3, <2>4, Zenon
  <1>7. w = v
    BY <1>2, <1>4, <1>5, <1>6, SeqEqual
  <1>8. w = SubSeq(more, r + 1, Len(more))
    BY <1>3 DEF w
  <1> QED  BY <1>7, <1>8 DEF u, v, more, L

(* Indices of the old boxes and of the two new ones. *)
LEMMA Indices ==
  ASSUME NEW L \in Nat
  PROVE  /\ L + 1 \in Nat /\ L + 2 \in Nat /\ ~ (L + 1 <= L) /\ ~ (L + 2 <= L) /\ L + 2 # L + 1
         /\ (L + 1) - 1 = L /\ (L + 2) - 1 = L + 1 /\ L + 1 + 1 = L + 2 /\ L + 1 < L + 2 /\ ~ (L + 2 < L + 2)
         /\ (L + 1 = 1 <=> L = 0) /\ (L + 1 = 2 <=> L = 1) /\ (L + 2 = 2 <=> L = 0) /\ L + 2 # 1
         /\ L \in 0 .. L /\ (L # 0 => 1 \in 1 .. L)
         /\ \A j \in 0 .. L : j \in Nat /\ j <= L
         /\ \A j \in 1 .. L : j \in 0 .. L /\ j - 1 \in 0 .. L /\ j < L + 2
                              /\ (j < L => j + 1 \in 1 .. L) /\ (j < L \/ j = L)
         /\ \A j \in 1 .. L + 2 : j \in 1 .. L \/ j = L + 1 \/ j = L + 2
         /\ \A j \in 0 .. L + 2 : j \in 0 .. L \/ j = L + 1 \/ j = L + 2
  OBVIOUS

(* The boxes and the offsets go on. *)
GoesOn(L, boxes, more, a, b) ==
  /\ Len(boxes) = L /\ Len(more) = L + 2 /\ more[L + 1] = a /\ more[L + 2] = b
  /\ \A j \in 1 .. L : more[j] = boxes[j]

CountsOn(L, o, o2, m) ==
  o2[L + 1] = o[L] /\ o2[L + 2] = o[L] + m /\ \A j \in 0 .. L : o2[j] = o[j]

(* Offsets are extended for two more boxes, of which the second has m      *)
(* bytes.                                                                  *)
LEMMA OffsetsMore ==
  ASSUME NEW o \in [Nat -> Nat], NEW L \in Nat, NEW m \in Nat
  PROVE  \E o2 \in [Nat -> Nat] : CountsOn(L, o, o2, m)
  <1> DEFINE o2 == [j \in Nat |-> IF j <= L THEN o[j] ELSE IF j = L + 1 THEN o[L] ELSE o[L] + m]
  <1>1. L + 1 \in Nat /\ L + 2 \in Nat /\ ~ (L + 1 <= L) /\ ~ (L + 2 <= L) /\ L + 2 # L + 1
        /\ \A j \in 0 .. L : j \in Nat /\ j <= L
    BY Indices
  <1>2. o2 \in [Nat -> Nat] /\ o2[L + 1] = o[L] /\ o2[L + 2] = o[L] + m /\ \A j \in 0 .. L : o2[j] = o[j]
    BY <1>1
  <1> QED  BY <1>2 DEF CountsOn

(* A header or length chunk, and the box it announces with m bytes, as the *)
(* next two of a stream.                                                   *)
NextTwo(p, L, o, key, salt, a, b, m) ==
  /\ a.intact /\ a.key = key /\ a.nonce = L /\ a.bytes = <<>> /\ IsHead(a)
  /\ a.n[1] = b.len /\ b.len # 0 /\ a.len = HeadLen(p, L + 1)
  /\ L = 0 => a.salt = salt
  /\ b.intact /\ b.key = key /\ b.nonce = L + 1 /\ ~IsHead(b)
  /\ b.bytes = Bytes(p[1], p[2], o[L] + 1, o[L] + m)
  /\ L = 0 /\ p[2] = "c2s" => VariableHeaderOk(b)

(* A stream with two such boxes added is a good one. *)
LEMMA GoodNext ==
  ASSUME NEW p, NEW boxes, NEW o \in [Nat -> Nat], NEW key, NEW salt, NEW L \in Nat,
         GoodStream(p, boxes, o, key, salt),
         NEW a, NEW b, NEW m \in Nat, NextTwo(p, L, o, key, salt, a, b, m),
         NEW more, GoesOn(L, boxes, more, a, b), NEW o2 \in [Nat -> Nat], CountsOn(L, o, o2, m)
  PROVE  GoodStream(p, more, o2, key, salt)
  <1>0. /\ Len(boxes) = L /\ Len(more) = L + 2 /\ more[L + 1] = a /\ more[L + 2] = b
        /\ \A j \in 1 .. L : more[j] = boxes[j]
    BY DEF GoesOn
  <1>c. o2[L + 1] = o[L] /\ o2[L + 2] = o[L] + m /\ \A j \in 0 .. L : o2[j] = o[j]
    BY DEF CountsOn
  <1>1. /\ o[0] = 0
        /\ \A j \in 1 .. L : GoodBox(p, boxes, o, key, salt, j)
        /\ \A j \in 0 .. L : o[j] <= o[L]
        /\ L # 0 => IsHead(boxes[1]) /\ ~IsHead(boxes[L])
    BY <1>0 DEF GoodStream
  <1>2. o[L] \in Nat /\ o[L] <= o[L] /\ o[L] <= o[L] + m
    OBVIOUS
  <1>3. L # 1
    BY <1>1
  <1>4. ASSUME NEW j \in 1 .. L PROVE GoodBox(p, more, o2, key, salt, j)
    <2>1. GoodBox(p, boxes, o, key, salt, j)
      BY <1>1
    <2>2. more[j] = boxes[j] /\ o2[j] = o[j] /\ o2[j - 1] = o[j - 1] /\ j < Len(more) /\ (j < L \/ j = L)
      <3>1. j \in 0 .. L /\ j - 1 \in 0 .. L /\ j < L + 2 /\ (j < L \/ j = L)
        BY Indices
      <3> QED  BY <1>0, <1>c, <3>1
    <2>3. CASE j < L
      <3>1. more[j + 1] = boxes[j + 1]
        BY <1>0, <2>3, Indices
      <3> QED  BY <1>0, <2>1, <2>2, <2>3, <3>1 DEF GoodBox
    <2>4. CASE j = L
      <3>1. more[j + 1] = a /\ IsHead(a) /\ ~IsHead(boxes[j])
        BY <1>0, <1>1, <2>4 DEF NextTwo
      <3> QED  BY <2>1, <2>2, <3>1 DEF GoodBox
    <2> QED  BY <2>2, <2>3, <2>4
  <1>5. GoodBox(p, more, o2, key, salt, L + 1)
    <2>1. /\ more[L + 1 + 1] = b /\ (L + 1) - 1 = L /\ o2[L] = o[L]
          /\ L + 1 < Len(more) /\ (L + 1 = 1 <=> L = 0) /\ L + 1 # 2
      BY <1>0, <1>c, <1>3, Indices, SMTT(20)
    <2>2. a.bytes = Bytes(p[1], p[2], o[L] + 1, o[L])
      BY <1>2, NoBytes DEF NextTwo
    <2> QED  BY <1>0, <1>c, <1>2, <2>1, <2>2 DEF GoodBox, NextTwo
  <1>6. GoodBox(p, more, o2, key, salt, L + 2)
    <2>1. (L + 2) - 1 = L + 1 /\ ~ (L + 2 < Len(more)) /\ L + 2 # 1 /\ (L + 2 = 2 <=> L = 0)
      BY <1>0, Indices
    <2> QED  BY <1>0, <1>c, <1>2, <2>1 DEF GoodBox, NextTwo
  <1>7. \A j \in 1 .. L + 2 : GoodBox(p, more, o2, key, salt, j)
    BY <1>4, <1>5, <1>6, Indices
  <1>8. \A j \in 0 .. L + 2 : o2[j] <= o2[L + 2]
    <2> TAKE j \in 0 .. L + 2
    <2>1. j \in 0 .. L \/ j = L + 1 \/ j = L + 2
      BY Indices
    <2>2. j \in 0 .. L => o2[j] = o[j] /\ o[j] <= o[L] /\ o[j] \in Nat
      BY <1>1, <1>c
    <2> QED  BY <1>2, <1>c, <2>1, <2>2
  <1>9. IsHead(more[1]) /\ ~IsHead(more[L + 2])
    <2>1. IsHead(a) /\ ~IsHead(b)
      BY DEF NextTwo
    <2>2. CASE L = 0
      BY <1>0, <2>1, <2>2
    <2>3. CASE L # 0
      BY <1>0, <1>1, <2>1, <2>3, Indices
    <2> QED  BY <2>2, <2>3
  <1>10. o2[0] = 0
    BY <1>1, <1>c
  <1> QED  BY <1>0, <1>7, <1>8, <1>9, <1>10 DEF GoodStream

GoodOn(p, boxes, a, b, o, o2, key, salt, m) ==
  /\ GoodStream(p, boxes \o <<a, b>>, o2, key, salt)
  /\ o2[Len(boxes) + 2] = o[Len(boxes)] + m
  /\ \A j \in 0 .. Len(boxes) : o2[j] = o[j]

(* There are offsets for it. *)
LEMMA GoodMore ==
  ASSUME NEW p \in Pairs, NEW boxes \in Seq(Boxes), NEW o \in [Nat -> Nat], NEW key, NEW salt,
         GoodStream(p, boxes, o, key, salt),
         NEW a \in Boxes, NEW b \in Boxes, NEW m \in Nat,
         NextTwo(p, Len(boxes), o, key, salt, a, b, m)
  PROVE  \E o2 \in [Nat -> Nat] : GoodOn(p, boxes, a, b, o, o2, key, salt, m)
  <1> DEFINE L == Len(boxes)
             more == boxes \o <<a, b>>
  <1>1. L \in Nat
    OBVIOUS
  <1>2. GoesOn(L, boxes, more, a, b)
    BY TwoMore, SMTT(20) DEF GoesOn
  <1>3. L = Len(boxes) /\ NextTwo(p, L, o, key, salt, a, b, m)
    OBVIOUS
  <1> HIDE DEF L, more
  <1>4. PICK o2 \in [Nat -> Nat] : CountsOn(L, o, o2, m)
    BY <1>1, OffsetsMore
  <1>5. GoodStream(p, more, o2, key, salt)
    BY <1>1, <1>2, <1>3, <1>4, GoodNext
  <1> QED  BY <1>3, <1>4, <1>5 DEF more, L, CountsOn, GoodOn

(* A reader of it stays where it is. *)
LEMMA AtMore ==
  ASSUME NEW p, NEW boxes \in Seq(Boxes), NEW o, NEW key, NEW salt, GoodStream(p, boxes, o, key, salt),
         NEW a \in Boxes, NEW b \in Boxes, NEW o2, \A j \in 0 .. Len(boxes) : o2[j] = o[j],
         NEW q, NEW r, NEW label, NEW len, NEW got, At(q, r, boxes, o, label, len, got)
  PROVE  At(q, r, boxes \o <<a, b>>, o2, label, len, got)
  <1> DEFINE L == Len(boxes)
             more == boxes \o <<a, b>>
  <1>1. L \in Nat /\ r \in 1 .. L /\ r \in 0 .. L
    BY DEF At
  <1>2. more \in Seq(Boxes) /\ Len(more) = L + 2 /\ (\A j \in 1 .. L : more[j] = boxes[j])
    BY TwoMore
  <1>3. IsHead(boxes[r]) => r + 1 \in 1 .. L
    BY <1>1 DEF GoodStream, GoodBox
  <1>4. L = Len(boxes)
    OBVIOUS
  <1> HIDE DEF L, more
  <1>5. r \in 1 .. Len(more)
    BY <1>1, <1>2
  <1>6. o2[r] = o[r] /\ more[r] = boxes[r]
    BY <1>1, <1>2, <1>4
  <1>7. At(q, r, more, o2, label, len, got)
    BY <1>2, <1>3, <1>5, <1>6 DEF At
  <1> QED  BY <1>7 DEF more

(* What is read next, and where the reader is then. *)
ThenAt(q, r, boxes, o, key, label, len, got) ==
  LET box == boxes[r + 1] IN
  /\ box.intact /\ box.key = key /\ box.nonce = r
  /\ label \in {"variable", "payload"} =>
       /\ At(q, r + 1, boxes, o, "length", 2, got \o box.bytes)
       /\ box.len = len
       /\ label = "variable" /\ q[2] = "c2s" => VariableHeaderOk(box)
  /\ label = "length" =>
       /\ At(q, r + 1, boxes, o, "payload", box.n[1], got)
       /\ box.len = 2 /\ box.n[1] # 0

(* The box behind those that were read is the one the reader expects. *)
LEMMA AtNext ==
  ASSUME NEW q \in Pairs, NEW boxes, NEW L \in Nat, L = Len(boxes), NEW o \in [Nat -> Nat], NEW key, NEW salt,
         GoodStream(q, boxes, o, key, salt),
         NEW r, NEW label, NEW len, NEW got, At(q, r, boxes, o, label, len, got), r < L
  PROVE  ThenAt(q, r, boxes, o, key, label, len, got)
  <1>1. r \in 1 .. L /\ GoodBox(q, boxes, o, key, salt, r)
    BY DEF At, GoodStream
  <1>2. r \in Nat /\ r + 1 \in 1 .. L /\ (r + 1) - 1 = r /\ r + 1 > 1 /\ r + 1 # 1 /\ (r + 1 = 2 <=> r = 1)
    BY <1>1
  <1>3. GoodBox(q, boxes, o, key, salt, r + 1)
    BY <1>2 DEF GoodStream
  <1>4. IsHead(boxes[r + 1]) <=> ~IsHead(boxes[r])
    BY <1>1 DEF GoodBox
  <1>5. o[r] \in Nat /\ o[r + 1] \in Nat /\ o[r] <= o[r + 1] /\ boxes[r + 1].bytes = Bytes(q[1], q[2], o[r] + 1, o[r + 1])
    BY <1>2, <1>3 DEF GoodBox
  <1>6. q[1] \in Sessions /\ q[2] \in Dirs
    BY DEF Pairs
  <1>7. got = Bytes(q[1], q[2], 1, o[r])
    BY DEF At
  <1>8. CASE label \in {"variable", "payload"}
    <2>1. IsHead(boxes[r]) /\ len = boxes[r + 1].len /\ (label = "variable" => r = 1)
      BY <1>8 DEF At
    <2>2. got \o boxes[r + 1].bytes = Bytes(q[1], q[2], 1, o[r + 1])
      <3>1. Bytes(q[1], q[2], 1, o[r]) \o Bytes(q[1], q[2], o[r] + 1, o[r + 1]) = Bytes(q[1], q[2], 1, o[r + 1])
        BY <1>5, <1>6, BytesConcat
      <3> QED  BY <1>5, <1>7, <3>1, Zenon
    <2>3. At(q, r + 1, boxes, o, "length", 2, got \o boxes[r + 1].bytes)
      BY <1>2, <1>4, <2>1, <2>2 DEF At
    <2> QED  BY <1>2, <1>3, <1>8, <2>1, <2>3 DEF GoodBox, ThenAt
  <1>9. CASE label = "length"
    <2>1. IsHead(boxes[r + 1])
      BY <1>4, <1>9 DEF At
    <2>2. /\ o[r + 1] = o[r] /\ r + 1 < L /\ boxes[r + 1].n[1] = boxes[r + 1 + 1].len /\ boxes[r + 1].n[1] # 0
          /\ boxes[r + 1].len = 2
      BY <1>2, <1>3, <2>1 DEF GoodBox, HeadLen
    <2>3. At(q, r + 1, boxes, o, "payload", boxes[r + 1].n[1], got)
      BY <1>2, <1>7, <2>1, <2>2 DEF At
    <2> QED  BY <1>2, <1>3, <1>9, <2>2, <2>3 DEF GoodBox, ThenAt
  <1>10. CASE label \notin {"variable", "payload", "length"}
    BY <1>2, <1>3, <1>10 DEF GoodBox, ThenAt
  <1> QED  BY <1>8, <1>9, <1>10

(* The first box of a stream. *)
FirstAt(q, boxes, o, key, salt, label) ==
  /\ boxes[1].intact /\ boxes[1].key = key /\ boxes[1].nonce = 0 /\ boxes[1].salt = salt
  /\ boxes[1].len = HeadLen(q, 1)
  /\ At(q, 1, boxes, o, label, boxes[1].n[1], <<>>)

(* So is the first box, for a reader that has read none. *)
LEMMA AtFirst ==
  ASSUME NEW q \in Pairs, NEW boxes, NEW L \in Nat, L = Len(boxes), L # 0, NEW o \in [Nat -> Nat], NEW key, NEW salt,
         GoodStream(q, boxes, o, key, salt),
         NEW label \in {"variable", "payload"}
  PROVE  FirstAt(q, boxes, o, key, salt, label)
  <1>1. 1 \in 1 .. L /\ 1 - 1 = 0
    OBVIOUS
  <1>2. GoodBox(q, boxes, o, key, salt, 1) /\ IsHead(boxes[1]) /\ o[0] = 0
    BY <1>1 DEF GoodStream
  <1>3. o[1] = 0 /\ boxes[1].n[1] = boxes[1 + 1].len
    BY <1>1, <1>2 DEF GoodBox
  <1>4. Bytes(q[1], q[2], 1, o[1]) = <<>>
    BY <1>3 DEF Bytes
  <1>5. At(q, 1, boxes, o, label, boxes[1].n[1], <<>>)
    BY <1>1, <1>2, <1>3, <1>4 DEF At
  <1> QED  BY <1>1, <1>2, <1>5 DEF GoodBox, FirstAt

(* A reader that stops. *)
LEMMA AtStops ==
  ASSUME NEW q, NEW r, NEW boxes, NEW o, NEW label, NEW len, NEW got, At(q, r, boxes, o, label, len, got),
         NEW l \in {"eof", "failed"}
  PROVE  At(q, r, boxes, o, l, len, got)
  BY DEF At

-----------------------------------------------------------------------------
(* What a step leaves alone *)

(* What was sealed, and the requests that were accepted. *)
Kept ==
  /\ log' = log /\ wNonce' = wNonce /\ sent' = sent /\ psk' = psk
  /\ \A s \in Sessions : peer[s] # None => peer'[s] = peer[s]

SameReader(p) ==
  /\ rpc'[p] = rpc[p] /\ rKey'[p] = rKey[p] /\ rNonce'[p] = rNonce[p] /\ rLen'[p] = rLen[p]
  /\ delivered'[p] = delivered[p]

(* What a pair is. *)
LEMMA PairsAre ==
  ASSUME NEW p \in Pairs
  PROVE  p[1] \in Sessions /\ p[2] \in Dirs /\ p = <<p[1], p[2]>>
  BY DEF Pairs

(* A session and a direction are a pair. *)
LEMMA PairIn ==
  ASSUME NEW s \in Sessions, NEW d \in Dirs
  PROVE  <<s, d>> \in Pairs /\ <<s, d>>[1] = s /\ <<s, d>>[2] = d
  BY DEF Pairs

(* There are two directions. *)
LEMMA DirsAre == "c2s" \in Dirs /\ "s2c" \in Dirs /\ \A d \in Dirs : d = "c2s" \/ d = "s2c"
  BY DEF Dirs

(* A stream that has begun keeps its key and its salt. *)
LEMMA KeyKept ==
  ASSUME Served, Kept, NEW p \in Pairs, Len(log[p]) # 0
  PROVE  Key(p)' = Key(p) /\ FirstSalt(p)' = FirstSalt(p)
  <1>1. CASE p[2] = "c2s"
    BY <1>1 DEF Key, FirstSalt, Kept
  <1>2. CASE p[2] # "c2s"
    <2>1. p[1] \in Sessions /\ p = <<p[1], "s2c">>
      BY <1>2, PairsAre, DirsAre
    <2>2. peer[p[1]] # None
      BY <2>1 DEF Served
    <2>3. peer'[p[1]] = peer[p[1]]
      BY <2>1, <2>2 DEF Kept
    <2> QED  BY <1>2, <2>3 DEF Key, FirstSalt
  <1> QED  BY <1>1, <1>2

(* A stream without boxes may still be sealed with any key. *)
LEMMA EmptyGood ==
  ASSUME NEW p, NEW boxes, Len(boxes) = 0, NEW o, NEW key, NEW salt, GoodStream(p, boxes, o, key, salt), NEW k, NEW t
  PROVE  GoodStream(p, boxes, o, k, t)
  BY DEF GoodStream

(* What was sealed stays sealed when no writer writes. *)
LEMMA SealedKept ==
  ASSUME Served, Kept, NEW off, NEW p \in Pairs, Sealed(p, off)
  PROVE  Sealed(p, off)'
  <1>1. log'[p] = log[p] /\ wNonce'[p] = wNonce[p] /\ sent'[p] = sent[p]
    BY DEF Kept
  <1>2. GoodStream(p, log[p], off[p], Key(p)', FirstSalt(p)')
    <2>1. GoodStream(p, log[p], off[p], Key(p), FirstSalt(p))
      BY DEF Sealed
    <2>2. CASE Len(log[p]) = 0
      BY <2>1, <2>2, EmptyGood
    <2>3. CASE Len(log[p]) # 0
      BY <2>1, <2>3, KeyKept
    <2> QED  BY <2>2, <2>3
  <1>3. /\ wNonce[p] = IF Len(log[p]) = 0 THEN -1 ELSE Len(log[p])
        /\ sent[p] = off[p][Len(log[p])]
    BY DEF Sealed
  <1> QED  BY <1>1, <1>2, <1>3 DEF Sealed

(* A reader has something to read only in a stream that has begun. *)
LEMMA AtBegun ==
  ASSUME NEW q, NEW r, NEW boxes, NEW o, NEW label, NEW len, NEW got, At(q, r, boxes, o, label, len, got)
  PROVE  Len(boxes) # 0
  BY DEF At

(* A reader that does nothing stays where it is. *)
LEMMA ReceivedKept ==
  ASSUME Types, Served, Kept, NEW off, NEW p \in Pairs, Received(p, off), SameReader(p)
  PROVE  Received(p, off)'
  <1>1. /\ rpc'[p] = rpc[p] /\ rKey'[p] = rKey[p] /\ rNonce'[p] = rNonce[p] /\ rLen'[p] = rLen[p]
        /\ delivered'[p] = delivered[p]
    BY DEF SameReader
  <1>2. ASSUME rKey[p] # None
        PROVE  \E s \in Sessions : ReaderOf(p, s, off)'
    <2>1. PICK s \in Sessions : ReaderOf(p, s, off)
      BY <1>2 DEF Received
    <2> DEFINE q == <<s, p[2]>>
    <2>2. q \in Pairs
      BY PairIn, PairsAre
    <2>3. At(q, rNonce[p], log[q], off[q], rpc[p], rLen[p], delivered[p])
      BY <2>1 DEF ReaderOf
    <2>4. Len(log[q]) # 0
      BY <2>3, AtBegun
    <2>5. Key(q)' = Key(q)
      BY <2>2, <2>4, KeyKept
    <2>6. At(q, rNonce[p], log[q], off[q], rpc[p], rLen[p], delivered[p])'
      BY <1>1, <2>3 DEF Kept
    <2>7. p[2] = "s2c" => peer'[s] = <<psk'[p[1]], <<p[1], "c2s">>>>
      <3>1. p[2] = "s2c" => peer[s] = <<psk[p[1]], <<p[1], "c2s">>>>
        BY <2>1 DEF ReaderOf
      <3>2. p[2] = "s2c" => peer[s] # None
        BY <3>1, SMTT(20) DEF None
      <3> QED  BY <3>1, <3>2 DEF Kept
    <2>8. rKey'[p] = Key(q)'
      BY <1>1, <2>1, <2>5 DEF ReaderOf
    <2>9. ReaderOf(p, s, off)'
      BY <2>6, <2>7, <2>8 DEF ReaderOf
    <2> QED  BY <2>9
  <1>3. /\ rpc[p] = "header" => rKey[p] = None
        /\ rKey[p] = None => rpc[p] \in {"header", "eof", "failed"} /\ rNonce[p] = 0 /\ delivered[p] = <<>>
        /\ rpc[p] = "variable" => p[2] = "c2s"
    BY DEF Received
  <1> QED  BY <1>1, <1>2, <1>3 DEF Received

(* All streams and readers but the reader p. *)
LEMMA StreamsKept ==
  ASSUME Types, Served, Kept, NEW off, Streams(off), NEW p \in Pairs,
         \A q \in Pairs : q # p => SameReader(q), Received(p, off)'
  PROVE  Streams(off)'
  <1>1. \A q \in Pairs : Sealed(q, off)'
    BY SealedKept DEF Streams
  <1>2. ASSUME NEW q \in Pairs PROVE Received(q, off)'
    <2>1. CASE q = p
      BY <2>1
    <2>2. CASE q # p
      <3>1. SameReader(q) /\ Received(q, off)
        BY <2>2 DEF Streams
      <3> QED  BY <3>1, ReceivedKept
    <2> QED  BY <2>1, <2>2
  <1> QED  BY <1>1, <1>2 DEF Streams

(* The streams and the readers when no reader reads. *)
LEMMA StreamsSame ==
  ASSUME Types, Served, Kept, NEW off, Streams(off), \A q \in Pairs : SameReader(q)
  PROVE  Streams(off)'
  <1>1. \A q \in Pairs : Sealed(q, off)'
    BY SealedKept DEF Streams
  <1>2. ASSUME NEW q \in Pairs PROVE Received(q, off)'
    <2>1. SameReader(q) /\ Received(q, off)
      BY DEF Streams
    <2> QED  BY <2>1, ReceivedKept
  <1> QED  BY <1>1, <1>2 DEF Streams

(* The box that is opened next is the next one of its stream. *)
LEMMA FindBox ==
  ASSUME NEW off, Streams(off), NEW p \in Pairs, Carried(p),
         path[p] \in Seq(Boxes), path[p] # <<>>, Head(path[p]).intact
  PROVE  \E t \in Sessions :
           LET q == <<t, p[2]>>
               j == Head(path[p]).nonce + 1 IN
           q \in Pairs /\ j \in 1 .. Len(log[q]) /\ Head(path[p]) = log[q][j] /\ Head(path[p]).key = Key(q)
  <1> DEFINE box == Head(path[p])
  <1>1. 1 \in 1 .. Len(path[p]) /\ box = path[p][1]
    OBVIOUS
  <1>2. PICK t \in Sessions : \E j \in 1 .. Len(log[<<t, p[2]>>]) : box = log[<<t, p[2]>>][j]
    BY <1>1, ZenonT(40) DEF Carried
  <1> DEFINE q == <<t, p[2]>>
  <1>3. PICK j \in 1 .. Len(log[q]) : box = log[q][j]
    BY <1>2
  <1>4. q \in Pairs
    BY PairsAre, PairIn
  <1>5. GoodBox(q, log[q], off[q], Key(q), FirstSalt(q), j)
    BY <1>4 DEF Streams, Sealed, GoodStream
  <1> HIDE DEF q, box
  <1>6. box.key = Key(q) /\ box.nonce = j - 1
    BY <1>3, <1>5 DEF GoodBox
  <1>7. box.nonce + 1 = j
    BY <1>6
  <1>8. box.nonce + 1 \in 1 .. Len(log[q]) /\ box = log[q][box.nonce + 1]
    BY <1>3, <1>7, Zenon
  <1> QED  BY <1>4, <1>6, <1>8 DEF q, box

(* Only the key of a stream itself opens its boxes. *)
LEMMA KeyOfOne ==
  ASSUME NEW s, NEW t, NEW d, Key(<<s, d>>) = Key(<<t, d>>)
  PROVE  s = t
  BY DEF Key

(* What a path has when its first box is taken. *)
LEMMA TailOf ==
  ASSUME NEW X, NEW s \in Seq(X), s # <<>>
  PROVE  /\ Tail(s) \in Seq(X) /\ Head(s) \in X
         /\ \A i \in 1 .. Len(Tail(s)) : i + 1 \in 1 .. Len(s) /\ Tail(s)[i] = s[i + 1]
  OBVIOUS

-----------------------------------------------------------------------------
(* Reading *)

(* A box is taken from the path of p. *)
TakenFrom(p) ==
  /\ path[p] # <<>> /\ path' = [path EXCEPT ![p] = Tail(@)]
  /\ UNCHANGED <<psk, excess, bufLen, wNonce, sent, log, open>>

(* What was carried is, when nothing is added to it. *)
LEMMA CarriedFrom ==
  ASSUME log' = log, NEW q, Carried(q),
         \A i \in 1 .. Len(path'[q]) : path'[q][i].intact => \E k \in 1 .. Len(path[q]) : path'[q][i] = path[q][k]
  PROVE  Carried(q)'
  <1>1. SUFFICES ASSUME NEW i \in 1 .. Len(path'[q]), path'[q][i].intact
                 PROVE  \E s \in Sessions : \E j \in 1 .. Len(log[<<s, q[2]>>]) : path'[q][i] = log[<<s, q[2]>>][j]
    BY DEF Carried
  <1>2. PICK k \in 1 .. Len(path[q]) : path'[q][i] = path[q][k]
    BY <1>1
  <1>3. path[q][k].intact
    BY <1>1, <1>2, Zenon
  <1>4. \E s \in Sessions : \E j \in 1 .. Len(log[<<s, q[2]>>]) : path[q][k] = log[<<s, q[2]>>][j]
    BY <1>3 DEF Carried
  <1> QED  BY <1>2, <1>4, Zenon

(* A path that stays as it is carries what it carried. *)
LEMMA CarriedSame ==
  ASSUME log' = log, NEW q, path'[q] = path[q], Carried(q)
  PROVE  Carried(q)'
  <1>1. ASSUME NEW i \in 1 .. Len(path'[q]) PROVE \E k \in 1 .. Len(path[q]) : path'[q][i] = path[q][k]
    <2>1. i \in 1 .. Len(path[q]) /\ path'[q][i] = path[q][i]
      BY Zenon
    <2> QED  BY <2>1, Zenon
  <1> QED  BY <1>1, CarriedFrom

(* When a box is taken, the paths carry nothing new. *)
LEMMA TakenCarried ==
  ASSUME Types, \A p \in Pairs : Carried(p), NEW p \in Pairs, TakenFrom(p)
  PROVE  /\ path' \in [Pairs -> Seq(Boxes)] /\ path'[p] = Tail(path[p]) /\ \A q \in Pairs : q # p => path'[q] = path[q]
         /\ \A q \in Pairs : Carried(q)'
  <1>1. path \in [Pairs -> Seq(Boxes)] /\ path[p] # <<>> /\ path' = [path EXCEPT ![p] = Tail(@)] /\ log' = log
    BY DEF Types, TakenFrom
  <1>2. path[p] \in Seq(Boxes)
    BY <1>1
  <1>3. /\ Tail(path[p]) \in Seq(Boxes)
        /\ \A i \in 1 .. Len(Tail(path[p])) : i + 1 \in 1 .. Len(path[p]) /\ Tail(path[p])[i] = path[p][i + 1]
    BY <1>1, <1>2, TailOf
  <1>4. /\ path' \in [Pairs -> Seq(Boxes)] /\ path'[p] = Tail(path[p]) /\ \A q \in Pairs : q # p => path'[q] = path[q]
    BY <1>1, <1>3
  <1>5. ASSUME NEW q \in Pairs PROVE Carried(q)'
    <2>1. CASE q = p
      <3>1. ASSUME NEW i \in 1 .. Len(path'[q]) PROVE \E k \in 1 .. Len(path[q]) : path'[q][i] = path[q][k]
        BY <1>3, <1>4, <2>1
      <3> QED  BY <1>1, <3>1, CarriedFrom
    <2>2. CASE q # p
      <3>1. path'[q] = path[q] /\ Carried(q)
        BY <1>4, <2>2
      <3> QED  BY <1>1, <3>1, CarriedSame
    <2> QED  BY <2>1, <2>2
  <1> QED  BY <1>4, <1>5

(* Taking a box leaves what was sealed as it was. *)
LEMMA TakenKept ==
  ASSUME NEW p, TakenFrom(p), UNCHANGED peer
  PROVE  Kept
  BY DEF TakenFrom, Kept

(* Reading fails. *)
LEMMA FailStreams ==
  ASSUME Types, Served, NEW off, Streams(off), NEW s \in Sessions, NEW d \in Dirs, TakenFrom(<<s, d>>), GivesUp(s, d)
  PROVE  Streams(off)'
  <1> DEFINE p == <<s, d>>
  <1>1. p \in Pairs
    BY PairIn
  <1>2. /\ rpc \in [Pairs -> {"header", "variable", "length", "payload", "eof", "failed"}]
        /\ rpc' = [rpc EXCEPT ![p] = "failed"] /\ UNCHANGED <<rKey, rNonce, rLen, delivered, peer>>
    BY DEF Types, GivesUp
  <1>3. Kept
    BY <1>2, TakenKept
  <1> HIDE DEF p
  <1>4. \A q \in Pairs : q # p => SameReader(q)
    BY <1>1, <1>2 DEF SameReader
  <1>5. rpc'[p] = "failed"
    BY <1>1, <1>2
  <1>6. Received(p, off)
    BY <1>1 DEF Streams
  <1>7. ASSUME rKey[p] # None
        PROVE  \E t \in Sessions : ReaderOf(p, t, off)'
    <2>1. PICK t \in Sessions : ReaderOf(p, t, off)
      BY <1>6, <1>7 DEF Received
    <2> DEFINE q == <<t, p[2]>>
    <2>2. At(q, rNonce[p], log[q], off[q], rpc[p], rLen[p], delivered[p])
      BY <2>1 DEF ReaderOf
    <2>3. At(q, rNonce[p], log[q], off[q], "failed", rLen[p], delivered[p])
      BY <2>2, AtStops
    <2>4. At(q, rNonce[p], log[q], off[q], rpc[p], rLen[p], delivered[p])'
      BY <1>2, <1>3, <1>5, <2>3 DEF Kept
    <2>5. Key(q)' = Key(q)
      BY <1>2, <1>3 DEF Key, Kept
    <2>6. ReaderOf(p, t, off)'
      BY <1>2, <1>3, <2>1, <2>4, <2>5 DEF ReaderOf, Kept
    <2> QED  BY <2>6
  <1>8. Received(p, off)'
    BY <1>2, <1>5, <1>6, <1>7 DEF Received
  <1> QED  BY <1>1, <1>3, <1>4, <1>8, StreamsKept

(* The reader goes on with key and label. *)
Moves(s, d, key, nonce, label, len, got) ==
  Advance(s, d, key, nonce, label, len) /\ delivered' = [delivered EXCEPT ![<<s, d>>] = got]

(* It reads the stream of t. *)
MovesTo(s, d, t, off, key, nonce, label, len, got) ==
  LET q == <<t, d>> IN
  /\ Moves(s, d, key, nonce, label, len, got) /\ key = Key(q) /\ key # None
  /\ label \in {"variable", "length", "payload"} /\ (label = "variable" => d = "c2s")
  /\ At(q, nonce + 1, log[q], off[q], label, len, got)
  /\ d = "s2c" => peer[t] = <<psk[s], <<s, "c2s">>>>

(* A reader that goes on with a stream is where the invariant says. *)
LEMMA ReadStreams ==
  ASSUME Types, Served, NEW off, Streams(off), NEW s \in Sessions, NEW d \in Dirs, Kept,
         NEW key, NEW nonce, NEW label, NEW len, NEW got,
         NEW t \in Sessions, MovesTo(s, d, t, off, key, nonce, label, len, got)
  PROVE  Streams(off)'
  <1> DEFINE p == <<s, d>>
             q == <<t, d>>
  <1>m. /\ Moves(s, d, key, nonce, label, len, got) /\ key = Key(q) /\ key # None
        /\ label \in {"variable", "length", "payload"} /\ (label = "variable" => d = "c2s")
        /\ At(q, nonce + 1, log[q], off[q], label, len, got)
        /\ d = "s2c" => peer[t] = <<psk[s], <<s, "c2s">>>>
    BY DEF MovesTo
  <1>1. p \in Pairs /\ q \in Pairs /\ p[1] = s /\ p[2] = d
    BY PairIn
  <1>2. /\ rpc' = [rpc EXCEPT ![p] = label] /\ rKey' = [rKey EXCEPT ![p] = key]
        /\ rNonce' = [rNonce EXCEPT ![p] = nonce + 1] /\ rLen' = [rLen EXCEPT ![p] = len]
        /\ delivered' = [delivered EXCEPT ![p] = got]
    BY <1>m DEF Moves, Advance, NextNonce
  <1>3. /\ DOMAIN rpc = Pairs /\ DOMAIN rKey = Pairs /\ DOMAIN rNonce = Pairs /\ DOMAIN rLen = Pairs
        /\ DOMAIN delivered = Pairs
    BY DEF Types
  <1>4. /\ rpc'[p] = label /\ rKey'[p] = key /\ rNonce'[p] = nonce + 1 /\ rLen'[p] = len /\ delivered'[p] = got
        /\ \A x \in Pairs : x # p => SameReader(x)
    BY <1>1, <1>2, <1>3 DEF SameReader
  <1>5. Len(log[q]) # 0
    BY <1>m, AtBegun
  <1>6. Key(q)' = Key(q)
    BY <1>1, <1>5, KeyKept
  <1>7. At(q, nonce + 1, log'[q], off[q], label, len, got)
    BY <1>m DEF Kept
  <1>8. d = "s2c" => peer'[t] = <<psk'[s], <<s, "c2s">>>>
    <2>1. d = "s2c" => peer[t] # None
      BY <1>m DEF None
    <2> QED  BY <1>m, <2>1 DEF Kept
  <1>9. ReaderOf(p, t, off)'
    BY <1>1, <1>m, <1>4, <1>6, <1>7, <1>8 DEF ReaderOf
  <1>10. Received(p, off)'
    BY <1>1, <1>m, <1>4, <1>9 DEF Received
  <1> QED  BY <1>1, <1>4, <1>10, StreamsKept

(* What a reader has read is of its type. *)
LEMMA AtTypes ==
  ASSUME NEW q \in Pairs, NEW r, NEW boxes, Len(boxes) \in Nat, NEW o \in [Nat -> Nat],
         NEW label, NEW len, NEW got, At(q, r, boxes, o, label, len, got)
  PROVE  r \in Nat /\ r \in 1 .. Len(boxes) /\ got \in Seq(Plain)
  <1>1. r \in Nat /\ r \in 1 .. Len(boxes) /\ got = Bytes(q[1], q[2], 1, o[r])
    BY DEF At
  <1>2. o[r] \in Nat
    BY <1>1
  <1>3. Bytes(q[1], q[2], 1, o[r]) \in Seq(Plain)
    BY <1>2, PairsAre, FirstBytes DEF Plain
  <1> QED  BY <1>1, <1>3

(* Headers and length chunks have a length. *)
LEMMA HeadN ==
  ASSUME NEW box \in Boxes, IsHead(box)
  PROVE  box.n[1] \in Nat
  BY DEF Boxes, IsHead

(* The types for one pair. *)
LEMMA LogTypes ==
  ASSUME Types, NEW off \in Offsets, NEW q \in Pairs
  PROVE  /\ log[q] \in Seq(Boxes) /\ Len(log[q]) \in Nat /\ path[q] \in Seq(Boxes) /\ off[q] \in [Nat -> Nat]
         /\ rNonce[q] \in Nat /\ rLen[q] \in Nat /\ delivered[q] \in Seq(Plain)
         /\ rpc[q] \in {"header", "variable", "length", "payload", "eof", "failed"}
         /\ rKey[q] \in (PSKs \X Pairs) \cup {None}
  <1>1. log[q] \in Seq(Boxes) /\ path[q] \in Seq(Boxes)
    BY DEF Types
  <1>2. Len(log[q]) \in Nat
    BY <1>1
  <1> QED  BY <1>1, <1>2 DEF Types, Offsets

(* What the box that is read next must be, and where the reader is then. *)
Follows(p, t, off, box) ==
  LET q == <<t, p[2]>> IN
  /\ box.intact /\ box.key = rKey[p] /\ box.nonce = rNonce[p]
  /\ rpc[p] \in {"variable", "payload"} =>
       /\ At(q, rNonce[p] + 1, log[q], off[q], "length", 2, delivered[p] \o box.bytes)
       /\ box.len = rLen[p]
       /\ rpc[p] = "variable" => VariableHeaderOk(box)
  /\ rpc[p] = "length" =>
       /\ At(q, rNonce[p] + 1, log[q], off[q], "payload", box.n[1], delivered[p])
       /\ box.len = 2 /\ box.n[1] # 0 /\ box.n[1] \in Nat

(* The next box of the stream that p reads is one it accepts. *)
LEMMA ReaderFollows ==
  ASSUME Types, NEW off \in Offsets, Streams(off), NEW p \in Pairs, NEW t \in Sessions, ReaderOf(p, t, off),
         rpc[p] = "variable" => p[2] = "c2s",
         rNonce[p] < Len(log[<<t, p[2]>>])
  PROVE  Follows(p, t, off, log[<<t, p[2]>>][rNonce[p] + 1])
  <1> DEFINE q == <<t, p[2]>>
             L == Len(log[q])
             r == rNonce[p]
             B == log[q]
             o == off[q]
             box == B[r + 1]
  <1>1. q \in Pairs /\ q[2] = p[2]
    BY PairsAre, PairIn
  <1>2. L \in Nat /\ L = Len(B) /\ o \in [Nat -> Nat] /\ B \in Seq(Boxes) /\ r \in Nat
    BY <1>1, LogTypes
  <1>3. GoodStream(q, B, o, Key(q), FirstSalt(q))
    BY <1>1 DEF Streams, Sealed
  <1>4. At(q, r, B, o, rpc[p], rLen[p], delivered[p]) /\ rKey[p] = Key(q)
    BY DEF ReaderOf
  <1>5. r < L
    OBVIOUS
  <1> HIDE DEF q, L, r, B, o
  <1>6. /\ box.intact /\ box.key = Key(q) /\ box.nonce = r
        /\ rpc[p] \in {"variable", "payload"} =>
             /\ At(q, r + 1, B, o, "length", 2, delivered[p] \o box.bytes)
             /\ box.len = rLen[p]
             /\ rpc[p] = "variable" /\ q[2] = "c2s" => VariableHeaderOk(box)
        /\ rpc[p] = "length" =>
             /\ At(q, r + 1, B, o, "payload", box.n[1], delivered[p])
             /\ box.len = 2 /\ box.n[1] # 0
    <2>1. ThenAt(q, r, B, o, Key(q), rpc[p], rLen[p], delivered[p])
      BY <1>1, <1>2, <1>3, <1>4, <1>5, AtNext
    <2> QED  BY <2>1, Zenon DEF ThenAt
  <1>7. box \in Boxes
    <2>1. r + 1 \in 1 .. Len(B)
      BY <1>2, <1>5
    <2> QED  BY <1>2, <2>1, ElementOfSeq
  <1> HIDE DEF box
  <1>8. rpc[p] = "length" => box.n[1] \in Nat
    <2>1. rpc[p] = "length" => IsHead(B[r + 1])
      BY <1>6 DEF At
    <2> QED  BY <1>7, <2>1, HeadN DEF box
  <1>9. Follows(p, t, off, box)
    BY <1>1, <1>4, <1>6, <1>8 DEF Follows, q, r, B, o
  <1> QED  BY <1>9 DEF box, B, q, r

(* Whatever the path did, a box that opens is the one that follows. *)
LEMMA OpenedFollows ==
  ASSUME Types, NEW off \in Offsets, Streams(off), NEW p \in Pairs, Carried(p), path[p] # <<>>,
         rpc[p] \in {"variable", "length", "payload"},
         Head(path[p]).intact, Head(path[p]).key = rKey[p], Head(path[p]).nonce = rNonce[p]
  PROVE  rKey[p] # None /\ \E t \in Sessions : ReaderOf(p, t, off) /\ Follows(p, t, off, Head(path[p]))
  <1>1. rKey[p] # None /\ (rpc[p] = "variable" => p[2] = "c2s")
    BY DEF Streams, Received
  <1>2. PICK t \in Sessions : ReaderOf(p, t, off)
    BY <1>1 DEF Streams, Received
  <1> DEFINE box == Head(path[p])
  <1>3. PICK u \in Sessions :
          LET q == <<u, p[2]>>
              j == Head(path[p]).nonce + 1 IN
          q \in Pairs /\ j \in 1 .. Len(log[q]) /\ Head(path[p]) = log[q][j] /\ Head(path[p]).key = Key(q)
    BY FindBox, LogTypes
  <1>4. u = t
    <2>1. Key(<<u, p[2]>>) = Key(<<t, p[2]>>)
      BY <1>2, <1>3 DEF ReaderOf
    <2> QED  BY <2>1, KeyOfOne
  <1>5. rNonce[p] + 1 \in 1 .. Len(log[<<t, p[2]>>]) /\ Head(path[p]) = log[<<t, p[2]>>][rNonce[p] + 1]
    BY <1>3, <1>4
  <1>6. <<t, p[2]>> \in Pairs
    BY PairsAre, PairIn
  <1>7. rNonce[p] < Len(log[<<t, p[2]>>])
    <2>1. rNonce[p] \in Nat /\ Len(log[<<t, p[2]>>]) \in Nat
      BY <1>6, LogTypes
    <2> QED  BY <1>5, <2>1
  <1>8. Follows(p, t, off, log[<<t, p[2]>>][rNonce[p] + 1])
    BY <1>1, <1>2, <1>7, ReaderFollows
  <1> QED  BY <1>1, <1>2, <1>5, <1>8

(* On a quiet path the box that follows is there. *)
LEMMA QuietFollows ==
  ASSUME Types, NEW off \in Offsets, Streams(off), NEW p \in Pairs, Quiet(p), path[p] # <<>>,
         rpc[p] \in {"variable", "length", "payload"}
  PROVE  \E t \in Sessions : ReaderOf(p, t, off) /\ Follows(p, t, off, Head(path[p]))
  <1>1. rKey[p] # None /\ (rpc[p] = "variable" => p[2] = "c2s") /\ rpc[p] # "failed"
    BY DEF Streams, Received
  <1>2. PICK t \in Sessions : ReaderOf(p, t, off)
    BY <1>1 DEF Streams, Received
  <1>3. <<t, p[2]>> = p
    <2>1. rKey[p][2] = p
      BY <1>1 DEF Quiet
    <2>2. rKey[p][2] = <<t, p[2]>>
      BY <1>2 DEF ReaderOf, Key
    <2> QED  BY <2>1, <2>2
  <1>4. path[p] = SubSeq(log[p], rNonce[p] + 1, Len(log[p]))
    BY <1>1 DEF Quiet
  <1>5. log[p] \in Seq(Boxes) /\ rNonce[p] \in Nat
    BY LogTypes
  <1>6. rNonce[p] < Len(log[p])
    BY <1>4, <1>5, RestEmpty
  <1>7. Head(path[p]) = log[p][rNonce[p] + 1]
    BY <1>4, <1>5, <1>6, RestIs
  <1>8. Follows(p, t, off, log[p][rNonce[p] + 1])
    BY <1>1, <1>2, <1>3, <1>6, ReaderFollows
  <1> QED  BY <1>2, <1>7, <1>8

(* The salts that leave the pool are those it forgets. *)
PoolCleaned ==
  pool' \subseteq pool /\ forgotten \subseteq forgotten' /\ pool \cup forgotten \subseteq pool' \cup forgotten'

LEMMA PoolStays ==
  ASSUME UNCHANGED <<pool, forgotten>>
  PROVE  PoolCleaned
  BY DEF PoolCleaned

(* Requests stay accepted when no server accepts one. *)
LEMMA ServedKept ==
  ASSUME Served, log' = log, psk' = psk, UNCHANGED peer, PoolCleaned,
         \A s \in Sessions : rpc'[<<s, "c2s">>] = "header" => rpc[<<s, "c2s">>] = "header"
  PROVE  Served'
  BY DEF Served, ServedOnce, PoolCleaned

(* The excess payload stays when no client writes. *)
LEMMA ExcessKept ==
  ASSUME Excess, UNCHANGED <<excess, bufLen, log>>
  PROVE  Excess'
  BY DEF Excess, HasExcess

(* Reading that fails leaves the types. *)
LEMMA FailTypes ==
  ASSUME Types, NEW s \in Sessions, NEW d \in Dirs, TakenFrom(<<s, d>>), GivesUp(s, d),
         path' \in [Pairs -> Seq(Boxes)], faults' \in Nat
  PROVE  Types'
  BY DEF Types, TakenFrom, GivesUp

(* On a path without faults, reading fails only for want of a PSK. *)
LEMMA QuietFail ==
  ASSUME Types, Undisturbed, NEW s \in Sessions, NEW d \in Dirs, TakenFrom(<<s, d>>), GivesUp(s, d), PoolCleaned,
         \A q \in Pairs : q # <<s, d>> => path'[q] = path[q],
         faults' = 0 => faults = 0 /\ ~Known(psk[s])
  PROVE  Undisturbed'
  <1> DEFINE p == <<s, d>>
  <1>1. SUFFICES ASSUME faults' = 0
                 PROVE  (\A q \in Pairs : Quiet(q)') /\ (\A x \in Sessions : Own(x)')
    BY DEF Undisturbed
  <1>2. /\ faults = 0 /\ ~Known(psk[s]) /\ (\A q \in Pairs : Quiet(q)) /\ (\A x \in Sessions : Own(x))
    BY <1>1 DEF Undisturbed
  <1>3. p \in Pairs /\ p[1] = s
    BY PairIn
  <1>4. /\ rpc' = [rpc EXCEPT ![p] = "failed"] /\ UNCHANGED <<rKey, rNonce, rLen, delivered, peer>>
        /\ UNCHANGED <<log, psk>> /\ DOMAIN rpc = Pairs /\ pool' \subseteq pool
    BY DEF GivesUp, TakenFrom, Types, PoolCleaned
  <1>5. \A x \in Sessions : Own(x)'
    BY <1>2, <1>4 DEF Own
  <1>6. ASSUME NEW q \in Pairs PROVE Quiet(q)'
    <2>1. Known(psk'[s]) <=> Known(psk[s])
      BY <1>4 DEF Known
    <2>2. CASE q = p
      BY <1>2, <1>3, <1>4, <2>1, <2>2 DEF Quiet
    <2>3. CASE q # p
      <3>1. rpc'[q] = rpc[q] /\ path'[q] = path[q] /\ Quiet(q)
        BY <1>2, <1>4, <2>3
      <3>2. Known(psk'[q[1]]) <=> Known(psk[q[1]])
        BY <1>4 DEF Known
      <3> QED  BY <1>4, <3>1, <3>2 DEF Quiet
    <2> QED  BY <2>2, <2>3
  <1> QED  BY <1>5, <1>6

(* A reader that fails. *)
LEMMA ReaderGivesUp ==
  ASSUME IInv, NEW s \in Sessions, NEW d \in Dirs, TakenFrom(<<s, d>>), GivesUp(s, d), PoolCleaned, faults' \in Nat,
         faults' = 0 => faults = 0 /\ ~Known(psk[s])
  PROVE  IInv'
  <1> DEFINE p == <<s, d>>
  <1>1. p \in Pairs
    BY PairIn
  <1>2. Types /\ Served /\ Excess /\ Undisturbed /\ \A q \in Pairs : Carried(q)
    BY DEF IInv
  <1>3. /\ path' \in [Pairs -> Seq(Boxes)] /\ (\A q \in Pairs : q # p => path'[q] = path[q])
        /\ \A q \in Pairs : Carried(q)'
    BY <1>1, <1>2, TakenCarried
  <1>4. Types'
    BY <1>2, <1>3, FailTypes
  <1>5. Undisturbed'
    BY <1>2, <1>3, QuietFail
  <1>6. \E off \in Offsets : Streams(off)'
    <2>1. PICK off \in Offsets : Streams(off)
      BY DEF IInv
    <2>2. Streams(off)'
      BY <1>2, <2>1, FailStreams
    <2> QED  BY <2>2
  <1>7. Served'
    <2>1. \A x \in Sessions : rpc'[<<x, "c2s">>] = "header" => rpc[<<x, "c2s">>] = "header"
      BY <1>2, PairIn, DirsAre DEF GivesUp, Types
    <2>2. log' = log /\ psk' = psk /\ UNCHANGED peer
      BY DEF GivesUp, TakenFrom
    <2> QED  BY <1>2, <2>1, <2>2, ServedKept
  <1>8. Excess'
    BY <1>2, ExcessKept DEF TakenFrom
  <1>9. (\E off \in Offsets : Streams(off))'
    BY <1>6 DEF Offsets
  <1> QED  BY <1>3, <1>4, <1>5, <1>7, <1>8, <1>9 DEF IInv

LEMMA Fails ==
  ASSUME IInv, NEW s \in Sessions, NEW d \in Dirs, TakenFrom(<<s, d>>), Fail(s, d), faults' \in Nat,
         faults' = 0 => faults = 0 /\ ~Known(psk[s])
  PROVE  IInv'
  <1>1. GivesUp(s, d) /\ PoolCleaned
    BY PoolStays DEF Fail
  <1> QED  BY <1>1, ReaderGivesUp

(* On a path without faults, what is read is taken from what is left. *)
LEMMA QuietRead ==
  ASSUME Types, Undisturbed, NEW s \in Sessions, NEW d \in Dirs, TakenFrom(<<s, d>>),
         path'[<<s, d>>] = Tail(path[<<s, d>>]), \A q \in Pairs : q # <<s, d>> => path'[q] = path[q],
         NEW key, NEW nonce, NEW label, NEW len, Advance(s, d, key, nonce, label, len),
         label # "failed", rpc[<<s, d>>] # "failed", faults' = faults,
         faults = 0 => nonce = rNonce[<<s, d>>] /\ key[2] = <<s, d>> /\ \A x \in Sessions : Own(x)'
  PROVE  Undisturbed'
  <1> DEFINE p == <<s, d>>
             r == rNonce[p]
  <1>1. SUFFICES ASSUME faults' = 0
                 PROVE  (\A q \in Pairs : Quiet(q)') /\ (\A x \in Sessions : Own(x)')
    BY DEF Undisturbed
  <1>2. /\ faults = 0 /\ (\A q \in Pairs : Quiet(q)) /\ nonce = r /\ key[2] = p /\ \A x \in Sessions : Own(x)'
    BY <1>1 DEF Undisturbed
  <1>3. p \in Pairs /\ p[1] = s
    BY PairIn
  <1>4. /\ rpc' = [rpc EXCEPT ![p] = label] /\ rKey' = [rKey EXCEPT ![p] = key]
        /\ rNonce' = [rNonce EXCEPT ![p] = nonce + 1]
        /\ UNCHANGED <<log, psk>> /\ DOMAIN rpc = Pairs /\ DOMAIN rKey = Pairs /\ DOMAIN rNonce = Pairs
    BY DEF Advance, NextNonce, TakenFrom, Types
  <1>5. rpc'[p] = label /\ rKey'[p] = key /\ rNonce'[p] = r + 1
    BY <1>2, <1>3, <1>4
  <1>6. ASSUME NEW q \in Pairs PROVE Quiet(q)'
    <2>1. CASE q = p
      <3>1. path[p] = SubSeq(log[p], r + 1, Len(log[p])) /\ path[p] # <<>>
        BY <1>2, <1>3 DEF Quiet, TakenFrom
      <3>2. log[p] \in Seq(Boxes) /\ r \in Nat
        BY <1>3 DEF Types
      <3> HIDE DEF r, p
      <3>3. r < Len(log[p])
        BY <3>1, <3>2, RestEmpty
      <3>4. Tail(SubSeq(log[p], r + 1, Len(log[p]))) = SubSeq(log[p], r + 1 + 1, Len(log[p]))
        BY <3>2, <3>3, RestIs
      <3>5. path'[p] = SubSeq(log[p], r + 1 + 1, Len(log[p]))
        BY <3>1, <3>4 DEF p
      <3> QED  BY <1>2, <1>4, <1>5, <2>1, <3>5 DEF Quiet
    <2>2. CASE q # p
      <3>1. rpc'[q] = rpc[q] /\ rKey'[q] = rKey[q] /\ rNonce'[q] = rNonce[q] /\ path'[q] = path[q] /\ Quiet(q)
        BY <1>2, <1>4, <2>2
      <3>2. Known(psk'[q[1]]) <=> Known(psk[q[1]])
        BY <1>4 DEF Known
      <3> QED  BY <1>4, <3>1, <3>2 DEF Quiet
    <2> QED  BY <2>1, <2>2
  <1> QED  BY <1>2, <1>6

(* The reader p, which reads the stream of t, goes on with it. *)
MovesOn(p, t, off, label, len, got) ==
  LET q == <<t, p[2]>> IN
  /\ rKey[p] # None /\ rpc[p] # "failed" /\ Moves(p[1], p[2], rKey[p], rNonce[p], label, len, got)
  /\ At(q, rNonce[p] + 1, log[q], off[q], label, len, got)
  /\ UNCHANGED <<peer, pool, forgotten, faults>>

(* Reading leaves the types. *)
LEMMA ReadTypes ==
  ASSUME Types, NEW s \in Sessions, NEW d \in Dirs, TakenFrom(<<s, d>>),
         NEW key \in PSKs \X Pairs, NEW nonce \in Nat, NEW label \in {"variable", "length", "payload"}, NEW len \in Nat,
         NEW got \in Seq(Plain), Moves(s, d, key, nonce, label, len, got),
         path' \in [Pairs -> Seq(Boxes)], faults' \in Nat, peer' \in [Sessions -> (PSKs \X Pairs) \cup {None}]
  PROVE  Types'
  <1>1. nonce + 1 \in Nat
    OBVIOUS
  <1>2. /\ psk' \in [Sessions -> PSKs]
        /\ excess' \in [Sessions -> Nat \X Nat] /\ bufLen' \in [Sessions -> Nat]
        /\ wNonce' \in [Pairs -> Int] /\ sent' \in [Pairs -> Nat]
        /\ log' \in [Pairs -> Seq(Boxes)]
    BY DEF Types, TakenFrom
  <1>3. /\ rpc' \in [Pairs -> {"header", "variable", "length", "payload", "eof", "failed"}]
        /\ rKey' \in [Pairs -> (PSKs \X Pairs) \cup {None}]
        /\ rNonce' \in [Pairs -> Nat] /\ rLen' \in [Pairs -> Nat]
    BY <1>1 DEF Types, Moves, Advance, NextNonce
  <1>4. delivered' \in [Pairs -> Seq(Plain)]
    BY DEF Types, Moves
  <1> QED  BY <1>2, <1>3, <1>4 DEF Types

(* A reader that goes on with the stream it reads. *)
LEMMA Goes ==
  ASSUME IInv, NEW off \in Offsets, Streams(off), NEW s \in Sessions, NEW d \in Dirs, TakenFrom(<<s, d>>),
         NEW t \in Sessions, ReaderOf(<<s, d>>, t, off),
         NEW label \in {"length", "payload"}, NEW len \in Nat, NEW got, MovesOn(<<s, d>>, t, off, label, len, got)
  PROVE  IInv'
  <1> DEFINE p == <<s, d>>
  <1>1. p \in Pairs /\ <<t, d>> \in Pairs /\ p[2] = d /\ p[1] = s
    BY PairIn
  <1>m. /\ rKey[p] # None /\ Moves(s, d, rKey[p], rNonce[p], label, len, got)
        /\ At(<<t, d>>, rNonce[p] + 1, log[<<t, d>>], off[<<t, d>>], label, len, got)
        /\ UNCHANGED <<peer, pool, forgotten, faults>> /\ rpc[p] # "failed"
    BY <1>1 DEF MovesOn
  <1>2. Types /\ Served /\ Excess /\ Undisturbed /\ \A q \in Pairs : Carried(q)
    BY DEF IInv
  <1>3. /\ path' \in [Pairs -> Seq(Boxes)] /\ path'[p] = Tail(path[p]) /\ (\A q \in Pairs : q # p => path'[q] = path[q])
        /\ \A q \in Pairs : Carried(q)'
    BY <1>1, <1>2, TakenCarried
  <1>4. rKey[p] = Key(<<t, d>>) /\ (d = "s2c" => peer[t] = <<psk[s], <<s, "c2s">>>>)
    BY <1>1 DEF ReaderOf
  <1>5. rKey[p] \in PSKs \X Pairs /\ rNonce[p] \in Nat
    BY <1>1, <1>m, <1>2, LogTypes
  <1>6. got \in Seq(Plain)
    <2>1. off[<<t, d>>] \in [Nat -> Nat] /\ Len(log[<<t, d>>]) \in Nat
      BY <1>1, <1>2, LogTypes
    <2> QED  BY <1>1, <1>m, <2>1, AtTypes
  <1>7. Types'
    <2>1. faults' \in Nat /\ peer' \in [Sessions -> (PSKs \X Pairs) \cup {None}]
      BY <1>2, <1>m DEF Types
    <2>2. label \in {"variable", "length", "payload"}
      OBVIOUS
    <2> DEFINE k == rKey[p]
               n == rNonce[p]
    <2>3. k \in PSKs \X Pairs /\ n \in Nat /\ Moves(s, d, k, n, label, len, got)
      BY <1>5, <1>m
    <2> HIDE DEF k, n
    <2> QED  BY <1>2, <1>3, <1>6, <2>1, <2>2, <2>3, ReadTypes
  <1>8. Streams(off)'
    <2>1. Kept
      BY <1>m, TakenKept
    <2>2. MovesTo(s, d, t, off, rKey[p], rNonce[p], label, len, got)
      BY <1>4, <1>m DEF MovesTo
    <2> QED  BY <1>2, <2>1, <2>2, ReadStreams
  <1>9. Served'
    <2>1. \A x \in Sessions : rpc'[<<x, "c2s">>] = "header" => rpc[<<x, "c2s">>] = "header"
      BY <1>2, <1>m, PairIn, DirsAre DEF Moves, Advance, Types
    <2>2. log' = log /\ psk' = psk /\ UNCHANGED <<peer, pool, forgotten>>
      BY <1>m DEF TakenFrom
    <2> QED  BY <1>2, <2>1, <2>2, PoolStays, ServedKept
  <1>10. Undisturbed'
    <2>1. faults = 0 => rKey[p][2] = p /\ \A x \in Sessions : Own(x)
      BY <1>1, <1>2, <1>m DEF Undisturbed, Quiet
    <2>2. psk' = psk
      BY DEF TakenFrom
    <2>3. faults = 0 => \A x \in Sessions : Own(x)'
      BY <1>m, <2>1, <2>2 DEF Own
    <2> QED  BY <1>2, <1>3, <1>m, <2>1, <2>3, QuietRead DEF Moves
  <1>11. Excess'
    BY <1>2, ExcessKept DEF TakenFrom
  <1>12. (\E o \in Offsets : Streams(o))'
    BY <1>8 DEF Offsets
  <1> QED  BY <1>3, <1>7, <1>9, <1>10, <1>11, <1>12 DEF IInv

(* Take, on the level of pairs. *)
LEMMA TakeIs ==
  ASSUME NEW s, NEW d, NEW label, Take(s, d, label)
  PROVE  TakenFrom(<<s, d>>) /\ rpc[<<s, d>>] = label /\ faults' = faults
  BY DEF Take, TakenFrom, clientVars

(* Payload chunks: the bytes of the box go behind those that were          *)
(* returned.                                                               *)
LEMMA ReadPayloadKeeps ==
  ASSUME IInv, NEW s \in Sessions, NEW d \in Dirs, ReadPayload(s, d)
  PROVE  IInv'
  <1> DEFINE p == <<s, d>>
             box == Head(path[p])
  <1>1. TakenFrom(p) /\ rpc[p] = "payload" /\ faults' = faults
    BY TakeIs DEF ReadPayload
  <1>2. p \in Pairs /\ p[1] = s /\ p[2] = d
    BY PairIn
  <1>3. Types /\ Undisturbed /\ Carried(p) /\ path[p] # <<>>
    BY <1>1, <1>2 DEF IInv, TakenFrom
  <1>4. PICK off \in Offsets : Streams(off)
    BY DEF IInv
  <1>5. CASE Opens(box, rKey[p], rNonce[p], rLen[p])
    <2>1. rKey[p] # None /\ \E t \in Sessions : ReaderOf(p, t, off) /\ Follows(p, t, off, box)
      BY <1>1, <1>2, <1>3, <1>4, <1>5, OpenedFollows DEF Opens
    <2>2. PICK t \in Sessions : ReaderOf(p, t, off) /\ Follows(p, t, off, box)
      BY <2>1
    <2>3. At(<<t, d>>, rNonce[p] + 1, log[<<t, d>>], off[<<t, d>>], "length", 2, delivered[p] \o box.bytes)
      BY <1>1, <1>2, <2>2 DEF Follows
    <2>4. /\ Advance(s, d, rKey[p], rNonce[p], "length", 2)
          /\ delivered' = [delivered EXCEPT ![p] = @ \o box.bytes] /\ UNCHANGED <<peer, pool, forgotten>>
      BY <1>5 DEF ReadPayload
    <2>5. delivered' = [delivered EXCEPT ![p] = delivered[p] \o box.bytes]
      BY <2>4
    <2>6. MovesOn(p, t, off, "length", 2, delivered[p] \o box.bytes)
      BY <1>1, <1>2, <2>1, <2>3, <2>4, <2>5 DEF MovesOn, Moves
    <2> HIDE DEF box
    <2> QED  BY <1>1, <1>2, <1>4, <2>2, <2>3, <2>6, Goes
  <1>6. CASE ~Opens(box, rKey[p], rNonce[p], rLen[p])
    <2>1. Fail(s, d)
      BY <1>6 DEF ReadPayload
    <2>2. faults # 0
      <3>1. SUFFICES ASSUME faults = 0 PROVE FALSE
        OBVIOUS
      <3>2. Quiet(p)
        BY <1>2, <1>3, <3>1 DEF Undisturbed
      <3>3. \E t \in Sessions : ReaderOf(p, t, off) /\ Follows(p, t, off, box)
        BY <1>1, <1>2, <1>3, <1>4, <3>2, QuietFollows
      <3> QED  BY <1>1, <1>6, <3>3 DEF Follows, Opens
    <2> QED  BY <1>1, <1>3, <2>1, <2>2, Fails DEF Types
  <1> QED  BY <1>5, <1>6

(* Length chunks: the box announces the one that follows it in its stream. *)
LEMMA ReadLengthKeeps ==
  ASSUME IInv, NEW s \in Sessions, NEW d \in Dirs, ReadLength(s, d)
  PROVE  IInv'
  <1> DEFINE p == <<s, d>>
             box == Head(path[p])
  <1>1. TakenFrom(p) /\ rpc[p] = "length" /\ faults' = faults
    BY TakeIs DEF ReadLength
  <1>2. p \in Pairs /\ p[1] = s /\ p[2] = d
    BY PairIn
  <1>3. Types /\ Undisturbed /\ Carried(p) /\ path[p] # <<>>
    BY <1>1, <1>2 DEF IInv, TakenFrom
  <1>4. PICK off \in Offsets : Streams(off)
    BY DEF IInv
  <1>5. CASE Opens(box, rKey[p], rNonce[p], 2) /\ box.n[1] # 0
    <2>1. rKey[p] # None /\ \E t \in Sessions : ReaderOf(p, t, off) /\ Follows(p, t, off, box)
      BY <1>1, <1>2, <1>3, <1>4, <1>5, OpenedFollows DEF Opens
    <2>2. PICK t \in Sessions : ReaderOf(p, t, off) /\ Follows(p, t, off, box)
      BY <2>1
    <2>3. At(<<t, d>>, rNonce[p] + 1, log[<<t, d>>], off[<<t, d>>], "payload", box.n[1], delivered[p]) /\ box.n[1] \in Nat
      BY <1>1, <1>2, <2>2 DEF Follows
    <2>4. Advance(s, d, rKey[p], rNonce[p], "payload", box.n[1]) /\ UNCHANGED <<delivered, peer, pool, forgotten>>
      BY <1>5 DEF ReadLength
    <2>5. delivered' = [delivered EXCEPT ![p] = delivered[p]]
      BY <1>2, <1>3, <2>4 DEF Types
    <2>6. MovesOn(p, t, off, "payload", box.n[1], delivered[p])
      BY <1>1, <1>2, <2>1, <2>3, <2>4, <2>5 DEF MovesOn, Moves
    <2> HIDE DEF box
    <2> QED  BY <1>1, <1>2, <1>4, <2>2, <2>3, <2>6, Goes
  <1>6. CASE ~ (Opens(box, rKey[p], rNonce[p], 2) /\ box.n[1] # 0)
    <2>1. Fail(s, d)
      BY <1>6 DEF ReadLength
    <2>2. faults # 0
      <3>1. SUFFICES ASSUME faults = 0 PROVE FALSE
        OBVIOUS
      <3>2. Quiet(p)
        BY <1>2, <1>3, <3>1 DEF Undisturbed
      <3>3. \E t \in Sessions : ReaderOf(p, t, off) /\ Follows(p, t, off, box)
        BY <1>1, <1>2, <1>3, <1>4, <3>2, QuietFollows
      <3> QED  BY <1>1, <1>6, <3>3 DEF Follows, Opens
    <2> QED  BY <1>1, <1>3, <2>1, <2>2, Fails DEF Types
  <1> QED  BY <1>5, <1>6

(* The variable-length header with the initial payload. *)
LEMMA ServerVariableKeeps ==
  ASSUME IInv, NEW s \in Sessions, ServerVariable(s)
  PROVE  IInv'
  <1> DEFINE d == "c2s"
             p == <<s, d>>
             box == Head(path[p])
  <1>1. TakenFrom(p) /\ rpc[p] = "variable" /\ faults' = faults
    BY TakeIs DEF ServerVariable
  <1>2. p \in Pairs /\ p[1] = s /\ p[2] = d /\ d \in Dirs
    BY PairIn, DirsAre
  <1>3. Types /\ Undisturbed /\ Carried(p) /\ path[p] # <<>>
    BY <1>1, <1>2 DEF IInv, TakenFrom
  <1>4. PICK off \in Offsets : Streams(off)
    BY DEF IInv
  <1>5. CASE Opens(box, rKey[p], rNonce[p], rLen[p]) /\ VariableHeaderOk(box)
    <2>1. rKey[p] # None /\ \E t \in Sessions : ReaderOf(p, t, off) /\ Follows(p, t, off, box)
      BY <1>1, <1>2, <1>3, <1>4, <1>5, OpenedFollows DEF Opens
    <2>2. PICK t \in Sessions : ReaderOf(p, t, off) /\ Follows(p, t, off, box)
      BY <2>1
    <2>3. At(<<t, d>>, rNonce[p] + 1, log[<<t, d>>], off[<<t, d>>], "length", 2, delivered[p] \o box.bytes)
      BY <1>1, <1>2, <2>2 DEF Follows
    <2>4. /\ Advance(s, d, rKey[p], rNonce[p], "length", 2)
          /\ delivered' = [delivered EXCEPT ![p] = @ \o box.bytes] /\ UNCHANGED <<peer, pool, forgotten>>
      BY <1>5 DEF ServerVariable
    <2>5. delivered' = [delivered EXCEPT ![p] = delivered[p] \o box.bytes]
      BY <2>4
    <2>6. MovesOn(p, t, off, "length", 2, delivered[p] \o box.bytes)
      BY <1>1, <1>2, <2>1, <2>3, <2>4, <2>5 DEF MovesOn, Moves
    <2> HIDE DEF box
    <2> QED  BY <1>1, <1>2, <1>4, <2>2, <2>3, <2>6, Goes
  <1>6. CASE ~ (Opens(box, rKey[p], rNonce[p], rLen[p]) /\ VariableHeaderOk(box))
    <2>1. Fail(s, d)
      BY <1>6 DEF ServerVariable
    <2>2. faults # 0
      <3>1. SUFFICES ASSUME faults = 0 PROVE FALSE
        OBVIOUS
      <3>2. Quiet(p)
        BY <1>2, <1>3, <3>1 DEF Undisturbed
      <3>3. \E t \in Sessions : ReaderOf(p, t, off) /\ Follows(p, t, off, box)
        BY <1>1, <1>2, <1>3, <1>4, <3>2, QuietFollows
      <3> QED  BY <1>1, <1>6, <3>3 DEF Follows, Opens
    <2> QED  BY <1>1, <1>2, <1>3, <2>1, <2>2, Fails DEF Types
  <1> QED  BY <1>5, <1>6

(* The first box of a stream, and where its reader is then. *)
Begins(q, off, box) ==
  /\ Len(log[q]) # 0 /\ box \in Boxes /\ box.intact /\ box.key = Key(q) /\ box.nonce = 0
  /\ box.len = HeadLen(q, 1) /\ box.salt = FirstSalt(q) /\ box.n[1] \in Nat
  /\ \A label \in {"variable", "payload"} : At(q, 1, log[q], off[q], label, box.n[1], <<>>)

(* The first box of a stream. *)
LEMMA FirstBegins ==
  ASSUME Types, NEW off \in Offsets, Streams(off), NEW q \in Pairs, Len(log[q]) # 0
  PROVE  Begins(q, off, log[q][1])
  <1> DEFINE B == log[q]
             o == off[q]
             L == Len(B)
  <1>1. L \in Nat /\ L = Len(B) /\ L # 0 /\ o \in [Nat -> Nat] /\ B \in Seq(Boxes)
    BY LogTypes
  <1>2. GoodStream(q, B, o, Key(q), FirstSalt(q))
    BY DEF Streams, Sealed
  <1> HIDE DEF B, o, L
  <1>3. ASSUME NEW label \in {"variable", "payload"}
        PROVE  /\ B[1].intact /\ B[1].key = Key(q) /\ B[1].nonce = 0 /\ B[1].salt = FirstSalt(q)
               /\ B[1].len = HeadLen(q, 1)
               /\ At(q, 1, B, o, label, B[1].n[1], <<>>)
    <2>1. FirstAt(q, B, o, Key(q), FirstSalt(q), label)
      BY <1>1, <1>2, AtFirst
    <2> QED  BY <2>1 DEF FirstAt
  <1>4. 1 \in 1 .. Len(B)
    BY <1>1
  <1>5. B[1] \in Boxes
    BY <1>1, <1>4, ElementOfSeq
  <1>6. IsHead(B[1])
    <2>1. At(q, 1, B, o, "payload", B[1].n[1], <<>>)
      BY <1>3
    <2> QED  BY <2>1 DEF At
  <1>7. B[1].n[1] \in Nat
    BY <1>5, <1>6, HeadN
  <1>8. /\ B[1].intact /\ B[1].key = Key(q) /\ B[1].nonce = 0 /\ B[1].salt = FirstSalt(q)
        /\ B[1].len = HeadLen(q, 1)
    BY <1>3
  <1> QED  BY <1>3, <1>5, <1>7, <1>8 DEF Begins, B, o

(* A box that is opened with nonce 0 is the first one of some stream. *)
LEMMA OpenedBegins ==
  ASSUME Types, NEW off \in Offsets, Streams(off), NEW p \in Pairs, Carried(p), path[p] # <<>>,
         Head(path[p]).intact, Head(path[p]).nonce = 0
  PROVE  \E t \in Sessions : <<t, p[2]>> \in Pairs /\ Begins(<<t, p[2]>>, off, Head(path[p]))
  <1>1. path[p] \in Seq(Boxes)
    BY LogTypes
  <1>2. PICK t \in Sessions :
          LET q == <<t, p[2]>>
              j == Head(path[p]).nonce + 1 IN
          q \in Pairs /\ j \in 1 .. Len(log[q]) /\ Head(path[p]) = log[q][j] /\ Head(path[p]).key = Key(q)
    BY <1>1, FindBox
  <1> DEFINE q == <<t, p[2]>>
  <1>3. q \in Pairs /\ 1 \in 1 .. Len(log[q]) /\ Head(path[p]) = log[q][1]
    BY <1>2
  <1>4. Len(log[q]) # 0
    BY <1>3
  <1>5. Begins(q, off, log[q][1])
    BY <1>3, <1>4, FirstBegins
  <1> QED  BY <1>3, <1>5

(* Who waits for a header has read nothing. *)
LEMMA HeaderReader ==
  ASSUME NEW off, Streams(off), NEW p \in Pairs, rpc[p] = "header"
  PROVE  rKey[p] = None /\ rNonce[p] = 0 /\ delivered[p] = <<>>
  BY DEF Streams, Received

(* On a path without faults it is the first one of the own stream. *)
LEMMA QuietBegins ==
  ASSUME Types, NEW off \in Offsets, Streams(off), NEW p \in Pairs, Quiet(p), path[p] # <<>>, rpc[p] = "header"
  PROVE  Begins(p, off, Head(path[p]))
  <1>1. path[p] = SubSeq(log[p], rNonce[p] + 1, Len(log[p])) /\ rNonce[p] = 0
    BY HeaderReader DEF Quiet
  <1>2. log[p] \in Seq(Boxes) /\ 0 \in Nat
    BY LogTypes
  <1>3. path[p] = SubSeq(log[p], 0 + 1, Len(log[p]))
    BY <1>1
  <1>4. 0 < Len(log[p])
    BY <1>2, <1>3, RestEmpty
  <1>5. Head(path[p]) = log[p][0 + 1]
    BY <1>2, <1>3, <1>4, RestIs
  <1>6. Len(log[p]) # 0
    BY <1>4
  <1>7. Begins(p, off, log[p][1])
    BY <1>6, FirstBegins
  <1> QED  BY <1>5, <1>7

(* The fixed-length header: the salt is in the pool from now on, so that   *)
(* another connection has been or will be served for it only if the pool   *)
(* has cleaned it away.                                                    *)
LEMMA ServerHeaderKeeps ==
  ASSUME IInv, NEW s \in Sessions, ServerHeader(s)
  PROVE  IInv'
  <1> DEFINE p == <<s, "c2s">>
             box == Head(path[p])
             key == <<IF Users = {} THEN ServerPSK ELSE box.key[1], box.key[2]>>
             opened == (Users = {} \/ box.key[1] \in Users) /\ Opens(box, key, 0, FixedLen)
             Accepts(old) == /\ Advance(s, "c2s", key, 0, "variable", box.n[1])
                             /\ peer' = [peer EXCEPT ![s] = key] /\ pool' = (pool \ old) \cup {key[2]}
                             /\ UNCHANGED delivered
  <1>1. TakenFrom(p) /\ rpc[p] = "header" /\ faults' = faults
    BY TakeIs DEF ServerHeader
  <1>2. p \in Pairs /\ p[1] = s /\ p[2] = "c2s" /\ "c2s" \in Dirs
    BY PairIn, DirsAre
  <1>3. Types /\ Served /\ Undisturbed /\ Excess /\ (\A q \in Pairs : Carried(q)) /\ path[p] # <<>>
    BY <1>1, <1>2 DEF IInv, TakenFrom
  <1>4. PICK off \in Offsets : Streams(off)
    BY DEF IInv
  <1>5. peer[s] = None /\ rKey[p] = None /\ rNonce[p] = 0 /\ delivered[p] = <<>>
    BY <1>1, <1>2, <1>3, <1>4, HeaderReader DEF Served
  <1>6. faults = 0 => Quiet(p) /\ \A x \in Sessions : Own(x)
    BY <1>2, <1>3 DEF Undisturbed
  <1>7. faults = 0 => Begins(p, off, box)
    BY <1>1, <1>2, <1>3, <1>4, <1>6, QuietBegins
  <1>8. Key(p) = <<psk[s], p>>
    BY <1>2 DEF Key
  <1>a. opened => \E old \in SUBSET pool :
          /\ forgotten' = forgotten \cup old
          /\ IF key[2] \in pool \ old THEN GivesUp(s, "c2s") /\ pool' = pool \ old ELSE Accepts(old)
    BY DEF ServerHeader
  <1>9. ASSUME opened, NEW old \in SUBSET pool, forgotten' = forgotten \cup old, key[2] \notin pool \ old, Accepts(old)
        PROVE  IInv'
    <2>1. /\ Advance(s, "c2s", key, 0, "variable", box.n[1])
          /\ peer' = [peer EXCEPT ![s] = key] /\ pool' = (pool \ old) \cup {key[2]}
          /\ UNCHANGED delivered
      BY <1>9
    <2>2. /\ box.intact /\ box.nonce = 0 /\ box.key = key
          /\ key[2] \in pool \cup forgotten => key[2] \in forgotten'
          /\ forgotten \subseteq forgotten' /\ pool \cup forgotten \subseteq pool' \cup forgotten'
      BY <1>9, <2>1 DEF Opens
    <2>3. \E t \in Sessions : <<t, p[2]>> \in Pairs /\ Begins(<<t, p[2]>>, off, box)
      BY <1>2, <1>3, <1>4, <2>2, OpenedBegins
    <2>4. PICK t \in Sessions : <<t, "c2s">> \in Pairs /\ Begins(<<t, "c2s">>, off, box)
      BY <1>2, <2>3
    <2> DEFINE q == <<t, "c2s">>
               len == box.n[1]
    <2>5. /\ key = Key(q) /\ key = <<psk[t], q>> /\ len \in Nat
          /\ At(q, 0 + 1, log[q], off[q], "variable", len, <<>>) /\ box \in Boxes
      BY <2>2, <2>4 DEF Begins, Key
    <2>6. key \in PSKs \X Pairs /\ key # None
      <3>1. box.key \in PSKs \X Pairs
        BY <2>5 DEF Boxes
      <3> QED  BY <2>2, <2>5, <3>1 DEF None
    <2>7. key[2] = q /\ (faults = 0 => key = <<psk[s], p>>)
      BY <1>7, <1>8, <2>2, <2>5 DEF Begins
    <2> HIDE DEF key, len, opened, box, Accepts
    <2>8. delivered' = [delivered EXCEPT ![p] = <<>>]
      BY <1>2, <1>3, <1>5, <2>1 DEF Types
    <2>9. Kept
      BY <1>1, <1>3, <1>5, <2>1 DEF Kept, TakenFrom, Types
    <2>10. peer \in [Sessions -> (PSKs \X Pairs) \cup {None}] /\ peer' \in [Sessions -> (PSKs \X Pairs) \cup {None}]
      BY <1>3, <2>1, <2>6 DEF Types
    <2>11. /\ path' \in [Pairs -> Seq(Boxes)] /\ path'[p] = Tail(path[p]) /\ (\A x \in Pairs : x # p => path'[x] = path[x])
           /\ \A x \in Pairs : Carried(x)'
      BY <1>1, <1>2, <1>3, TakenCarried
    <2>12. Advance(s, "c2s", key, 0, "variable", len)
      BY <2>1 DEF len
    <2>13. Streams(off)'
      <3>1. MovesTo(s, "c2s", t, off, key, 0, "variable", len, <<>>)
        BY <2>5, <2>6, <2>8, <2>12 DEF MovesTo, Moves
      <3> QED  BY <1>2, <1>3, <1>4, <2>9, <3>1, ReadStreams
    <2>14. Types'
      <3>1. faults' \in Nat
        BY <1>1, <1>3 DEF Types
      <3>2. Moves(s, "c2s", key, 0, "variable", len, <<>>) /\ <<>> \in Seq(Plain) /\ 0 \in Nat
        BY <2>8, <2>12 DEF Moves
      <3> QED  BY <1>1, <1>2, <1>3, <2>5, <2>6, <2>10, <2>11, <3>1, <3>2, ReadTypes
    <2>15. /\ peer'[s] = key /\ \A x \in Sessions : x # s => peer'[x] = peer[x]
           /\ log' = log /\ psk' = psk
      BY <1>1, <2>1, <2>10 DEF TakenFrom
    <2>16. Served'
      <3>1. ASSUME NEW x \in Sessions
            PROVE  /\ peer'[x] # None => peer'[x][2] \in pool' \cup forgotten' /\ \E y \in Sessions : peer'[x] = <<psk'[y], <<y, "c2s">>>>
                   /\ rpc'[<<x, "c2s">>] = "header" => peer'[x] = None
                   /\ Len(log'[<<x, "s2c">>]) # 0 => peer'[x] # None
        <4>1. /\ peer[x] # None => peer[x][2] \in pool \cup forgotten /\ \E y \in Sessions : peer[x] = <<psk[y], <<y, "c2s">>>>
              /\ rpc[<<x, "c2s">>] = "header" => peer[x] = None
              /\ Len(log[<<x, "s2c">>]) # 0 => peer[x] # None
          BY <1>3 DEF Served
        <4>2. rpc'[<<x, "c2s">>] = IF x = s THEN "variable" ELSE rpc[<<x, "c2s">>]
          BY <1>2, <1>3, <2>12, PairIn DEF Advance, Types
        <4>3. CASE x = s
          BY <2>1, <2>5, <2>6, <2>15, <4>2, <4>3
        <4>4. CASE x # s
          <5>1. peer'[x] = peer[x] /\ pool \cup forgotten \subseteq pool' \cup forgotten'
            BY <2>2, <2>15, <4>4
          <5> QED  BY <2>15, <4>1, <4>2, <4>4, <5>1
        <4> QED  BY <4>3, <4>4
      <3>2. ASSUME NEW x \in Sessions, x # s, peer'[x] = key PROVE key[2] \in forgotten'
        <4>1. peer[x] = key /\ key[2] \in pool \cup forgotten
          BY <1>3, <2>6, <2>15, <3>2 DEF Served
        <4> QED  BY <2>2, <4>1
      <3>3. ASSUME NEW x \in Sessions, NEW y \in Sessions, x # y, peer'[x] # None, peer'[x] = peer'[y]
            PROVE  peer'[x][2] \in forgotten'
        <4>1. CASE x = s
          BY <2>15, <3>2, <3>3, <4>1
        <4>2. CASE y = s
          BY <2>15, <3>2, <3>3, <4>2
        <4>3. CASE x # s /\ y # s
          <5>1. peer[x] # None /\ peer[x] = peer[y] /\ peer'[x] = peer[x]
            BY <2>15, <3>3, <4>3
          <5>2. peer[x][2] \in forgotten
            BY <1>3, <3>3, <5>1 DEF Served, ServedOnce
          <5> QED  BY <2>2, <5>1, <5>2
        <4> QED  BY <4>1, <4>2, <4>3
      <3> QED  BY <3>1, <3>3 DEF Served, ServedOnce
    <2>17. Undisturbed'
      <3>1. ASSUME faults = 0, NEW x \in Sessions PROVE Own(x)'
        <4>1. Own(x) /\ key = <<psk[s], <<s, "c2s">>>> /\ key[2] = <<s, "c2s">>
          BY <1>6, <2>7, <3>1
        <4>2. CASE x = s
          BY <2>6, <2>15, <4>1, <4>2 DEF Own
        <4>3. CASE x # s
          <5>1. <<x, "c2s">> # <<s, "c2s">>
            BY <4>3
          <5>2. <<x, "c2s">> \in pool' => <<x, "c2s">> \in pool
            BY <2>1, <4>1, <5>1
          <5> QED  BY <2>15, <4>1, <4>3, <5>2 DEF Own
        <4> QED  BY <4>2, <4>3
      <3>2. faults = 0 => 0 = rNonce[p] /\ key[2] = p /\ \A x \in Sessions : Own(x)'
        BY <1>5, <2>7, <3>1
      <3> QED  BY <1>1, <1>2, <1>3, <2>11, <2>12, <3>2, QuietRead
    <2>18. Excess'
      BY <1>1, <1>3, ExcessKept DEF TakenFrom
    <2>19. (\E o \in Offsets : Streams(o))'
      BY <2>13 DEF Offsets
    <2> QED  BY <2>11, <2>14, <2>16, <2>17, <2>18, <2>19 DEF IInv
  <1>10. ASSUME opened, NEW old \in SUBSET pool, forgotten' = forgotten \cup old, key[2] \in pool \ old,
                GivesUp(s, "c2s"), pool' = pool \ old
         PROVE  IInv'
    <2>1. PoolCleaned /\ key[2] \in pool
      BY <1>10 DEF PoolCleaned
    <2>2. faults # 0
      <3>1. SUFFICES ASSUME faults = 0 PROVE FALSE
        OBVIOUS
      <3>2. box.key = <<psk[s], p>> /\ box.key = key
        BY <1>7, <1>8, <1>10, <3>1 DEF Begins, Opens
      <3>3. key[2] = p
        BY <3>2
      <3> QED  BY <1>5, <1>6, <2>1, <3>1, <3>3 DEF Own
    <2> QED  BY <1>1, <1>2, <1>3, <1>10, <2>1, <2>2, ReaderGivesUp DEF Types
  <1>11. CASE ~opened
    <2>1. Fail(s, "c2s")
      BY <1>11 DEF ServerHeader
    <2>2. faults = 0 => ~Known(psk[s])
      <3>1. SUFFICES ASSUME faults = 0, Known(psk[s]) PROVE FALSE
        OBVIOUS
      <3>2. box.intact /\ box.key = <<psk[s], p>> /\ box.nonce = 0 /\ box.len = FixedLen
        BY <1>2, <1>7, <1>8, <3>1 DEF Begins, HeadLen
      <3>4. box.key[1] = psk[s] /\ box.key[2] = p
        BY <3>2
      <3>5. /\ Users = {} => psk[s] = ServerPSK
            /\ Users # {} => psk[s] \in Users
        BY <3>1 DEF Known
      <3>6. key = <<psk[s], p>>
        BY <3>4, <3>5
      <3> QED  BY <1>11, <3>2, <3>4, <3>5, <3>6 DEF Opens
    <2> QED  BY <1>1, <1>2, <1>3, <2>1, <2>2, Fails DEF Types
  <1>12. CASE opened
    <2>1. PICK old \in SUBSET pool :
            /\ forgotten' = forgotten \cup old
            /\ IF key[2] \in pool \ old THEN GivesUp(s, "c2s") /\ pool' = pool \ old ELSE Accepts(old)
      BY <1>a, <1>12
    <2> HIDE DEF opened, Accepts, key
    <2>2. CASE key[2] \in pool \ old
      BY <1>10, <1>12, <2>1, <2>2
    <2>3. CASE key[2] \notin pool \ old
      BY <1>9, <1>12, <2>1, <2>3
    <2> QED  BY <2>2, <2>3
  <1> QED  BY <1>11, <1>12

(* The response header: its salt is that of the own request, so that the   *)
(* server wrote it for this request.                                       *)
LEMMA ClientHeaderKeeps ==
  ASSUME IInv, NEW s \in Sessions, ClientHeader(s)
  PROVE  IInv'
  <1> DEFINE p == <<s, "s2c">>
             box == Head(path[p])
             key == <<psk[s], box.key[2]>>
             ok == Opens(box, key, 0, FixedLen + SaltLen) /\ box.salt = Salt(s, "c2s")
  <1>1. TakenFrom(p) /\ rpc[p] = "header" /\ faults' = faults
    BY TakeIs DEF ClientHeader
  <1>2. p \in Pairs /\ p[1] = s /\ p[2] = "s2c" /\ "s2c" \in Dirs /\ "c2s" \in Dirs /\ "s2c" # "c2s"
    BY PairIn, DirsAre
  <1>3. Types /\ Served /\ Undisturbed /\ Excess /\ (\A q \in Pairs : Carried(q)) /\ path[p] # <<>>
    BY <1>1, <1>2 DEF IInv, TakenFrom
  <1>4. PICK off \in Offsets : Streams(off)
    BY DEF IInv
  <1>5. rKey[p] = None /\ rNonce[p] = 0 /\ delivered[p] = <<>>
    BY <1>1, <1>2, <1>4, HeaderReader
  <1>6. faults = 0 => Quiet(p) /\ \A x \in Sessions : Own(x)
    BY <1>2, <1>3 DEF Undisturbed
  <1>7. faults = 0 => Begins(p, off, box)
    BY <1>1, <1>2, <1>3, <1>4, <1>6, QuietBegins
  <1>8. ASSUME NEW t \in Sessions
        PROVE  /\ Key(<<t, "s2c">>) = <<peer[t][1], <<t, "s2c">>>> /\ FirstSalt(<<t, "s2c">>) = peer[t][2]
               /\ Len(log[<<t, "s2c">>]) # 0 => peer[t] # None /\ \E u \in Sessions : peer[t] = <<psk[u], <<u, "c2s">>>>
    <2>1. Key(<<t, "s2c">>) = <<peer[t][1], <<t, "s2c">>>> /\ FirstSalt(<<t, "s2c">>) = peer[t][2]
      BY DEF Key, FirstSalt
    <2>2. Len(log[<<t, "s2c">>]) # 0 => peer[t] # None
      BY <1>3 DEF Served
    <2>3. peer[t] # None => \E u \in Sessions : peer[t] = <<psk[u], <<u, "c2s">>>>
      BY <1>3 DEF Served
    <2> QED  BY <2>1, <2>2, <2>3
  <1>9. CASE ok
    <2>1. Advance(s, "s2c", key, 0, "payload", box.n[1]) /\ UNCHANGED <<delivered, peer, pool, forgotten>>
      BY <1>9 DEF ClientHeader
    <2>2. box.intact /\ box.nonce = 0 /\ box.key = key /\ box.salt = <<s, "c2s">>
      BY <1>9 DEF Opens, Salt
    <2>3. \E t \in Sessions : <<t, p[2]>> \in Pairs /\ Begins(<<t, p[2]>>, off, box)
      BY <1>2, <1>3, <1>4, <2>2, OpenedBegins
    <2>4. PICK t \in Sessions : <<t, "s2c">> \in Pairs /\ Begins(<<t, "s2c">>, off, box)
      BY <1>2, <2>3
    <2> DEFINE q == <<t, "s2c">>
               len == box.n[1]
    <2>5. /\ key = Key(q) /\ key[2] = q /\ len \in Nat
          /\ At(q, 0 + 1, log[q], off[q], "payload", len, <<>>) /\ box \in Boxes
      <3>1. /\ key = Key(q) /\ len \in Nat
            /\ At(q, 0 + 1, log[q], off[q], "payload", len, <<>>) /\ box \in Boxes
        BY <2>2, <2>4 DEF Begins
      <3>2. Key(q)[2] = q
        BY DEF Key
      <3> QED  BY <3>1, <3>2
    <2>6. key \in PSKs \X Pairs /\ key # None
      <3>1. box.key \in PSKs \X Pairs
        BY <2>5 DEF Boxes
      <3> QED  BY <2>2, <2>5, <3>1 DEF None
    <2>7. peer[t] = <<psk[s], <<s, "c2s">>>>
      <3>1. PICK u \in Sessions : peer[t] = <<psk[u], <<u, "c2s">>>>
        BY <1>8, <2>4 DEF Begins
      <3>2. peer[t][2] = <<s, "c2s">>
        BY <1>8, <2>2, <2>4 DEF Begins
      <3>3. u = s
        BY <3>1, <3>2
      <3> QED  BY <3>1, <3>3
    <2>8. faults = 0 => key[2] = p
      <3>1. faults = 0 => key = Key(p)
        BY <1>7, <2>2 DEF Begins
      <3>2. Key(p)[2] = p
        BY DEF Key
      <3> QED  BY <3>1, <3>2
    <2> HIDE DEF key, len, ok, box
    <2>9. delivered' = [delivered EXCEPT ![p] = <<>>]
      BY <1>2, <1>3, <1>5, <2>1 DEF Types
    <2>10. Kept
      BY <1>1, <2>1, TakenKept
    <2>11. /\ path' \in [Pairs -> Seq(Boxes)] /\ path'[p] = Tail(path[p]) /\ (\A x \in Pairs : x # p => path'[x] = path[x])
           /\ \A x \in Pairs : Carried(x)'
      BY <1>1, <1>2, <1>3, TakenCarried
    <2>12. Advance(s, "s2c", key, 0, "payload", len)
      BY <2>1 DEF len
    <2>13. Streams(off)'
      <3>1. MovesTo(s, "s2c", t, off, key, 0, "payload", len, <<>>)
        BY <2>5, <2>6, <2>7, <2>9, <2>12 DEF MovesTo, Moves
      <3> QED  BY <1>2, <1>3, <1>4, <2>10, <3>1, ReadStreams
    <2>14. Types'
      <3>1. faults' \in Nat /\ peer' \in [Sessions -> (PSKs \X Pairs) \cup {None}]
        BY <1>1, <1>3, <2>1 DEF Types
      <3>2. Moves(s, "s2c", key, 0, "payload", len, <<>>) /\ <<>> \in Seq(Plain) /\ 0 \in Nat
        BY <2>9, <2>12 DEF Moves
      <3> QED  BY <1>1, <1>2, <1>3, <2>5, <2>6, <2>11, <3>1, <3>2, ReadTypes
    <2>15. log' = log /\ psk' = psk
      BY <1>1 DEF TakenFrom
    <2>16. Served'
      <3>1. \A x \in Sessions : rpc'[<<x, "c2s">>] = "header" => rpc[<<x, "c2s">>] = "header"
        <4> TAKE x \in Sessions
        <4>1. <<x, "c2s">> # p
          BY <1>2
        <4> QED  BY <1>2, <1>3, <2>12, <4>1, PairIn DEF Advance, Types
      <3> QED  BY <1>3, <2>1, <2>15, <3>1, PoolStays, ServedKept
    <2>17. Undisturbed'
      <3>1. faults = 0 => \A x \in Sessions : Own(x)'
        BY <1>6, <2>1, <2>15 DEF Own
      <3>2. faults = 0 => 0 = rNonce[p] /\ key[2] = p /\ \A x \in Sessions : Own(x)'
        BY <1>5, <2>8, <3>1
      <3> QED  BY <1>1, <1>2, <1>3, <2>11, <2>12, <3>2, QuietRead
    <2>18. Excess'
      BY <1>1, <1>3, ExcessKept DEF TakenFrom
    <2>19. (\E o \in Offsets : Streams(o))'
      BY <2>13 DEF Offsets
    <2> QED  BY <2>11, <2>14, <2>16, <2>17, <2>18, <2>19 DEF IInv
  <1>10. CASE ~ok
    <2>1. Fail(s, "s2c")
      BY <1>10 DEF ClientHeader
    <2>2. faults # 0
      <3>1. SUFFICES ASSUME faults = 0 PROVE FALSE
        OBVIOUS
      <3>2. box.intact /\ box.key = Key(p) /\ box.nonce = 0 /\ box.len = FixedLen + SaltLen /\ box.salt = FirstSalt(p)
        BY <1>2, <1>7, <3>1 DEF Begins, HeadLen
      <3>3. Len(log[p]) # 0
        BY <1>7, <3>1 DEF Begins
      <3>4. peer[s] = <<psk[s], <<s, "c2s">>>>
        BY <1>6, <1>8, <3>1, <3>3 DEF Own
      <3>5. box.key = <<psk[s], p>> /\ box.salt = <<s, "c2s">>
        BY <1>8, <3>2, <3>4, SMTT(20)
      <3>6. key = <<psk[s], p>>
        BY <3>5
      <3> QED  BY <1>10, <3>2, <3>5, <3>6 DEF Opens, Salt
    <2> QED  BY <1>1, <1>2, <1>3, <2>1, <2>2, Fails DEF Types
  <1> QED  BY <1>9, <1>10

(* A first read that is too short fails, and is a fault of the path. *)
LEMMA HeaderRefusedKeeps ==
  ASSUME IInv, NEW s \in Sessions, NEW d \in Dirs, HeaderRefused(s, d)
  PROVE  IInv'
  <1>1. TakenFrom(<<s, d>>) /\ Fail(s, d) /\ faults' = faults + 1
    BY DEF HeaderRefused, TakenFrom, clientVars
  <1>2. faults \in Nat
    BY DEF IInv, Types
  <1>3. faults' \in Nat /\ faults' # 0
    BY <1>1, <1>2
  <1> QED  BY <1>1, <1>3, Fails

-----------------------------------------------------------------------------
(* What reads and writes nothing *)

(* The reader has the end of the stream. *)
LEMMA ReadEndsKeeps ==
  ASSUME IInv, NEW s \in Sessions, NEW d \in Dirs, ReadEnds(s, d)
  PROVE  IInv'
  <1> DEFINE p == <<s, d>>
  <1>1. p \in Pairs
    BY PairIn
  <1>2. Types /\ Served /\ Undisturbed /\ Excess /\ \A q \in Pairs : Carried(q)
    BY DEF IInv
  <1>3. /\ rpc' = [rpc EXCEPT ![p] = "eof"] /\ rpc[p] \notin {"eof", "failed"}
        /\ UNCHANGED <<psk, excess, bufLen, wNonce, sent, log, path, rKey, rNonce, rLen, delivered, peer, pool, forgotten, faults>>
    BY DEF ReadEnds, clientVars, writerVars
  <1>4. PICK off \in Offsets : Streams(off)
    BY DEF IInv
  <1> HIDE DEF p
  <1>5. rpc'[p] = "eof" /\ \A q \in Pairs : q # p => rpc'[q] = rpc[q]
    BY <1>1, <1>2, <1>3 DEF Types
  <1>6. Types'
    BY <1>1, <1>2, <1>3 DEF Types
  <1>7. Kept
    BY <1>3 DEF Kept
  <1>8. Received(p, off)'
    <2>1. Received(p, off)
      BY <1>1, <1>4 DEF Streams
    <2>2. ASSUME rKey[p] # None PROVE \E t \in Sessions : ReaderOf(p, t, off)'
      <3>1. PICK t \in Sessions : ReaderOf(p, t, off)
        BY <2>1, <2>2 DEF Received
      <3> DEFINE q == <<t, p[2]>>
      <3>2. At(q, rNonce[p], log[q], off[q], rpc[p], rLen[p], delivered[p])
        BY <3>1 DEF ReaderOf
      <3>3. At(q, rNonce[p], log[q], off[q], "eof", rLen[p], delivered[p])
        BY <3>2, AtStops
      <3>4. At(q, rNonce[p], log[q], off[q], rpc[p], rLen[p], delivered[p])'
        BY <1>3, <1>5, <3>3
      <3>5. Key(q)' = Key(q)
        BY <1>3 DEF Key
      <3>6. ReaderOf(p, t, off)'
        BY <1>3, <3>1, <3>4, <3>5 DEF ReaderOf
      <3> QED  BY <3>6
    <2> QED  BY <1>3, <1>5, <2>1, <2>2 DEF Received
  <1>9. \A q \in Pairs : q # p => SameReader(q)
    BY <1>3, <1>5 DEF SameReader
  <1>10. Streams(off)'
    BY <1>1, <1>2, <1>4, <1>7, <1>8, <1>9, StreamsKept
  <1>11. Served'
    <2>1. \A x \in Sessions : rpc'[<<x, "c2s">>] = "header" => rpc[<<x, "c2s">>] = "header"
      <3> TAKE x \in Sessions
      <3>1. <<x, "c2s">> \in Pairs
        BY PairIn, DirsAre
      <3> QED  BY <1>5, <3>1
    <2> QED  BY <1>2, <1>3, <2>1, PoolStays, ServedKept
  <1>12. Excess'
    BY <1>2, <1>3, ExcessKept
  <1>13. \A q \in Pairs : Carried(q)'
    <2> TAKE q \in Pairs
    <2> QED  BY <1>2, <1>3, CarriedSame
  <1>14. Undisturbed'
    <2>1. ASSUME NEW q \in Pairs, Quiet(q) PROVE Quiet(q)'
      <3>1. (rpc'[q] = "failed" <=> rpc[q] = "failed") /\ (Known(psk'[q[1]]) <=> Known(psk[q[1]]))
        BY <1>3, <1>5 DEF Known
      <3> QED  BY <1>3, <2>1, <3>1 DEF Quiet
    <2>2. ASSUME NEW x \in Sessions, Own(x) PROVE Own(x)'
      BY <1>3, <2>2 DEF Own
    <2> QED  BY <1>2, <1>3, <2>1, <2>2 DEF Undisturbed
  <1>15. (\E o \in Offsets : Streams(o))'
    BY <1>10 DEF Offsets
  <1> QED  BY <1>6, <1>11, <1>12, <1>13, <1>14, <1>15 DEF IInv

(* Only the paths change, and not without a fault. *)
LEMMA PathKeeps ==
  ASSUME IInv, UNCHANGED <<psk, excess, bufLen, wNonce, sent, log, rpc, rKey, rNonce, rLen, delivered, peer, pool, forgotten>>,
         path' \in [Pairs -> Seq(Boxes)], \A q \in Pairs : Carried(q)',
         faults' \in Nat, faults' = 0 => faults = 0 /\ path' = path
  PROVE  IInv'
  <1>1. Types /\ Served /\ Undisturbed /\ Excess
    BY DEF IInv
  <1>2. PICK off \in Offsets : Streams(off)
    BY DEF IInv
  <1>3. Types'
    BY <1>1 DEF Types
  <1>4. Streams(off)'
    <2>1. Kept
      BY DEF Kept
    <2>2. \A q \in Pairs : SameReader(q)
      BY DEF SameReader
    <2> QED  BY <1>1, <1>2, <2>1, <2>2, StreamsSame
  <1>5. Served'
    BY <1>1, PoolStays, ServedKept
  <1>6. Excess'
    BY <1>1, ExcessKept
  <1>7. Undisturbed'
    <2>1. ASSUME NEW q \in Pairs, Quiet(q), path' = path PROVE Quiet(q)'
      <3>1. Known(psk'[q[1]]) <=> Known(psk[q[1]])
        BY DEF Known
      <3> QED  BY <2>1, <3>1 DEF Quiet
    <2>2. ASSUME NEW x \in Sessions, Own(x) PROVE Own(x)'
      BY <2>2 DEF Own
    <2> QED  BY <1>1, <2>1, <2>2 DEF Undisturbed
  <1>8. (\E o \in Offsets : Streams(o))'
    BY <1>4 DEF Offsets
  <1> QED  BY <1>3, <1>5, <1>6, <1>7, <1>8 DEF IInv

(* Nothing happens to what the invariant is about. *)
LEMMA SamePath ==
  ASSUME IInv, UNCHANGED <<psk, excess, bufLen, wNonce, sent, log, path, rpc, rKey, rNonce, rLen, delivered, peer,
                           pool, forgotten, faults>>
  PROVE  IInv'
  <1>1. path' \in [Pairs -> Seq(Boxes)] /\ faults' \in Nat
    BY DEF IInv, Types
  <1>2. \A q \in Pairs : Carried(q)'
    <2> TAKE q \in Pairs
    <2>1. Carried(q)
      BY DEF IInv
    <2> QED  BY <2>1, CarriedSame
  <1> QED  BY <1>1, <1>2, PathKeeps

(* The boxes of one path are disturbed. *)
LEMMA OnePath ==
  ASSUME IInv, NEW p \in Pairs, NEW boxes \in Seq(Boxes), path' = [path EXCEPT ![p] = boxes],
         UNCHANGED <<psk, excess, bufLen, wNonce, sent, log, rpc, rKey, rNonce, rLen, delivered, peer, pool, forgotten>>,
         faults' = faults + 1,
         \A i \in 1 .. Len(boxes) : boxes[i].intact => \E k \in 1 .. Len(path[p]) : boxes[i] = path[p][k]
  PROVE  IInv'
  <1>1. path \in [Pairs -> Seq(Boxes)] /\ faults \in Nat
    BY DEF IInv, Types
  <1>2. path' \in [Pairs -> Seq(Boxes)] /\ faults' \in Nat /\ faults' # 0
    BY <1>1
  <1>3. path'[p] = boxes /\ \A q \in Pairs : q # p => path'[q] = path[q]
    BY <1>1
  <1>4. ASSUME NEW q \in Pairs PROVE Carried(q)'
    <2>1. Carried(q)
      BY DEF IInv
    <2>2. CASE q = p
      <3>1. \A i \in 1 .. Len(path'[p]) : path'[p][i].intact => \E k \in 1 .. Len(path[p]) : path'[p][i] = path[p][k]
        BY <1>3
      <3> QED  BY <2>1, <2>2, <3>1, CarriedFrom
    <2>3. CASE q # p
      BY <1>3, <2>1, <2>3, CarriedSame
    <2> QED  BY <2>2, <2>3
  <1> QED  BY <1>2, <1>4, PathKeeps

(* Sequences of what is in another. *)
Elems(s) == {s[j] : j \in 1 .. Len(s)}

(* A sequence of such elements has nothing that was not there. *)
LEMMA ElemsAre ==
  ASSUME NEW X, NEW s \in Seq(X)
  PROVE  /\ s \in Seq(Elems(s)) /\ Elems(s) \subseteq X
         /\ \A t \in Seq(Elems(s)) : t \in Seq(X) /\ \A i \in 1 .. Len(t) : \E k \in 1 .. Len(s) : t[i] = s[k]
  <1>1. s \in Seq(Elems(s))
    BY DEF Elems
  <1>2. Elems(s) \subseteq X
    BY DEF Elems
  <1>3. ASSUME NEW t \in Seq(Elems(s)) PROVE t \in Seq(X)
    BY <1>2
  <1>4. ASSUME NEW t \in Seq(Elems(s)), NEW i \in 1 .. Len(t) PROVE \E k \in 1 .. Len(s) : t[i] = s[k]
    <2>1. t[i] \in Elems(s)
      BY ElementOfSeq
    <2> QED  BY <2>1 DEF Elems
  <1> QED  BY <1>1, <1>2, <1>3, <1>4

(* A damaged box is a box that is not intact. *)
LEMMA DamagedIs ==
  ASSUME NEW box \in Boxes
  PROVE  Damaged(box) \in Boxes /\ ~Damaged(box).intact
  <1>1. <<<<"damaged", "damaged", 0>>>> \in Seq(Plain \cup {<<"damaged", "damaged", 0>>})
    OBVIOUS
  <1> QED  BY <1>1 DEF Damaged, Boxes

(* Losing, repeating, damaging and swapping boxes. *)
LEMMA DisturbKeeps ==
  ASSUME IInv, NEW s \in Sessions, NEW d \in Dirs, Disturb(s, d)
  PROVE  IInv'
  <1> DEFINE p == <<s, d>>
             B == path[p]
  <1>1. p \in Pairs /\ B \in Seq(Boxes) /\ path \in [Pairs -> Seq(Boxes)]
    BY PairIn DEF IInv, Types
  <1>2. /\ faults' = faults + 1
        /\ UNCHANGED <<psk, excess, bufLen, wNonce, sent, log, rpc, rKey, rNonce, rLen, delivered, peer, pool, forgotten>>
    BY DEF Disturb, Fault, clientVars, readerVars
  <1>3. PICK i \in DOMAIN B :
          \/ path' = [path EXCEPT ![p] = RemoveAt(@, i)]
          \/ path' = [path EXCEPT ![p] = InsertAt(@, i, @[i])]
          \/ path' = [path EXCEPT ![p] = ReplaceAt(@, i, Damaged(@[i]))]
          \/ i > 1 /\ path' = [path EXCEPT ![p] = ReplaceAt(ReplaceAt(@, i, @[i - 1]), i - 1, @[i])]
    BY DEF Disturb
  <1>4. i \in 1 .. Len(B) /\ B[i] \in Boxes /\ Len(B) \in Nat
    BY <1>1, <1>3
  <1> DEFINE E == Elems(B)
  <1>5. B \in Seq(E) /\ B[i] \in E
    BY <1>1, <1>4, ElemsAre, SMTT(20) DEF Elems
  <1>6. ASSUME NEW boxes \in Seq(E), path' = [path EXCEPT ![p] = boxes] PROVE IInv'
    <2>1. boxes \in Seq(Boxes) /\ \A j \in 1 .. Len(boxes) : \E k \in 1 .. Len(B) : boxes[j] = B[k]
      <3> HIDE DEF B
      <3>1. \A t \in Seq(E) : t \in Seq(Boxes) /\ \A j \in 1 .. Len(t) : \E k \in 1 .. Len(B) : t[j] = B[k]
        BY <1>1, ElemsAre
      <3> QED  BY <3>1
    <2> QED  BY <1>1, <1>2, <1>6, <2>1, OnePath
  <1>7. CASE path' = [path EXCEPT ![p] = RemoveAt(@, i)]
    <2>1. path' = [path EXCEPT ![p] = RemoveAt(B, i)]
      BY <1>7
    <2> HIDE DEF B, E
    <2>2. RemoveAt(B, i) \in Seq(E)
      BY <1>4, <1>5 DEF RemoveAt
    <2> QED  BY <1>6, <2>1, <2>2
  <1>8. CASE path' = [path EXCEPT ![p] = InsertAt(@, i, @[i])]
    <2>1. path' = [path EXCEPT ![p] = InsertAt(B, i, B[i])]
      BY <1>8
    <2> HIDE DEF B, E
    <2>2. InsertAt(B, i, B[i]) \in Seq(E)
      BY <1>4, <1>5 DEF InsertAt
    <2> QED  BY <1>6, <2>1, <2>2
  <1>9. CASE path' = [path EXCEPT ![p] = ReplaceAt(@, i, Damaged(@[i]))]
    <2> DEFINE boxes == ReplaceAt(B, i, Damaged(B[i]))
    <2>1. path' = [path EXCEPT ![p] = boxes]
      BY <1>9
    <2>2. Damaged(B[i]) \in Boxes /\ ~Damaged(B[i]).intact
      BY <1>4, DamagedIs
    <2> HIDE DEF B
    <2>3. /\ boxes \in Seq(Boxes) /\ Len(boxes) = Len(B)
          /\ \A j \in 1 .. Len(B) : boxes[j] = IF j = i THEN Damaged(B[i]) ELSE B[j]
      BY <1>1, <1>4, <2>2 DEF ReplaceAt
    <2> HIDE DEF boxes
    <2>4. \A j \in 1 .. Len(boxes) : boxes[j].intact => \E k \in 1 .. Len(B) : boxes[j] = B[k]
      BY <2>2, <2>3
    <2> QED  BY <1>1, <1>2, <2>1, <2>3, <2>4, OnePath DEF B
  <1>10. CASE i > 1 /\ path' = [path EXCEPT ![p] = ReplaceAt(ReplaceAt(@, i, @[i - 1]), i - 1, @[i])]
    <2> DEFINE boxes == ReplaceAt(ReplaceAt(B, i, B[i - 1]), i - 1, B[i])
    <2>1. path' = [path EXCEPT ![p] = boxes]
      BY <1>10
    <2>2. i - 1 \in 1 .. Len(B) /\ B[i - 1] \in E
      BY <1>4, <1>10 DEF Elems
    <2> HIDE DEF B, E
    <2>3. ReplaceAt(B, i, B[i - 1]) \in Seq(E) /\ Len(ReplaceAt(B, i, B[i - 1])) = Len(B)
      BY <1>4, <1>5, <2>2 DEF ReplaceAt
    <2>4. boxes \in Seq(E)
      BY <1>4, <1>5, <2>2, <2>3 DEF ReplaceAt
    <2> QED  BY <1>6, <2>1, <2>4
  <1> QED  BY <1>3, <1>7, <1>8, <1>9, <1>10

(* Cutting off a connection. *)
LEMMA CutKeeps ==
  ASSUME IInv, NEW s \in Sessions, NEW d \in Dirs, Cut(s, d)
  PROVE  IInv'
  <1> DEFINE p == <<s, d>>
             B == path[p]
  <1>1. p \in Pairs /\ B \in Seq(Boxes)
    BY PairIn DEF IInv, Types
  <1>2. /\ faults' = faults + 1
        /\ UNCHANGED <<psk, excess, bufLen, wNonce, sent, log, rpc, rKey, rNonce, rLen, delivered, peer, pool, forgotten>>
    BY DEF Cut, Fault, clientVars, readerVars
  <1>3. PICK k \in 0 .. Len(B) : path' = [path EXCEPT ![p] = SubSeq(B, 1, k)]
    BY DEF Cut
  <1> DEFINE boxes == SubSeq(B, 1, k)
  <1>4. boxes \in Seq(Boxes) /\ Len(boxes) = k /\ \A i \in 1 .. k : i \in 1 .. Len(B) /\ boxes[i] = B[i]
    <2> HIDE DEF B
    <2> QED  BY <1>1, <1>3
  <1>5. path' = [path EXCEPT ![p] = boxes]
    BY <1>3
  <1> HIDE DEF boxes
  <1>6. \A i \in 1 .. Len(boxes) : boxes[i].intact => \E j \in 1 .. Len(B) : boxes[i] = B[j]
    BY <1>4
  <1> QED  BY <1>1, <1>2, <1>4, <1>5, <1>6, OnePath

(* Carrying a stream over to another connection. *)
LEMMA CarryOverKeeps ==
  ASSUME IInv, NEW s \in Sessions, NEW t \in Sessions, NEW d \in Dirs, CarryOver(s, t, d)
  PROVE  IInv'
  <1> DEFINE p == <<t, d>>
             q == <<s, d>>
  <1>1. p \in Pairs /\ q \in Pairs /\ path \in [Pairs -> Seq(Boxes)] /\ log[q] \in Seq(Boxes) /\ faults \in Nat
        /\ p[2] = d
    BY PairIn DEF IInv, Types
  <1>2. /\ faults' = faults + 1 /\ path' = [path EXCEPT ![p] = log[q]]
        /\ UNCHANGED <<psk, excess, bufLen, wNonce, sent, log, rpc, rKey, rNonce, rLen, delivered, peer, pool, forgotten>>
    BY DEF CarryOver, Fault, clientVars, readerVars
  <1>3. path' \in [Pairs -> Seq(Boxes)] /\ faults' \in Nat /\ faults' # 0
    BY <1>1, <1>2
  <1>4. path'[p] = log[q] /\ \A x \in Pairs : x # p => path'[x] = path[x]
    BY <1>1, <1>2
  <1>5. ASSUME NEW x \in Pairs PROVE Carried(x)'
    <2>1. CASE x = p
      <3>1. SUFFICES ASSUME NEW i \in 1 .. Len(path'[p])
                     PROVE  \E y \in Sessions : \E j \in 1 .. Len(log[<<y, d>>]) : path'[p][i] = log[<<y, d>>][j]
        BY <1>1, <1>2, <2>1 DEF Carried
      <3>2. i \in 1 .. Len(log[q]) /\ path'[p][i] = log[q][i]
        BY <1>4
      <3> QED  BY <3>2
    <2>2. CASE x # p
      <3>1. Carried(x)
        BY DEF IInv
      <3> QED  BY <1>2, <1>4, <2>2, <3>1, CarriedSame
    <2> QED  BY <2>1, <2>2
  <1> QED  BY <1>2, <1>3, <1>5, PathKeeps

(* Closing the writing end. *)
LEMMA CloseWriteKeeps ==
  ASSUME IInv, NEW s \in Sessions, NEW d \in Dirs, CloseWrite(s, d)
  PROVE  IInv'
  BY SamePath DEF CloseWrite, clientVars, writerVars, readerVars

(* Steps that change nothing. *)
LEMMA StutterKeeps ==
  ASSUME IInv, UNCHANGED vars
  PROVE  IInv'
  BY SamePath DEF vars, clientVars, writerVars, readerVars

-----------------------------------------------------------------------------
(* Writing *)

(* What is sealed in a box. *)
LEMMA BoxIs ==
  ASSUME NEW key \in PSKs \X Pairs, NEW nonce \in Nat, NEW len \in Nat, NEW n \in Seq(Nat), NEW salt \in Pairs \cup {None},
         NEW bytes \in Seq(Plain)
  PROVE  LET box == Box(key, nonce, len, n, salt, bytes) IN
         /\ box \in Boxes /\ box.key = key /\ box.nonce = nonce /\ box.len = len /\ box.n = n /\ box.salt = salt
         /\ box.bytes = bytes /\ box.intact
  <1>1. bytes \in Seq(Plain \cup {<<"damaged", "damaged", 0>>})
    OBVIOUS
  <1> QED  BY <1>1 DEF Box, Boxes

(* Boxes a and b, with m bytes, are written to the stream q. *)
Writes(q, off, a, b, m) ==
  /\ a \in Boxes /\ b \in Boxes /\ m \in Nat
  /\ NextTwo(q, Len(log[q]), off[q], Key(q), FirstSalt(q), a, b, m)
  /\ log' = [log EXCEPT ![q] = @ \o <<a, b>>] /\ path' = [path EXCEPT ![q] = @ \o <<a, b>>]
  /\ wNonce' = [wNonce EXCEPT ![q] = Len(log[q]) + 2] /\ sent' = [sent EXCEPT ![q] = off[q][Len(log[q])] + m]
  /\ UNCHANGED <<psk, rpc, rKey, rNonce, rLen, delivered, peer, pool, forgotten, faults>>
  /\ q[2] = "s2c" => peer[q[1]] # None

Written(q, off, a, b, m) ==
  /\ log' \in [Pairs -> Seq(Boxes)] /\ path' \in [Pairs -> Seq(Boxes)]
  /\ wNonce' \in [Pairs -> Int] /\ sent' \in [Pairs -> Nat]
  /\ log'[q] = log[q] \o <<a, b>> /\ path'[q] = path[q] \o <<a, b>>
  /\ wNonce'[q] = Len(log[q]) + 2 /\ sent'[q] = off[q][Len(log[q])] + m
  /\ Len(log[q]) \in Nat /\ Len(log'[q]) = Len(log[q]) + 2
  /\ Len(path'[q]) = Len(path[q]) + 2 /\ Len(path[q]) \in Nat
  /\ (\A j \in 1 .. Len(log[q]) : log'[q][j] = log[q][j])
  /\ log'[q][Len(log[q]) + 1] = a /\ log'[q][Len(log[q]) + 2] = b
  /\ (\A j \in 1 .. Len(path[q]) : path'[q][j] = path[q][j])
  /\ path'[q][Len(path[q]) + 1] = a /\ path'[q][Len(path[q]) + 2] = b
  /\ \A p \in Pairs : p # q =>
       log'[p] = log[p] /\ path'[p] = path[p] /\ wNonce'[p] = wNonce[p] /\ sent'[p] = sent[p]

(* Writing, for each pair. *)
LEMMA WritesLog ==
  ASSUME Types, NEW off \in Offsets, NEW q \in Pairs, NEW a, NEW b, NEW m, Writes(q, off, a, b, m)
  PROVE  Written(q, off, a, b, m)
  <1>1. /\ log \in [Pairs -> Seq(Boxes)] /\ path \in [Pairs -> Seq(Boxes)]
        /\ wNonce \in [Pairs -> Int] /\ sent \in [Pairs -> Nat] /\ off[q] \in [Nat -> Nat]
    BY DEF Types, Offsets
  <1>2. /\ a \in Boxes /\ b \in Boxes /\ m \in Nat
        /\ log' = [log EXCEPT ![q] = @ \o <<a, b>>] /\ path' = [path EXCEPT ![q] = @ \o <<a, b>>]
        /\ wNonce' = [wNonce EXCEPT ![q] = Len(log[q]) + 2] /\ sent' = [sent EXCEPT ![q] = off[q][Len(log[q])] + m]
    BY DEF Writes
  <1> DEFINE B == log[q]
             P == path[q]
             B2 == B \o <<a, b>>
             P2 == P \o <<a, b>>
  <1>3. B \in Seq(Boxes) /\ P \in Seq(Boxes) /\ Len(B) \in Nat /\ Len(P) \in Nat
    <2>1. B \in Seq(Boxes) /\ P \in Seq(Boxes)
      BY <1>1
    <2> HIDE DEF B, P
    <2> QED  BY <2>1
  <1>4. /\ B2 \in Seq(Boxes) /\ Len(B2) = Len(B) + 2 /\ (\A j \in 1 .. Len(B) : B2[j] = B[j])
        /\ B2[Len(B) + 1] = a /\ B2[Len(B) + 2] = b
    BY <1>2, <1>3, TwoMore
  <1>5. /\ P2 \in Seq(Boxes) /\ Len(P2) = Len(P) + 2 /\ (\A j \in 1 .. Len(P) : P2[j] = P[j])
        /\ P2[Len(P) + 1] = a /\ P2[Len(P) + 2] = b
    BY <1>2, <1>3, TwoMore
  <1>6. log' = [log EXCEPT ![q] = B2] /\ path' = [path EXCEPT ![q] = P2]
    BY <1>2
  <1>7. off[q][Len(B)] + m \in Nat /\ Len(B) + 2 \in Int
    <2> DEFINE o == off[q]
               L == Len(B)
    <2>1. o \in [Nat -> Nat] /\ L \in Nat /\ m \in Nat
      BY <1>1, <1>2, <1>3
    <2> HIDE DEF o, L
    <2>2. o[L] + m \in Nat /\ L + 2 \in Int
      BY <2>1
    <2> QED  BY <2>2 DEF o, L
  <1> HIDE DEF B2, P2
  <1>8. /\ log' \in [Pairs -> Seq(Boxes)] /\ path' \in [Pairs -> Seq(Boxes)] /\ log'[q] = B2 /\ path'[q] = P2
        /\ \A p \in Pairs : p # q => log'[p] = log[p] /\ path'[p] = path[p]
    BY <1>1, <1>4, <1>5, <1>6
  <1>9. /\ wNonce' \in [Pairs -> Int] /\ sent' \in [Pairs -> Nat]
        /\ wNonce'[q] = Len(B) + 2 /\ sent'[q] = off[q][Len(B)] + m
        /\ \A p \in Pairs : p # q => wNonce'[p] = wNonce[p] /\ sent'[p] = sent[p]
    BY <1>1, <1>2, <1>7
  <1>10. log'[q] = B \o <<a, b>> /\ path'[q] = P \o <<a, b>>
    BY <1>8 DEF B2, P2
  <1>11. /\ Len(log'[q]) = Len(B) + 2 /\ Len(path'[q]) = Len(P) + 2
         /\ (\A j \in 1 .. Len(B) : log'[q][j] = B[j]) /\ log'[q][Len(B) + 1] = a /\ log'[q][Len(B) + 2] = b
         /\ (\A j \in 1 .. Len(P) : path'[q][j] = P[j]) /\ path'[q][Len(P) + 1] = a /\ path'[q][Len(P) + 2] = b
    BY <1>4, <1>5, <1>8
  <1> QED  BY <1>3, <1>8, <1>9, <1>10, <1>11 DEF Written

(* What was sealed and read is where it was, and the two boxes are the     *)
(* next ones of their stream.                                              *)
LEMMA WritesStreams ==
  ASSUME Types, NEW off \in Offsets, Streams(off), NEW q \in Pairs, NEW a, NEW b, NEW m, Writes(q, off, a, b, m)
  PROVE  \E o \in Offsets : Streams(o)'
  <1> DEFINE B == log[q]
             L == Len(B)
             more == B \o <<a, b>>
  <1>1. /\ a \in Boxes /\ b \in Boxes /\ m \in Nat
        /\ NextTwo(q, Len(log[q]), off[q], Key(q), FirstSalt(q), a, b, m)
        /\ UNCHANGED <<psk, rpc, rKey, rNonce, rLen, delivered, peer>>
    BY DEF Writes
  <1>2. /\ log'[q] = more /\ wNonce'[q] = L + 2 /\ sent'[q] = off[q][L] + m /\ L \in Nat /\ Len(log'[q]) = L + 2
        /\ \A p \in Pairs : p # q => log'[p] = log[p] /\ wNonce'[p] = wNonce[p] /\ sent'[p] = sent[p]
    <2>1. Written(q, off, a, b, m)
      BY WritesLog
    <2> QED  BY <2>1 DEF Written
  <1>3. B \in Seq(Boxes) /\ off[q] \in [Nat -> Nat] /\ GoodStream(q, B, off[q], Key(q), FirstSalt(q))
    BY LogTypes DEF Streams, Sealed
  <1>4. PICK o2 \in [Nat -> Nat] :
          /\ GoodStream(q, more, o2, Key(q), FirstSalt(q))
          /\ o2[L + 2] = off[q][L] + m
          /\ \A j \in 0 .. L : o2[j] = off[q][j]
    <2> DEFINE o == off[q]
    <2>1. /\ B \in Seq(Boxes) /\ o \in [Nat -> Nat] /\ GoodStream(q, B, o, Key(q), FirstSalt(q))
          /\ NextTwo(q, Len(B), o, Key(q), FirstSalt(q), a, b, m)
      BY <1>1, <1>3
    <2> HIDE DEF B, o
    <2>2. \E o2 \in [Nat -> Nat] : GoodOn(q, B, a, b, o, o2, Key(q), FirstSalt(q), m)
      BY <1>1, <2>1, GoodMore
    <2> QED  BY <2>2 DEF o, B, GoodOn
  <1> DEFINE off2 == [off EXCEPT ![q] = o2]
  <1>5. off2 \in Offsets /\ off2[q] = o2 /\ \A p \in Pairs : p # q => off2[p] = off[p]
    BY DEF Offsets
  <1> HIDE DEF off2, L, more
  <1>6. \A p \in Pairs : Key(p)' = Key(p) /\ FirstSalt(p)' = FirstSalt(p)
    BY <1>1 DEF Key, FirstSalt
  <1>7. ASSUME NEW p \in Pairs PROVE Sealed(p, off2)'
    <2>1. CASE p = q
      <3>1. GoodStream(q, log'[q], off2[q], Key(q)', FirstSalt(q)')
        BY <1>2, <1>4, <1>5, <1>6
      <3>2. L + 2 # 0
        BY <1>2
      <3>3. wNonce'[q] = (IF Len(log'[q]) = 0 THEN -1 ELSE Len(log'[q])) /\ sent'[q] = off2[q][Len(log'[q])]
        BY <1>2, <1>4, <1>5, <3>2
      <3> QED  BY <2>1, <3>1, <3>3 DEF Sealed
    <2>2. CASE p # q
      <3>1. Sealed(p, off)
        BY DEF Streams
      <3>2. log'[p] = log[p] /\ wNonce'[p] = wNonce[p] /\ sent'[p] = sent[p] /\ off2[p] = off[p]
        BY <1>2, <1>5, <2>2
      <3> QED  BY <1>6, <3>1, <3>2 DEF Sealed
    <2> QED  BY <2>1, <2>2
  <1>8. ASSUME NEW p \in Pairs PROVE Received(p, off2)'
    <2>1. Received(p, off)
      BY DEF Streams
    <2>2. ASSUME rKey[p] # None PROVE \E t \in Sessions : ReaderOf(p, t, off2)'
      <3>1. PICK t \in Sessions : ReaderOf(p, t, off)
        BY <2>1, <2>2 DEF Received
      <3> DEFINE x == <<t, p[2]>>
      <3>2. x \in Pairs
        BY PairIn, PairsAre
      <3>3. At(x, rNonce[p], log[x], off[x], rpc[p], rLen[p], delivered[p])
        BY <3>1 DEF ReaderOf
      <3>4. At(x, rNonce[p], log'[x], off2[x], rpc[p], rLen[p], delivered[p])
        <4> HIDE DEF x
        <4>1. CASE x = q
          <5>1. \A j \in 0 .. Len(B) : o2[j] = off[q][j]
            BY <1>4 DEF L
          <5>2. At(x, rNonce[p], B, off[q], rpc[p], rLen[p], delivered[p])
            BY <3>3, <4>1
          <5> HIDE DEF B
          <5>3. At(x, rNonce[p], B \o <<a, b>>, o2, rpc[p], rLen[p], delivered[p])
            BY <1>1, <1>3, <5>1, <5>2, AtMore
          <5> QED  BY <1>2, <1>5, <4>1, <5>3 DEF more
        <4>2. CASE x # q
          BY <1>2, <1>5, <3>2, <3>3, <4>2
        <4> QED  BY <4>1, <4>2
      <3>5. ReaderOf(p, t, off2)'
        BY <1>1, <1>6, <3>1, <3>2, <3>4 DEF ReaderOf
      <3> QED  BY <3>5
    <2> QED  BY <1>1, <2>1, <2>2 DEF Received
  <1>9. Streams(off2)'
    BY <1>7, <1>8 DEF Streams
  <1> QED  BY <1>5, <1>9

(* The paths carry the two boxes, which are of a stream. *)
LEMMA WritesCarried ==
  ASSUME Types, NEW off \in Offsets, NEW q \in Pairs, NEW a, NEW b, NEW m, Writes(q, off, a, b, m),
         NEW p \in Pairs, Carried(p)
  PROVE  Carried(p)'
  <1> DEFINE L == Len(log[q])
             K == Len(path[q])
  <1>1. /\ L \in Nat /\ Len(log'[q]) = L + 2 /\ Len(path'[q]) = K + 2 /\ K \in Nat
        /\ (\A j \in 1 .. L : log'[q][j] = log[q][j])
        /\ log'[q][L + 1] = a /\ log'[q][L + 2] = b
        /\ (\A j \in 1 .. K : path'[q][j] = path[q][j])
        /\ path'[q][K + 1] = a /\ path'[q][K + 2] = b
        /\ \A x \in Pairs : x # q => log'[x] = log[x] /\ path'[x] = path[x]
    <2>1. Written(q, off, a, b, m)
      BY WritesLog
    <2> QED  BY <2>1 DEF Written
  <1> HIDE DEF L, K
  <1>2. ASSUME NEW x \in Pairs, NEW j \in 1 .. Len(log[x]) PROVE j \in 1 .. Len(log'[x]) /\ log'[x][j] = log[x][j]
    <2>1. CASE x = q
      <3>1. j \in 1 .. L
        BY <2>1 DEF L
      <3>2. j \in 1 .. L + 2
        BY <1>1, <3>1
      <3> QED  BY <1>1, <2>1, <3>1, <3>2
    <2>2. CASE x # q
      BY <1>1, <2>2
    <2> QED  BY <2>1, <2>2
  <1>3. p[2] \in Dirs
    BY PairsAre
  <1>4. SUFFICES ASSUME NEW i \in 1 .. Len(path'[p]), path'[p][i].intact
                 PROVE  \E s \in Sessions : \E j \in 1 .. Len(log'[<<s, p[2]>>]) : path'[p][i] = log'[<<s, p[2]>>][j]
    BY DEF Carried
  <1>5. ASSUME i \in 1 .. Len(path[p]), path'[p][i] = path[p][i]
        PROVE  \E s \in Sessions : \E j \in 1 .. Len(log'[<<s, p[2]>>]) : path'[p][i] = log'[<<s, p[2]>>][j]
    <2>1. path[p][i].intact
      BY <1>4, <1>5
    <2>2. PICK s \in Sessions : \E j \in 1 .. Len(log[<<s, p[2]>>]) : path[p][i] = log[<<s, p[2]>>][j]
      BY <1>5, <2>1 DEF Carried
    <2>3. PICK j \in 1 .. Len(log[<<s, p[2]>>]) : path[p][i] = log[<<s, p[2]>>][j]
      BY <2>2
    <2>4. <<s, p[2]>> \in Pairs
      BY <1>3, PairIn
    <2>5. j \in 1 .. Len(log'[<<s, p[2]>>]) /\ log'[<<s, p[2]>>][j] = log[<<s, p[2]>>][j]
      BY <1>2, <2>4
    <2> QED  BY <1>5, <2>3, <2>5
  <1>6. CASE p # q
    BY <1>1, <1>4, <1>5, <1>6
  <1>7. CASE p = q
    <2>1. q[1] \in Sessions /\ q = <<q[1], q[2]>>
      BY PairsAre
    <2>2. i \in 1 .. K \/ i = K + 1 \/ i = K + 2
      BY <1>1, <1>4, <1>7
    <2>3. CASE i \in 1 .. K
      <3>1. i \in 1 .. Len(path[p]) /\ path'[p][i] = path[p][i]
        BY <1>1, <1>7, <2>3 DEF K
      <3> QED  BY <1>5, <3>1
    <2>4. L + 1 \in 1 .. Len(log'[q]) /\ L + 2 \in 1 .. Len(log'[q])
      BY <1>1
    <2>5. CASE i = K + 1
      <3>1. path'[p][i] = log'[<<q[1], p[2]>>][L + 1]
        BY <1>1, <1>7, <2>1, <2>5
      <3> QED  BY <1>7, <2>1, <2>4, <3>1
    <2>6. CASE i = K + 2
      <3>1. path'[p][i] = log'[<<q[1], p[2]>>][L + 2]
        BY <1>1, <1>7, <2>1, <2>6
      <3> QED  BY <1>7, <2>1, <2>4, <3>1
    <2> QED  BY <2>2, <2>3, <2>5, <2>6
  <1> QED  BY <1>6, <1>7

(* A reader on a quiet path has not read more than was written. *)
LEMMA QuietRead1 ==
  ASSUME Types, NEW off \in Offsets, Streams(off), NEW p \in Pairs, Quiet(p)
  PROVE  rNonce[p] \in 0 .. Len(log[p])
  <1>1. Len(log[p]) \in Nat
    BY LogTypes
  <1>2. CASE rKey[p] = None
    <2>1. rNonce[p] = 0
      BY <1>2 DEF Streams, Received
    <2> QED  BY <1>1, <2>1
  <1>3. CASE rKey[p] # None
    <2>1. PICK t \in Sessions : ReaderOf(p, t, off)
      BY <1>3 DEF Streams, Received
    <2>2. rKey[p][2] = p /\ rKey[p] = Key(<<t, p[2]>>)
      BY <1>3, <2>1 DEF Quiet, ReaderOf
    <2>3. <<t, p[2]>> = p
      BY <2>2 DEF Key
    <2>4. At(p, rNonce[p], log[p], off[p], rpc[p], rLen[p], delivered[p])
      BY <2>1, <2>3 DEF ReaderOf
    <2>5. rNonce[p] \in 1 .. Len(log[p])
      BY <2>4 DEF At
    <2> QED  BY <1>1, <2>5
  <1> QED  BY <1>2, <1>3

(* On a path without faults, they are added to what is left. *)
LEMMA WritesQuiet ==
  ASSUME Types, NEW off \in Offsets, Streams(off), Undisturbed,
         NEW q \in Pairs, NEW a, NEW b, NEW m, Writes(q, off, a, b, m)
  PROVE  Undisturbed'
  <1>1. UNCHANGED <<psk, rpc, rKey, rNonce, peer, pool, forgotten, faults>> /\ a \in Boxes /\ b \in Boxes
    BY DEF Writes
  <1>2. /\ log'[q] = log[q] \o <<a, b>> /\ path'[q] = path[q] \o <<a, b>>
        /\ \A p \in Pairs : p # q => log'[p] = log[p] /\ path'[p] = path[p]
    <2>1. Written(q, off, a, b, m)
      BY WritesLog
    <2> QED  BY <2>1 DEF Written
  <1>3. ASSUME NEW x \in Sessions, Own(x) PROVE Own(x)'
    BY <1>1, <1>3 DEF Own
  <1>4. ASSUME NEW p \in Pairs, Quiet(p) PROVE Quiet(p)'
    <2>1. Known(psk'[p[1]]) <=> Known(psk[p[1]])
      BY <1>1 DEF Known
    <2>2. CASE p = q
      <3> DEFINE B == log[q]
                 r == rNonce[q]
      <3>1. B \in Seq(Boxes) /\ r \in 0 .. Len(B)
        BY <1>4, <2>2, LogTypes, QuietRead1
      <3> HIDE DEF B, r
      <3>2. SubSeq(B \o <<a, b>>, r + 1, Len(B \o <<a, b>>)) = SubSeq(B, r + 1, Len(B)) \o <<a, b>>
        BY <1>1, <3>1, RestLonger, ZenonT(40)
      <3>3. rpc[q] # "failed" => path[q] = SubSeq(B, r + 1, Len(B))
        BY <1>4, <2>2 DEF Quiet, B, r
      <3>4. rpc[q] # "failed" => path'[q] = SubSeq(B \o <<a, b>>, r + 1, Len(B \o <<a, b>>))
        BY <1>2, <3>2, <3>3
      <3>5. rpc'[q] # "failed" => path'[q] = SubSeq(log'[q], rNonce'[q] + 1, Len(log'[q]))
        BY <1>1, <1>2, <3>4 DEF B, r
      <3> QED  BY <1>1, <1>4, <2>1, <2>2, <3>5 DEF Quiet
    <2>3. CASE p # q
      <3>1. log'[p] = log[p] /\ path'[p] = path[p]
        BY <1>2, <2>3
      <3> QED  BY <1>1, <1>4, <2>1, <3>1 DEF Quiet
    <2> QED  BY <2>2, <2>3
  <1> QED  BY <1>1, <1>3, <1>4 DEF Undisturbed

(* Writing keeps the invariant. *)
LEMMA WritesKeeps ==
  ASSUME IInv, NEW off \in Offsets, Streams(off),
         NEW q \in Pairs, NEW a, NEW b, NEW m, Writes(q, off, a, b, m),
         excess' \in [Sessions -> Nat \X Nat], bufLen' \in [Sessions -> Nat], Excess'
  PROVE  IInv'
  <1>1. Types /\ Served /\ Undisturbed /\ \A p \in Pairs : Carried(p)
    BY DEF IInv
  <1>2. /\ UNCHANGED <<psk, rpc, rKey, rNonce, rLen, delivered, peer, pool, forgotten, faults>>
        /\ q[2] = "s2c" => peer[q[1]] # None
    BY DEF Writes
  <1>3. /\ log' \in [Pairs -> Seq(Boxes)] /\ path' \in [Pairs -> Seq(Boxes)]
        /\ wNonce' \in [Pairs -> Int] /\ sent' \in [Pairs -> Nat]
        /\ \A p \in Pairs : p # q => log'[p] = log[p]
    <2>1. Written(q, off, a, b, m)
      BY <1>1, WritesLog
    <2> QED  BY <2>1 DEF Written
  <1>4. Types'
    BY <1>1, <1>2, <1>3 DEF Types
  <1>5. Served'
    <2>1. ASSUME NEW s \in Sessions
          PROVE  /\ peer'[s] # None => peer'[s][2] \in pool' \cup forgotten' /\ \E t \in Sessions : peer'[s] = <<psk'[t], <<t, "c2s">>>>
                 /\ rpc'[<<s, "c2s">>] = "header" => peer'[s] = None
                 /\ Len(log'[<<s, "s2c">>]) # 0 => peer'[s] # None
      <3>1. /\ peer[s] # None => peer[s][2] \in pool \cup forgotten /\ \E t \in Sessions : peer[s] = <<psk[t], <<t, "c2s">>>>
            /\ rpc[<<s, "c2s">>] = "header" => peer[s] = None
            /\ Len(log[<<s, "s2c">>]) # 0 => peer[s] # None
        BY <1>1 DEF Served
      <3>2. <<s, "s2c">> \in Pairs /\ <<s, "s2c">>[1] = s /\ <<s, "s2c">>[2] = "s2c"
        BY PairIn, DirsAre
      <3>3. Len(log'[<<s, "s2c">>]) # 0 => peer[s] # None
        <4>1. CASE <<s, "s2c">> = q
          BY <1>2, <3>2, <4>1
        <4>2. CASE <<s, "s2c">> # q
          BY <1>3, <3>1, <3>2, <4>2
        <4> QED  BY <4>1, <4>2
      <3> QED  BY <1>2, <3>1, <3>3
    <2>2. ServedOnce'
      BY <1>1, <1>2 DEF Served, ServedOnce
    <2> QED  BY <2>1, <2>2 DEF Served
  <1>6. Undisturbed'
    BY <1>1, WritesQuiet
  <1>7. \A p \in Pairs : Carried(p)'
    BY <1>1, WritesCarried
  <1>8. \E o \in Offsets : Streams(o)'
    BY <1>1, WritesStreams
  <1>9. (\E o \in Offsets : Streams(o))'
    BY <1>8 DEF Offsets
  <1> QED  BY <1>4, <1>5, <1>6, <1>7, <1>9 DEF IInv

(* The two boxes of a write: a header or length chunk, and what it         *)
(* announces.                                                              *)
HeadBox(q, L, key, len, salt) == Box(key, L, HeadLen(q, L + 1), <<len>>, salt, <<>>)
DataBox(q, L, key, len, n, o, m) == Box(key, L + 1, len, n, None, Bytes(q[1], q[2], o[L] + 1, o[L] + m))

(* Offsets are numbers. *)
LEMMA CountIs ==
  ASSUME NEW o \in [Nat -> Nat], NEW L \in Nat, NEW m \in Nat
  PROVE  o[L] \in Nat /\ o[L] + m \in Nat /\ o[L] <= o[L] + m /\ L + 1 \in Nat
  OBVIOUS

(* Such boxes are the next two of a stream. *)
LEMMA TwoBoxes ==
  ASSUME NEW q \in Pairs, NEW L \in Nat, NEW o \in [Nat -> Nat], NEW key \in PSKs \X Pairs, NEW len \in Nat \ {0},
         NEW first, NEW salt \in Pairs \cup {None}, L = 0 => salt = first, NEW n \in Seq(Nat), Len(n) # 1, NEW m \in Nat,
         L = 0 /\ q[2] = "c2s" => VariableHeaderOk(DataBox(q, L, key, len, n, o, m))
  PROVE  LET a == HeadBox(q, L, key, len, salt)
             b == DataBox(q, L, key, len, n, o, m) IN
         a \in Boxes /\ b \in Boxes /\ NextTwo(q, L, o, key, first, a, b, m)
  <1> DEFINE a == HeadBox(q, L, key, len, salt)
             b == DataBox(q, L, key, len, n, o, m)
             bytes == Bytes(q[1], q[2], o[L] + 1, o[L] + m)
  <1>1. o[L] \in Nat /\ o[L] + m \in Nat /\ o[L] <= o[L] + m /\ L + 1 \in Nat
    BY CountIs
  <1>2. q[1] \in Sessions /\ q[2] \in Dirs
    BY PairsAre
  <1>3. bytes \in Seq(Plain)
    BY <1>1, <1>2, BytesAre DEF Plain
  <1> HIDE DEF bytes
  <1>4. HeadLen(q, L + 1) \in Nat
    BY DEF HeadLen, FixedLen, SaltLen
  <1>5. <<len>> \in Seq(Nat) /\ Len(<<len>>) = 1 /\ <<len>>[1] = len /\ <<>> \in Seq(Plain) /\ None \in Pairs \cup {None}
    OBVIOUS
  <1>6. /\ a \in Boxes /\ a.key = key /\ a.nonce = L /\ a.len = HeadLen(q, L + 1) /\ a.n = <<len>> /\ a.salt = salt
        /\ a.bytes = <<>> /\ a.intact
    BY <1>4, <1>5, BoxIs DEF HeadBox
  <1>7. /\ b \in Boxes /\ b.key = key /\ b.nonce = L + 1 /\ b.len = len /\ b.n = n /\ b.bytes = bytes /\ b.intact
    <2>1. b = Box(key, L + 1, len, n, None, bytes)
      BY DEF DataBox, bytes
    <2> DEFINE i == L + 1
               none == None
    <2>2. i \in Nat /\ none \in Pairs \cup {None}
      BY <1>1
    <2> HIDE DEF i, none, b
    <2>3. LET box == Box(key, i, len, n, none, bytes) IN
          /\ box \in Boxes /\ box.key = key /\ box.nonce = i /\ box.len = len /\ box.n = n /\ box.salt = none
          /\ box.bytes = bytes /\ box.intact
      BY <1>3, <2>2, BoxIs
    <2> QED  BY <2>1, <2>3 DEF i, none
  <1>8. L = 0 /\ q[2] = "c2s" => VariableHeaderOk(b)
    OBVIOUS
  <1> HIDE DEF a, b
  <1>9. NextTwo(q, L, o, key, first, a, b, m)
    BY <1>5, <1>6, <1>7, <1>8 DEF NextTwo, IsHead, bytes
  <1> QED  BY <1>6, <1>7, <1>9 DEF a, b

(* Lengths that fit 16 bits. *)
LEMMA Fits ==
  ASSUME ShadowConstants, NEW n \in 0 .. MaxPayloadSize
  PROVE  Uint16(n) = n /\ n \in Nat
  <1>1. MaxPayloadSize \in Nat
    BY DEF ShadowConstants
  <1> QED  BY <1>1 DEF Uint16

(* What the writer has written. *)
LEMMA Writer ==
  ASSUME Types, NEW off \in Offsets, Streams(off), NEW q \in Pairs
  PROVE  /\ Len(log[q]) \in Nat /\ off[q] \in [Nat -> Nat]
         /\ wNonce[q] = -1 => Len(log[q]) = 0
         /\ wNonce[q] # -1 => wNonce[q] = Len(log[q]) /\ Len(log[q]) # 0
         /\ Len(log[q]) # 0 => wNonce[q] = Len(log[q])
         /\ sent[q] = off[q][Len(log[q])]
         /\ off[q][0] = 0
  <1>1. Len(log[q]) \in Nat /\ off[q] \in [Nat -> Nat]
    BY LogTypes
  <1>2. /\ wNonce[q] = IF Len(log[q]) = 0 THEN -1 ELSE Len(log[q])
        /\ sent[q] = off[q][Len(log[q])] /\ off[q][0] = 0
    BY DEF Streams, Sealed, GoodStream
  <1> DEFINE L == Len(log[q])
             w == wNonce[q]
  <1>3. L \in Nat /\ w = IF L = 0 THEN -1 ELSE L
    BY <1>1, <1>2
  <1> HIDE DEF L, w
  <1>4. (w = -1 => L = 0) /\ (w # -1 => w = L /\ L # 0) /\ (L # 0 => w = L)
    BY <1>3
  <1> QED  BY <1>1, <1>2, <1>4 DEF L, w

(* The excess payload stays when something else is written. *)
LEMMA ExcessWrites ==
  ASSUME Types, Excess, NEW off \in Offsets, NEW q \in Pairs, NEW a, NEW b, NEW m, Writes(q, off, a, b, m),
         UNCHANGED <<excess, bufLen>>
  PROVE  Excess'
  <1>1. Written(q, off, a, b, m)
    BY WritesLog
  <1>2. \A p \in Pairs : Len(log[p]) # 0 => Len(log'[p]) # 0
    <2> TAKE p \in Pairs
    <2>1. CASE p = q
      <3>1. Len(log[q]) \in Nat /\ Len(log'[q]) = Len(log[q]) + 2
        BY <1>1 DEF Written
      <3> QED  BY <2>1, <3>1
    <2>2. CASE p # q
      BY <1>1, <2>2 DEF Written
    <2> QED  BY <2>1, <2>2
  <1>3. \A s \in Sessions : <<s, "c2s">> \in Pairs
    BY PairIn, DirsAre
  <1> QED  BY <1>2, <1>3 DEF Excess, HasExcess

(* A chunk is written to a stream that has begun. *)
LEMMA ChunkWrites ==
  ASSUME ShadowConstants, Types, NEW off \in Offsets, Streams(off), NEW s \in Sessions, NEW d \in Dirs,
         Key(<<s, d>>) \in PSKs \X Pairs, NEW n \in 1 .. MaxPayloadSize,
         WriteChunk(s, d, Key(<<s, d>>), n), Len(log[<<s, d>>]) # 0,
         UNCHANGED <<psk, rpc, rKey, rNonce, rLen, delivered, peer, pool, forgotten, faults>>,
         d = "s2c" => peer[s] # None
  PROVE  \E a, b : Writes(<<s, d>>, off, a, b, n)
  <1> DEFINE q == <<s, d>>
             L == Len(log[q])
             o == off[q]
             key == Key(q)
             a == HeadBox(q, L, key, n, None)
             b == DataBox(q, L, key, n, <<>>, o, n)
  <1>1. q \in Pairs /\ q[1] = s /\ q[2] = d
    BY PairIn
  <1>2. L \in Nat /\ o \in [Nat -> Nat] /\ wNonce[q] = L /\ sent[q] = o[L] /\ L # 0
    BY <1>1, Writer
  <1>3. n \in Nat \ {0} /\ n \in Nat /\ Uint16(n) = n
    <2>1. MaxPayloadSize \in Nat
      BY DEF ShadowConstants
    <2>2. n \in 0 .. MaxPayloadSize /\ n # 0
      BY <2>1
    <2> QED  BY <2>2, Fits
  <1>4. /\ log' = [log EXCEPT ![q] = @ \o <<Box(key, L, 2, <<Uint16(n)>>, None, <<>>),
                                            Box(key, L + 1, n, <<>>, None, Bytes(s, d, sent[q] + 1, sent[q] + n))>>]
        /\ path' = [path EXCEPT ![q] = @ \o <<Box(key, L, 2, <<Uint16(n)>>, None, <<>>),
                                            Box(key, L + 1, n, <<>>, None, Bytes(s, d, sent[q] + 1, sent[q] + n))>>]
        /\ wNonce' = [wNonce EXCEPT ![q] = L + 1 + 1] /\ sent' = [sent EXCEPT ![q] = @ + n]
    BY <1>2 DEF WriteChunk, WriteTwo, NextNonce
  <1>5. sent' = [sent EXCEPT ![q] = o[L] + n]
    BY <1>2, <1>4
  <1> HIDE DEF L, o, key, q
  <1>6. L + 1 + 1 = L + 2 /\ HeadLen(q, L + 1) = 2
    <2>1. L + 1 + 1 = L + 2 /\ L + 1 > 1
      BY <1>2
    <2> QED  BY <2>1 DEF HeadLen
  <1>7. a \in Boxes /\ b \in Boxes /\ NextTwo(q, L, o, key, FirstSalt(q), a, b, n)
    <2>1. key \in PSKs \X Pairs
      BY DEF key, q
    <2>2. <<>> \in Seq(Nat) /\ Len(<<>>) # 1 /\ None \in Pairs \cup {None}
      OBVIOUS
    <2> QED  BY <1>1, <1>2, <1>3, <2>1, <2>2, TwoBoxes
  <1>8. a = Box(key, L, 2, <<Uint16(n)>>, None, <<>>)
    BY <1>3, <1>6 DEF HeadBox
  <1>9. b = Box(key, L + 1, n, <<>>, None, Bytes(s, d, sent[q] + 1, sent[q] + n))
    BY <1>1, <1>2 DEF DataBox
  <1> HIDE DEF a, b
  <1>10. /\ log' = [log EXCEPT ![q] = @ \o <<a, b>>] /\ path' = [path EXCEPT ![q] = @ \o <<a, b>>]
         /\ wNonce' = [wNonce EXCEPT ![q] = L + 2]
    BY <1>4, <1>6, <1>8, <1>9
  <1>11. Writes(q, off, a, b, n)
    BY <1>1, <1>3, <1>5, <1>7, <1>10 DEF Writes, L, o, key
  <1> QED  BY <1>11 DEF q

(* What a request is sealed with. *)
LEMMA ClientKey ==
  ASSUME Types, NEW s \in Sessions
  PROVE  /\ <<s, "c2s">> \in Pairs /\ Key(<<s, "c2s">>) = <<psk[s], Salt(s, "c2s")>>
         /\ Key(<<s, "c2s">>) \in PSKs \X Pairs /\ FirstSalt(<<s, "c2s">>) = None
  <1>1. <<s, "c2s">> \in Pairs /\ psk[s] \in PSKs
    BY PairIn, DirsAre DEF Types
  <1>2. Key(<<s, "c2s">>) = <<psk[s], <<s, "c2s">>>> /\ FirstSalt(<<s, "c2s">>) = None
    BY DEF Key, FirstSalt
  <1> QED  BY <1>1, <1>2 DEF Salt

(* What a response is sealed with. *)
LEMMA ServerKey ==
  ASSUME Types, NEW s \in Sessions, peer[s] # None
  PROVE  /\ <<s, "s2c">> \in Pairs /\ Key(<<s, "s2c">>) = <<peer[s][1], Salt(s, "s2c")>>
         /\ Key(<<s, "s2c">>) \in PSKs \X Pairs
         /\ FirstSalt(<<s, "s2c">>) = peer[s][2] /\ peer[s][2] \in Pairs
  <1>1. <<s, "s2c">> \in Pairs /\ peer[s] \in PSKs \X Pairs
    BY PairIn, DirsAre DEF Types
  <1>2. peer[s][1] \in PSKs /\ peer[s][2] \in Pairs
    BY <1>1
  <1>3. Key(<<s, "s2c">>) = <<peer[s][1], <<s, "s2c">>>> /\ FirstSalt(<<s, "s2c">>) = peer[s][2]
    BY DEF Key, FirstSalt
  <1> QED  BY <1>1, <1>2, <1>3 DEF Salt

(* One buffer of the excess payload: it fits into a chunk, for the buffer  *)
(* does.                                                                   *)
LEMMA WriteExcessKeeps ==
  ASSUME ShadowConstants, IInv, NEW s \in Sessions, WriteExcess(s)
  PROVE  IInv'
  <1> DEFINE q == <<s, "c2s">>
             e == excess[s]
             left == e[2] - e[1] + 1
             n == IF left < bufLen[s] THEN left ELSE bufLen[s]
  <1>1. Types /\ Excess
    BY DEF IInv
  <1>2. PICK off \in Offsets : Streams(off)
    BY DEF IInv
  <1>3. q \in Pairs /\ Key(q) = <<psk[s], Salt(s, "c2s")>> /\ Key(q) \in PSKs \X Pairs /\ "c2s" \in Dirs
    BY <1>1, ClientKey, DirsAre
  <1>4. /\ WriteChunk(s, "c2s", Key(q), n) /\ excess' = [excess EXCEPT ![s] = <<e[1] + n, e[2]>>]
        /\ UNCHANGED <<psk, bufLen, rpc, rKey, rNonce, rLen, delivered, peer, pool, forgotten, faults>>
    BY <1>3 DEF WriteExcess, readerVars
  <1>5. HasExcess(s) /\ bufLen[s] \in 1 .. MaxPayloadSize /\ Len(log[q]) # 0
    BY <1>1 DEF WriteExcess, Excess
  <1>6. e \in Nat \X Nat /\ e[1] <= e[2]
    BY <1>1, <1>5 DEF Types, HasExcess
  <1>7. n \in 1 .. MaxPayloadSize /\ e[1] + n \in Nat
    <2> DEFINE x == e[1]
               y == e[2]
               u == bufLen[s]
    <2>1. x \in Nat /\ y \in Nat /\ x <= y /\ u \in 1 .. MaxPayloadSize /\ MaxPayloadSize \in Nat
      BY <1>5, <1>6 DEF ShadowConstants
    <2> HIDE DEF x, y, u
    <2>2. ASSUME NEW k, k = IF y - x + 1 < u THEN y - x + 1 ELSE u PROVE k \in 1 .. MaxPayloadSize /\ x + k \in Nat
      BY <2>1, <2>2
    <2> QED  BY <2>2 DEF x, y, u
  <1> HIDE DEF n
  <1>8. \E a, b : Writes(q, off, a, b, n)
    BY <1>1, <1>2, <1>3, <1>4, <1>5, <1>7, ChunkWrites
  <1>9. PICK a, b : Writes(q, off, a, b, n)
    BY <1>8
  <1>10. excess' \in [Sessions -> Nat \X Nat] /\ bufLen' \in [Sessions -> Nat]
    BY <1>1, <1>4, <1>6, <1>7 DEF Types
  <1>11. Excess'
    <2>1. Written(q, off, a, b, n)
      BY <1>1, <1>2, <1>3, <1>9, WritesLog
    <2>2. Len(log'[q]) # 0 /\ \A p \in Pairs : p # q => log'[p] = log[p]
      <3>1. Len(log[q]) \in Nat /\ Len(log'[q]) = Len(log[q]) + 2
        BY <2>1 DEF Written
      <3> QED  BY <2>1, <3>1 DEF Written
    <2>3. ASSUME NEW x \in Sessions
          PROVE  HasExcess(x)' => bufLen'[x] \in 1 .. MaxPayloadSize /\ Len(log'[<<x, "c2s">>]) # 0
      <3>1. CASE x = s
        BY <1>4, <1>5, <2>2, <3>1
      <3>2. CASE x # s
        <4>1. excess'[x] = excess[x] /\ <<x, "c2s">> \in Pairs /\ <<x, "c2s">> # q
          BY <1>1, <1>4, <3>2, PairIn, DirsAre DEF Types
        <4>2. HasExcess(x) => bufLen[x] \in 1 .. MaxPayloadSize /\ Len(log[<<x, "c2s">>]) # 0
          BY <1>1 DEF Excess
        <4> QED  BY <1>4, <2>2, <4>1, <4>2 DEF HasExcess
      <3> QED  BY <3>1, <3>2
    <2> QED  BY <2>3 DEF Excess
  <1> QED  BY <1>2, <1>3, <1>9, <1>10, <1>11, WritesKeeps

(* A write of the client. *)
LEMMA ClientWriteKeeps ==
  ASSUME ShadowConstants, IInv, NEW s \in Sessions, ClientWrite(s)
  PROVE  IInv'
  <1> DEFINE q == <<s, "c2s">>
  <1>1. Types /\ Excess
    BY DEF IInv
  <1>2. PICK off \in Offsets : Streams(off)
    BY DEF IInv
  <1>3. q \in Pairs /\ Key(q) = <<psk[s], Salt(s, "c2s")>> /\ Key(q) \in PSKs \X Pairs /\ "c2s" \in Dirs
    BY <1>1, ClientKey, DirsAre
  <1>4. PICK n \in 1 .. MaxPayloadSize : WriteChunk(s, "c2s", Key(q), n)
    BY <1>3 DEF ClientWrite
  <1>5. /\ UNCHANGED <<psk, excess, bufLen, rpc, rKey, rNonce, rLen, delivered, peer, pool, forgotten, faults>>
        /\ wNonce[q] > 0
    BY DEF ClientWrite, clientVars, readerVars
  <1>6. Len(log[q]) # 0
    <2>1. wNonce[q] = -1 => Len(log[q]) = 0
      BY <1>1, <1>2, <1>3, Writer
    <2>2. wNonce[q] # -1
      BY <1>5
    <2> QED  BY <1>1, <1>2, <1>3, <2>2, Writer
  <1>7. \E a, b : Writes(q, off, a, b, n)
    BY <1>1, <1>2, <1>3, <1>4, <1>5, <1>6, ChunkWrites
  <1>8. PICK a, b : Writes(q, off, a, b, n)
    BY <1>7
  <1>9. excess' \in [Sessions -> Nat \X Nat] /\ bufLen' \in [Sessions -> Nat]
    BY <1>1, <1>5 DEF Types
  <1>10. Excess'
    BY <1>1, <1>2, <1>3, <1>5, <1>8, ExcessWrites
  <1> QED  BY <1>2, <1>3, <1>8, <1>9, <1>10, WritesKeeps

(* A write of the server, the first of which begins with the response      *)
(* header.                                                                 *)
LEMMA ServerWriteKeeps ==
  ASSUME ShadowConstants, IInv, NEW s \in Sessions, ServerWrite(s)
  PROVE  IInv'
  <1> DEFINE q == <<s, "s2c">>
             key == Key(q)
  <1>1. Types /\ Excess
    BY DEF IInv
  <1>2. PICK off \in Offsets : Streams(off)
    BY DEF IInv
  <1>3. peer[s] # None
    BY DEF ServerWrite, Accepted
  <1>4. /\ q \in Pairs /\ key = <<peer[s][1], Salt(s, "s2c")>> /\ key \in PSKs \X Pairs
        /\ FirstSalt(q) = peer[s][2] /\ peer[s][2] \in Pairs /\ "s2c" \in Dirs
    BY <1>1, <1>3, ServerKey, DirsAre
  <1>5. PICK n \in 1 .. MaxPayloadSize :
          IF wNonce[q] = -1
          THEN /\ WriteTwo(s, "s2c", Box(key, 0, FixedLen + SaltLen, <<Uint16(n)>>, peer[s][2], <<>>),
                           Box(key, NextNonce(0), n, <<>>, None, Bytes(s, "s2c", 1, n)), NextNonce(NextNonce(0)))
               /\ sent' = [sent EXCEPT ![q] = n]
          ELSE WriteChunk(s, "s2c", key, n)
    BY <1>4 DEF ServerWrite
  <1>6. UNCHANGED <<psk, excess, bufLen, rpc, rKey, rNonce, rLen, delivered, peer, pool, forgotten, faults>>
    BY DEF ServerWrite, clientVars, readerVars
  <1>7. \E a, b : Writes(q, off, a, b, n)
    <2>1. CASE wNonce[q] # -1
      <3>1. Len(log[q]) # 0
        BY <1>1, <1>2, <1>4, <2>1, Writer
      <3>2. WriteChunk(s, "s2c", Key(q), n)
        BY <1>5, <2>1
      <3> QED  BY <1>1, <1>2, <1>3, <1>4, <1>6, <3>1, <3>2, ChunkWrites
    <2>2. CASE wNonce[q] = -1
      <3> DEFINE L == Len(log[q])
                 o == off[q]
                 a == HeadBox(q, L, key, n, peer[s][2])
                 b == DataBox(q, L, key, n, <<>>, o, n)
      <3>1. L = 0 /\ L \in Nat /\ o \in [Nat -> Nat] /\ o[0] = 0
        BY <1>1, <1>2, <1>4, <2>2, Writer
      <3>2. n \in Nat \ {0} /\ n \in Nat /\ Uint16(n) = n
        <4>1. MaxPayloadSize \in Nat
          BY DEF ShadowConstants
        <4>2. n \in 0 .. MaxPayloadSize /\ n # 0
          BY <4>1
        <4> QED  BY <4>2, Fits
      <3>3. q[1] = s /\ q[2] = "s2c"
        OBVIOUS
      <3>4. a \in Boxes /\ b \in Boxes /\ NextTwo(q, L, o, key, FirstSalt(q), a, b, n)
        <4>1. <<>> \in Seq(Nat) /\ Len(<<>>) # 1 /\ peer[s][2] \in Pairs \cup {None}
          BY <1>4
        <4>2. ~ (q[2] = "c2s")
          BY <3>3
        <4> HIDE DEF key, q, o, L
        <4> QED  BY <1>4, <3>1, <3>2, <4>1, <4>2, TwoBoxes
      <3>5. a = Box(key, 0, FixedLen + SaltLen, <<Uint16(n)>>, peer[s][2], <<>>)
        <4>1. HeadLen(q, L + 1) = FixedLen + SaltLen
          BY <3>1, <3>3 DEF HeadLen
        <4> QED  BY <3>1, <3>2, <4>1 DEF HeadBox
      <3>6. b = Box(key, NextNonce(0), n, <<>>, None, Bytes(s, "s2c", 1, n)) /\ o[L] + n = n /\ NextNonce(NextNonce(0)) = L + 2
        <4>1. L + 1 = NextNonce(0) /\ o[L] + 1 = 1 /\ o[L] + n = n /\ NextNonce(NextNonce(0)) = L + 2
          BY <3>1, <3>2 DEF NextNonce
        <4> QED  BY <3>3, <4>1 DEF DataBox
      <3> HIDE DEF a, b, key
      <3>7. WriteTwo(s, "s2c", a, b, L + 2) /\ sent' = [sent EXCEPT ![q] = o[L] + n]
        BY <1>5, <2>2, <3>5, <3>6
      <3>8. Writes(q, off, a, b, n)
        BY <1>3, <1>6, <3>2, <3>3, <3>4, <3>7 DEF Writes, WriteTwo, key
      <3> QED  BY <3>8
    <2> QED  BY <2>1, <2>2
  <1>8. PICK a, b : Writes(q, off, a, b, n)
    BY <1>7
  <1>9. excess' \in [Sessions -> Nat \X Nat] /\ bufLen' \in [Sessions -> Nat]
    BY <1>1, <1>6 DEF Types
  <1>10. Excess'
    BY <1>1, <1>2, <1>4, <1>6, <1>8, ExcessWrites
  <1> QED  BY <1>2, <1>4, <1>8, <1>9, <1>10, WritesKeeps

(* The padded payload fits the variable-length header. *)
LEMMA PaddedIs ==
  ASSUME ShadowConstants, NEW a \in AddrLens, NEW n \in InitialPayloads, NEW padded \in PaddedLens(a, n)
  PROVE  /\ a \in Nat \ {0} /\ n \in Nat /\ MaxPayloadSize \in Nat /\ padded \in Nat \ {0}
         /\ a + 2 + padded \in 1 .. MaxPayloadSize
  <1>1. /\ MaxPayloadSize \in Nat /\ MaxPaddingLength \in Nat \ {0} /\ a \in Nat \ {0} /\ n \in Nat
        /\ MaxPaddingLength <= MaxPayloadSize - a - 2
    BY DEF ShadowConstants
  <1>2. padded \in 1 .. MaxPayloadSize - a - 2
    BY <1>1 DEF PaddedLens, Room
  <1> QED  BY <1>1, <1>2

(* The request: whatever the address, the payload and the padding, its     *)
(* header fits into 16 bits and parses.                                    *)
LEMMA RequestKeeps ==
  ASSUME ShadowConstants, IInv, NEW s \in Sessions, Request(s)
  PROVE  IInv'
  <1> DEFINE q == <<s, "c2s">>
             key == Key(q)
  <1>1. Types /\ Excess
    BY DEF IInv
  <1>2. PICK off \in Offsets : Streams(off)
    BY DEF IInv
  <1>3. /\ q \in Pairs /\ key = <<psk[s], Salt(s, "c2s")>> /\ key \in PSKs \X Pairs /\ FirstSalt(q) = None
        /\ q[1] = s /\ q[2] = "c2s"
    BY <1>1, ClientKey
  <1>4. PICK addr \in AddrLens, n \in InitialPayloads : \E padded \in PaddedLens(addr, n) :
          LET own == IF n > padded THEN padded ELSE n
              vhlen == addr + 2 + padded IN
          /\ WriteTwo(s, "c2s", Box(key, 0, FixedLen, <<Uint16(vhlen)>>, None, <<>>),
                      Box(key, NextNonce(0), vhlen, <<addr, Uint16(padded - own)>>, None, Bytes(s, "c2s", 1, own)),
                      NextNonce(NextNonce(0)))
          /\ sent' = [sent EXCEPT ![q] = own] /\ excess' = [excess EXCEPT ![s] = <<own + 1, n>>]
          /\ bufLen' = [bufLen EXCEPT ![s] = vhlen]
    BY <1>3, ZenonT(40) DEF Request
  <1>5. PICK padded \in PaddedLens(addr, n) :
          LET own == IF n > padded THEN padded ELSE n
              vhlen == addr + 2 + padded IN
          /\ WriteTwo(s, "c2s", Box(key, 0, FixedLen, <<Uint16(vhlen)>>, None, <<>>),
                      Box(key, NextNonce(0), vhlen, <<addr, Uint16(padded - own)>>, None, Bytes(s, "c2s", 1, own)),
                      NextNonce(NextNonce(0)))
          /\ sent' = [sent EXCEPT ![q] = own] /\ excess' = [excess EXCEPT ![s] = <<own + 1, n>>]
          /\ bufLen' = [bufLen EXCEPT ![s] = vhlen]
    BY <1>4
  <1> DEFINE own == IF n > padded THEN padded ELSE n
             vhlen == addr + 2 + padded
             rest == padded - own
  <1>6. /\ WriteTwo(s, "c2s", Box(key, 0, FixedLen, <<Uint16(vhlen)>>, None, <<>>),
                    Box(key, NextNonce(0), vhlen, <<addr, Uint16(rest)>>, None, Bytes(s, "c2s", 1, own)),
                    NextNonce(NextNonce(0)))
        /\ sent' = [sent EXCEPT ![q] = own] /\ excess' = [excess EXCEPT ![s] = <<own + 1, n>>]
        /\ bufLen' = [bufLen EXCEPT ![s] = vhlen]
    BY <1>5
  <1>7. /\ UNCHANGED <<psk, rpc, rKey, rNonce, rLen, delivered, peer, pool, forgotten, faults>>
        /\ wNonce[q] = -1
    BY DEF Request, readerVars
  <1>8. /\ addr \in Nat \ {0} /\ n \in Nat /\ MaxPayloadSize \in Nat /\ padded \in Nat \ {0}
        /\ vhlen \in 1 .. MaxPayloadSize
    BY <1>4, <1>5, PaddedIs
  <1>9. /\ own \in Nat /\ own + 1 \in Nat /\ rest \in 0 .. MaxPayloadSize /\ vhlen \in 0 .. MaxPayloadSize
        /\ vhlen \in Nat \ {0} /\ vhlen - addr > 2 /\ 2 + rest <= vhlen - addr
    <2> HIDE DEF q, key
    <2> QED  BY <1>8
  <1>10. Uint16(vhlen) = vhlen /\ Uint16(rest) = rest /\ rest \in Nat
    <2> HIDE DEF vhlen, rest
    <2> QED  BY <1>9, Fits
  <1> DEFINE L == Len(log[q])
             o == off[q]
             m == <<addr, rest>>
             a == HeadBox(q, L, key, vhlen, None)
             b == DataBox(q, L, key, vhlen, m, o, own)
  <1>11. L = 0 /\ L \in Nat /\ o \in [Nat -> Nat] /\ o[0] = 0
    BY <1>1, <1>2, <1>3, <1>7, Writer
  <1>12. m \in Seq(Nat) /\ Len(m) = 2 /\ m[1] = addr /\ m[2] = rest
    <2> HIDE DEF rest
    <2> QED  BY <1>8, <1>10
  <1> HIDE DEF own, vhlen, rest, m
  <1>13. VariableHeaderOk(b)
    <2>1. b.len = vhlen /\ b.n = m
      BY DEF DataBox, Box
    <2> HIDE DEF b
    <2> QED  BY <1>9, <1>12, <2>1 DEF VariableHeaderOk
  <1>14. a \in Boxes /\ b \in Boxes /\ NextTwo(q, L, o, key, FirstSalt(q), a, b, own)
    <2>1. None \in Pairs \cup {None} /\ Len(m) # 1
      BY <1>12
    <2> HIDE DEF key, q, o, L
    <2> QED  BY <1>3, <1>9, <1>11, <1>12, <1>13, <2>1, TwoBoxes
  <1>15. a = Box(key, 0, FixedLen, <<Uint16(vhlen)>>, None, <<>>)
    <2>1. HeadLen(q, L + 1) = FixedLen
      BY <1>3, <1>11 DEF HeadLen
    <2> QED  BY <1>10, <1>11, <2>1 DEF HeadBox
  <1>16. /\ b = Box(key, NextNonce(0), vhlen, <<addr, Uint16(rest)>>, None, Bytes(s, "c2s", 1, own))
         /\ o[L] + own = own /\ NextNonce(NextNonce(0)) = L + 2
    <2>1. L + 1 = NextNonce(0) /\ o[L] + 1 = 1 /\ o[L] + own = own /\ NextNonce(NextNonce(0)) = L + 2
      BY <1>9, <1>11 DEF NextNonce
    <2>2. m = <<addr, Uint16(rest)>>
      BY <1>10 DEF m
    <2> QED  BY <1>3, <2>1, <2>2 DEF DataBox
  <1> HIDE DEF a, b, key
  <1>17. WriteTwo(s, "c2s", a, b, L + 2) /\ sent' = [sent EXCEPT ![q] = o[L] + own]
    BY <1>6, <1>15, <1>16
  <1>18. Writes(q, off, a, b, own)
    BY <1>3, <1>7, <1>9, <1>14, <1>17 DEF Writes, WriteTwo, key
  <1>19. /\ excess \in [Sessions -> Nat \X Nat] /\ bufLen \in [Sessions -> Nat]
         /\ excess' \in [Sessions -> Nat \X Nat] /\ bufLen' \in [Sessions -> Nat]
    BY <1>1, <1>6, <1>8, <1>9 DEF Types
  <1>20. Excess'
    <2>1. Written(q, off, a, b, own)
      BY <1>1, <1>2, <1>3, <1>18, WritesLog
    <2>2. Len(log'[q]) # 0 /\ \A p \in Pairs : p # q => log'[p] = log[p]
      <3>1. Len(log[q]) \in Nat /\ Len(log'[q]) = Len(log[q]) + 2
        BY <2>1 DEF Written
      <3> QED  BY <2>1, <3>1 DEF Written
    <2>3. ASSUME NEW x \in Sessions
          PROVE  HasExcess(x)' => bufLen'[x] \in 1 .. MaxPayloadSize /\ Len(log'[<<x, "c2s">>]) # 0
      <3>1. CASE x = s
        <4>1. bufLen'[s] = vhlen
          BY <1>6, <1>19
        <4> QED  BY <1>8, <2>2, <3>1, <4>1
      <3>2. CASE x # s
        <4>1. excess'[x] = excess[x] /\ bufLen'[x] = bufLen[x] /\ <<x, "c2s">> \in Pairs /\ <<x, "c2s">> # q
          BY <1>6, <1>19, <3>2, PairIn, DirsAre
        <4>2. HasExcess(x) => bufLen[x] \in 1 .. MaxPayloadSize /\ Len(log[<<x, "c2s">>]) # 0
          BY <1>1 DEF Excess
        <4> QED  BY <2>2, <4>1, <4>2 DEF HasExcess
      <3> QED  BY <3>1, <3>2
    <2> QED  BY <2>3 DEF Excess
  <1> QED  BY <1>2, <1>3, <1>18, <1>19, <1>20, WritesKeeps

-----------------------------------------------------------------------------
(* The invariant holds. *)

(* The invariant holds when nothing has been sent. *)
LEMMA StreamStarts ==
  ASSUME ShadowConstants, Init
  PROVE  IInv
  <1>1. /\ psk \in [Sessions -> PSKs] /\ faults = 0 /\ pool = {} /\ forgotten = {}
        /\ excess = [s \in Sessions |-> <<1, 0>>] /\ bufLen = [s \in Sessions |-> 0]
        /\ peer = [s \in Sessions |-> None]
        /\ wNonce = [p \in Pairs |-> -1] /\ sent = [p \in Pairs |-> 0]
        /\ log = [p \in Pairs |-> <<>>] /\ path = log /\ delivered = log
        /\ rpc = [p \in Pairs |-> "header"] /\ rKey = [p \in Pairs |-> None]
        /\ rNonce = [p \in Pairs |-> 0] /\ rLen = rNonce
    BY DEF Init, Pairs
  <1>2. \A p \in Pairs : /\ log[p] = <<>> /\ path[p] = <<>> /\ delivered[p] = <<>> /\ wNonce[p] = -1 /\ sent[p] = 0
                         /\ rpc[p] = "header" /\ rKey[p] = None /\ rNonce[p] = 0
    BY <1>1
  <1>3. Types
    <2>1. <<>> \in Seq(Boxes) /\ <<>> \in Seq(Plain) /\ <<1, 0>> \in Nat \X Nat
      OBVIOUS
    <2> QED  BY <1>1, <2>1 DEF Types
  <1>4. Served
    <2>1. \A s \in Sessions : peer[s] = None /\ log[<<s, "s2c">>] = <<>>
      BY <1>1, <1>2, PairIn, DirsAre
    <2>2. Len(<<>>) = 0
      OBVIOUS
    <2>3. \A s \in Sessions : Len(log[<<s, "s2c">>]) = 0
      BY <2>1, <2>2
    <2>4. ServedOnce
      BY <2>1 DEF ServedOnce
    <2> QED  BY <2>1, <2>3, <2>4 DEF Served
  <1>5. Excess
    BY <1>1 DEF Excess, HasExcess
  <1>6. Undisturbed
    <2>1. \A p \in Pairs : Quiet(p)
      <3> TAKE p \in Pairs
      <3>1. SubSeq(<<>>, 0 + 1, Len(<<>>)) = <<>>
        OBVIOUS
      <3>2. path[p] = SubSeq(log[p], rNonce[p] + 1, Len(log[p]))
        BY <1>2, <3>1
      <3>3. rpc[p] # "failed" /\ rKey[p] = None
        BY <1>2
      <3> QED  BY <3>2, <3>3 DEF Quiet
    <2>2. \A s \in Sessions : Own(s)
      BY <1>1 DEF Own
    <2> QED  BY <2>1, <2>2 DEF Undisturbed
  <1>7. \A p \in Pairs : Carried(p)
    BY <1>2 DEF Carried
  <1>8. \E off \in Offsets : Streams(off)
    <2> DEFINE off == [p \in Pairs |-> [j \in Nat |-> 0]]
    <2>1. off \in Offsets /\ \A p \in Pairs : off[p][0] = 0
      BY DEF Offsets
    <2> HIDE DEF off
    <2>2. ASSUME NEW p \in Pairs PROVE Sealed(p, off) /\ Received(p, off)
      <3>1. GoodStream(p, <<>>, off[p], Key(p), FirstSalt(p))
        BY <2>1 DEF GoodStream
      <3> QED  BY <1>2, <2>1, <3>1 DEF Sealed, Received
    <2> QED  BY <2>1, <2>2 DEF Streams
  <1> QED  BY <1>3, <1>4, <1>5, <1>6, <1>7, <1>8 DEF IInv

(* Every step of clients, servers and paths keeps the invariant. *)
LEMMA StreamSteps ==
  ASSUME ShadowConstants, IInv, [Next]_vars
  PROVE  IInv'
  <1>1. ASSUME NEW s \in Sessions,
               Request(s) \/ WriteExcess(s) \/ ClientWrite(s) \/ ServerHeader(s) \/ ServerVariable(s)
               \/ ServerWrite(s) \/ ClientHeader(s)
        PROVE  IInv'
    BY <1>1, RequestKeeps, WriteExcessKeeps, ClientWriteKeeps, ServerHeaderKeeps, ServerVariableKeeps,
       ServerWriteKeeps, ClientHeaderKeeps
  <1>2. ASSUME NEW s \in Sessions, NEW d \in Dirs,
               ReadLength(s, d) \/ ReadPayload(s, d) \/ ReadEnds(s, d) \/ HeaderRefused(s, d)
               \/ CloseWrite(s, d) \/ Disturb(s, d) \/ Cut(s, d)
        PROVE  IInv'
    BY <1>2, ReadLengthKeeps, ReadPayloadKeeps, ReadEndsKeeps, HeaderRefusedKeeps, CloseWriteKeeps, DisturbKeeps,
       CutKeeps
  <1>3. ASSUME NEW s \in Sessions, NEW t \in Sessions, NEW d \in Dirs, CarryOver(s, t, d)
        PROVE  IInv'
    BY <1>3, CarryOverKeeps
  <1>4. CASE Finished \/ UNCHANGED vars
    BY <1>4, StutterKeeps DEF Finished
  <1> QED  BY <1>1, <1>2, <1>3, <1>4 DEF Next

(* The properties of the streams follow. *)
LEMMA StreamDelivered ==
  ASSUME IInv
  PROVE  DeliveredInOrder /\ ResponsesAnswerTheRequest
  <1>1. PICK off \in Offsets : Streams(off)
    BY DEF IInv
  <1>2. Types
    BY DEF IInv
  <1>3. ASSUME NEW p \in Pairs
        PROVE  \/ delivered[p] = <<>>
               \/ \E t \in Sessions : \E n \in Nat :
                    /\ delivered[p] = Bytes(t, p[2], 1, n) /\ n <= sent[<<t, p[2]>>]
                    /\ p[2] = "s2c" => peer[t] = <<psk[p[1]], <<p[1], "c2s">>>>
    <2>1. Received(p, off)
      BY <1>1 DEF Streams
    <2>2. CASE rKey[p] = None
      BY <2>1, <2>2 DEF Received
    <2>3. CASE rKey[p] # None
      <3>1. PICK t \in Sessions : ReaderOf(p, t, off)
        BY <2>1, <2>3 DEF Received
      <3> DEFINE q == <<t, p[2]>>
                 r == rNonce[p]
                 L == Len(log[q])
      <3>2. q \in Pairs /\ q[1] = t /\ q[2] = p[2]
        BY DEF Pairs
      <3>3. log[q] \in Seq(Boxes) /\ off[q] \in [Nat -> Nat]
        BY <1>2, <3>2 DEF Types, Offsets
      <3>4. L \in Nat /\ r \in 1 .. L /\ delivered[p] = Bytes(t, p[2], 1, off[q][r])
        BY <3>1, <3>2, <3>3 DEF ReaderOf, At
      <3>5. sent[q] = off[q][L] /\ \A j \in 0 .. L : off[q][j] <= off[q][L]
        BY <1>1, <3>2 DEF Streams, Sealed, GoodStream
      <3> HIDE DEF q, r, L
      <3>6. r \in 0 .. L /\ r \in Nat
        BY <3>4
      <3>7. off[q][r] \in Nat /\ off[q][r] <= sent[q]
        BY <3>3, <3>5, <3>6
      <3>8. p[2] = "s2c" => peer[t] = <<psk[p[1]], <<p[1], "c2s">>>>
        BY <3>1 DEF ReaderOf
      <3> QED  BY <3>4, <3>7, <3>8 DEF q
    <2> QED  BY <2>2, <2>3
  <1>4. DeliveredInOrder
    <2> SUFFICES ASSUME NEW s \in Sessions, NEW d \in Dirs
                 PROVE  \E t \in Sessions : /\ delivered[<<s, d>>] = Bytes(t, d, 1, Len(delivered[<<s, d>>]))
                                            /\ Len(delivered[<<s, d>>]) <= sent[<<t, d>>]
      BY DEF DeliveredInOrder
    <2>1. <<s, d>> \in Pairs /\ <<s, d>>[2] = d
      BY DEF Pairs
    <2>2. CASE delivered[<<s, d>>] = <<>>
      <3>1. Len(<<>>) = 0 /\ 0 \in Nat /\ 0 + 1 = 1
        OBVIOUS
      <3>2. Bytes(s, d, 0 + 1, 0) = <<>>
        BY <3>1, NoBytes
      <3>3. sent[<<s, d>>] \in Nat
        BY <1>2, <2>1 DEF Types
      <3> QED  BY <2>2, <3>1, <3>2, <3>3
    <2>3. CASE delivered[<<s, d>>] # <<>>
      <3>1. PICK t \in Sessions, n \in Nat : delivered[<<s, d>>] = Bytes(t, d, 1, n) /\ n <= sent[<<t, d>>]
        BY <1>3, <2>1, <2>3
      <3>2. Len(Bytes(t, d, 1, n)) = n
        BY FirstBytes
      <3> QED  BY <3>1, <3>2
    <2> QED  BY <2>2, <2>3
  <1>5. ResponsesAnswerTheRequest
    <2> SUFFICES ASSUME NEW s \in Sessions, NEW i \in DOMAIN delivered[<<s, "s2c">>]
                 PROVE  peer[delivered[<<s, "s2c">>][i][1]] = <<psk[s], <<s, "c2s">>>>
      BY DEF ResponsesAnswerTheRequest, Salt
    <2>1. <<s, "s2c">> \in Pairs /\ <<s, "s2c">>[2] = "s2c" /\ <<s, "s2c">>[1] = s /\ "s2c" \in Dirs
      BY DEF Pairs, Dirs
    <2>2. delivered[<<s, "s2c">>] # <<>>
      OBVIOUS
    <2>3. PICK t \in Sessions, n \in Nat :
            /\ delivered[<<s, "s2c">>] = Bytes(t, "s2c", 1, n)
            /\ peer[t] = <<psk[s], <<s, "c2s">>>>
      BY <1>3, <2>1, <2>2
    <2>4. /\ Bytes(t, "s2c", 1, n) \in Seq(Sessions \X Dirs \X Nat) /\ Len(Bytes(t, "s2c", 1, n)) = n
          /\ \A k \in 1 .. n : Bytes(t, "s2c", 1, n)[k] = <<t, "s2c", k>>
      BY <2>1, FirstBytes
    <2>5. i \in 1 .. n
      BY <2>3, <2>4
    <2>6. delivered[<<s, "s2c">>][i][1] = t
      BY <2>3, <2>4, <2>5
    <2> QED  BY <2>3, <2>6
  <1> QED  BY <1>4, <1>5

(* No key is used with a nonce twice, for each stream has a salt of its    *)
(* own and counts its boxes.                                               *)
LEMMA StreamSealed ==
  ASSUME IInv
  PROVE  NoncesUsedOnce
  <1>1. PICK off \in Offsets : Streams(off)
    BY DEF IInv
  <1>2. Types
    BY DEF IInv
  <1>3. ASSUME NEW p \in Pairs, NEW i \in DOMAIN log[p]
        PROVE  log[p][i].key[2] = p /\ log[p][i].nonce = i - 1 /\ i \in Nat
    <2>1. log[p] \in Seq(Boxes)
      BY <1>2 DEF Types
    <2>2. i \in 1 .. Len(log[p]) /\ i \in Nat
      BY <2>1
    <2>3. log[p][i].key = Key(p) /\ log[p][i].nonce = i - 1
      BY <1>1, <2>2 DEF Streams, Sealed, GoodStream, GoodBox
    <2> QED  BY <2>2, <2>3 DEF Key
  <1>4. ASSUME NEW p \in Pairs, NEW q \in Pairs, NEW i \in DOMAIN log[p], NEW j \in DOMAIN log[q],
               log[p][i].key = log[q][j].key, log[p][i].nonce = log[q][j].nonce
        PROVE  p = q /\ i = j
    <2>1. log[p][i].key[2] = p /\ log[p][i].nonce = i - 1 /\ i \in Nat
      BY <1>3
    <2>2. log[q][j].key[2] = q /\ log[q][j].nonce = j - 1 /\ j \in Nat
      BY <1>3
    <2>3. i - 1 = j - 1
      BY <1>4, <2>1, <2>2
    <2> QED  BY <1>4, <2>1, <2>2, <2>3
  <1> QED  BY <1>4 DEF NoncesUsedOnce, Pairs

(* The invariant implies what is said of the streams. *)
LEMMA StreamFollows ==
  ASSUME IInv
  PROVE  DeliveredInOrder /\ NoncesUsedOnce /\ OwnStreamsAccepted /\ ServedOnce /\ ResponsesAnswerTheRequest
  <1>1. DeliveredInOrder /\ ResponsesAnswerTheRequest /\ NoncesUsedOnce
    BY StreamDelivered, StreamSealed
  <1>2. OwnStreamsAccepted
    <2> SUFFICES ASSUME NEW s \in Sessions, NEW d \in Dirs, rpc[<<s, d>>] = "failed", faults = 0
                 PROVE  ~Known(psk[s])
      BY DEF OwnStreamsAccepted
    <2>1. <<s, d>> \in Pairs /\ <<s, d>>[1] = s
      BY DEF Pairs
    <2>2. Quiet(<<s, d>>)
      BY <2>1 DEF IInv, Undisturbed
    <2> QED  BY <2>1, <2>2 DEF Quiet
  <1> QED  BY <1>1, <1>2 DEF IInv, Served

=============================================================================
