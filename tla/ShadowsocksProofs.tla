------------------------- MODULE ShadowsocksProofs -------------------------
(***************************************************************************)
(* No packet and no request is accepted twice: the sliding window filter,  *)
(* the client unpacker that keeps a filter for each of the two server      *)
(* sessions it knows, the server, which forgets a session and its filter   *)
(* some time after the last packet, and the salt pool.  For every block    *)
(* size and number of ring blocks, every counter range, clock, number of   *)
(* sessions and of session changes, of handlers and of salts.              *)
(*                                                                         *)
(* And the buffers packets are unpacked and packed in are large enough,    *)
(* for every combination of protocols that meets HeadroomAssumption, every *)
(* MTU, address, padding and payload.                                      *)
(***************************************************************************)
EXTENDS SlidingWindow, ShadowPacketClient, ShadowPacketServer, SaltPool,
        PacketHeadroom, SequenceTheorems, TLAPS

-----------------------------------------------------------------------------
(* The operators of the filter *)

(* Quotient and remainder of a natural number. *)
LEMMA DivMod ==
  ASSUME NEW n \in Nat, NEW d \in Nat \ {0}
  PROVE  /\ n \div d \in Nat
         /\ n % d \in 0 .. d - 1
         /\ n = d * (n \div d) + (n % d)
  BY Z3

(* A positive multiple of d is at least d. *)
LEMMA MultipleAtLeast ==
  ASSUME NEW d \in Nat \ {0}, NEW k \in Nat \ {0}
  PROVE  d * k >= d
  BY Z3

(* Quotient and remainder are unique. *)
LEMMA DivModUnique ==
  ASSUME NEW d \in Nat \ {0}, NEW q \in Nat, NEW r \in 0 .. d - 1
  PROVE  /\ (d * q + r) \div d = q
         /\ (d * q + r) % d = r
  <1> DEFINE n  == d * q + r
             q2 == n \div d
             r2 == n % d
  <1>1. n \in Nat
    <2>1. d * q \in Nat
      BY Z3
    <2> QED  BY <2>1
  <1>2. q2 \in Nat /\ r2 \in 0 .. d - 1 /\ n = d * q2 + r2
    BY <1>1, DivMod
  <1> HIDE DEF q2, r2
  <1>3. d * q + r = d * q2 + r2
    BY <1>2
  <1>4. ~ q > q2
    <2> SUFFICES ASSUME q > q2 PROVE FALSE
      OBVIOUS
    <2>1. q - q2 \in Nat \ {0}
      BY <1>2
    <2>2. d * (q - q2) >= d
      BY <2>1, MultipleAtLeast
    <2>3. d * (q - q2) = d * q - d * q2
      BY <1>2, Z3
    <2> HIDE DEF n
    <2>4. d * q \in Int /\ d * q2 \in Int
      BY <1>2, Z3
    <2> QED  BY <1>2, <1>3, <2>2, <2>3, <2>4
  <1>5. ~ q2 > q
    <2> SUFFICES ASSUME q2 > q PROVE FALSE
      OBVIOUS
    <2>1. q2 - q \in Nat \ {0}
      BY <1>2
    <2>2. d * (q2 - q) >= d
      BY <2>1, MultipleAtLeast
    <2>3. d * (q2 - q) = d * q2 - d * q
      BY <1>2, Z3
    <2>4. d * q \in Int /\ d * q2 \in Int
      BY <1>2, Z3
    <2> QED  BY <1>2, <1>3, <2>2, <2>3, <2>4
  <1>6. q = q2
    BY <1>2, <1>4, <1>5
  <1>7. r = r2
    <2>1. d * q \in Int
      BY Z3
    <2> QED  BY <1>2, <1>3, <1>6, <2>1
  <1> QED  BY <1>6, <1>7 DEF q2, r2

(* Adding a multiple of d changes no remainder. *)
LEMMA ModPlusMultiple ==
  ASSUME NEW d \in Nat \ {0}, NEW n \in Nat, NEW k \in Nat
  PROVE  (n + d * k) % d = n % d
  <1> DEFINE q == n \div d
             r == n % d
  <1>1. q \in Nat /\ r \in 0 .. d - 1 /\ n = d * q + r
    BY DivMod
  <1> HIDE DEF q, r
  <1>2. n + d * k = d * (q + k) + r
    BY <1>1, Z3
  <1>3. (d * (q + k) + r) % d = r
    BY <1>1, DivModUnique
  <1> QED  BY <1>2, <1>3 DEF r

(* Two block numbers less than a ring apart share a slot only if equal. *)
LEMMA SlotInjective ==
  ASSUME NEW p \in Nat, NEW q \in Nat,
         p <= q, q < p + RingBlocks, Slot(p) = Slot(q)
  PROVE  p = q
  <1> DEFINE R == RingBlocks
             a == p \div R
             b == q \div R
  <1>1. R \in Nat \ {0}
    BY FilterAssumption
  <1>2. a \in Nat /\ p % R \in 0 .. R - 1 /\ p = R * a + (p % R)
    BY <1>1, DivMod
  <1>3. b \in Nat /\ q % R \in 0 .. R - 1 /\ q = R * b + (q % R)
    BY <1>1, DivMod
  <1>4. p % R = q % R
    BY DEF Slot
  <1> HIDE DEF a, b
  <1>5. R * a \in Int /\ R * b \in Int /\ R * (b - a) = R * b - R * a
    BY <1>1, <1>2, <1>3, Z3
  <1>6. R * (b - a) >= 0 /\ R * (b - a) < R
    BY <1>1, <1>2, <1>3, <1>4, <1>5
  <1>7. ~ b > a
    <2> SUFFICES ASSUME b > a PROVE FALSE
      OBVIOUS
    <2>1. b - a \in Nat \ {0}
      BY <1>2, <1>3
    <2> QED  BY <1>1, <1>6, <2>1, MultipleAtLeast
  <1>8. b <= a
    BY <1>2, <1>3, <1>7
  <1>9. R * b <= R * a
    BY <1>1, <1>2, <1>3, <1>8, Z3
  <1> QED  BY <1>1, <1>2, <1>3, <1>4, <1>5, <1>9

(* A counter is determined by its block and its bit. *)
LEMMA BlockAndBit ==
  ASSUME NEW c \in Nat, NEW d \in Nat, Block(c) = Block(d), Bit(c) = Bit(d)
  PROVE  c = d
  <1>1. c = BlockBits * Block(c) + Bit(c)
    BY FilterAssumption, DivMod DEF Block, Bit
  <1>2. d = BlockBits * Block(d) + Bit(d)
    BY FilterAssumption, DivMod DEF Block, Bit
  <1> QED  BY <1>1, <1>2

(* Types of the block, slot and bit numbers. *)
LEMMA BlockTypes ==
  ASSUME NEW c \in Nat
  PROVE  Block(c) \in Nat /\ Slot(c) \in Slots /\ Bit(c) \in Bits
  BY FilterAssumption, DivMod DEF Block, Slot, Bit, Slots, Bits

(* A later counter is in the same or in a later block. *)
LEMMA BlockMonotonic ==
  ASSUME NEW c \in Nat, NEW d \in Nat, c <= d
  PROVE  Block(c) <= Block(d)
  <1> DEFINE B == BlockBits
             p == c \div B
             q == d \div B
  <1>1. B \in Nat \ {0}
    BY FilterAssumption
  <1>2. p \in Nat /\ c % B \in 0 .. B - 1 /\ c = B * p + (c % B)
    BY <1>1, DivMod
  <1>3. q \in Nat /\ d % B \in 0 .. B - 1 /\ d = B * q + (d % B)
    BY <1>1, DivMod
  <1> HIDE DEF p, q
  <1>4. B * p \in Int /\ B * q \in Int /\ B * (p - q) = B * p - B * q
    BY <1>1, <1>2, <1>3, Z3
  <1>5. ~ p > q
    <2> SUFFICES ASSUME p > q PROVE FALSE
      OBVIOUS
    <2>1. p - q \in Nat \ {0}
      BY <1>2, <1>3
    <2>2. B * (p - q) >= B
      BY <1>1, <2>1, MultipleAtLeast
    <2> QED  BY <1>1, <1>2, <1>3, <1>4, <2>2
  <1> QED  BY <1>2, <1>3, <1>5 DEF p, q, Block

(* Every counter IsOk looks up, one at most Size behind the last, is in a  *)
(* block the ring holds.                                                   *)
LEMMA WindowInRing ==
  ASSUME NEW f \in FilterType, NEW c \in Nat,
         ~ AheadOfWindow(f, c), ~ BehindWindow(f, c)
  PROVE  InRing(f, c)
  <1> DEFINE B == BlockBits
             p == c \div B
             q == f.last \div B
             R == RingBlocks
  <1>0. B \in Nat \ {0} /\ R \in Nat \ {0}
    BY FilterAssumption
  <1>1. f.last \in Nat
    BY DEF FilterType
  <1>2. p \in Nat /\ c % B \in 0 .. B - 1 /\ c = B * p + (c % B)
    BY <1>0, DivMod
  <1>3. q \in Nat /\ f.last % B \in 0 .. B - 1 /\ f.last = B * q + (f.last % B)
    BY <1>0, <1>1, DivMod
  <1>4. Block(c) <= Block(f.last)
    BY <1>1, BlockMonotonic DEF AheadOfWindow
  <1>5. f.last - c <= (R - 1) * B
    <2>1. (R - 1) * B \in Int
      BY <1>0, Z3
    <2> QED  BY <1>1, <2>1 DEF BehindWindow, Size
  <1> HIDE DEF p, q
  <1>6. ~ q >= p + R
    <2> SUFFICES ASSUME q >= p + R PROVE FALSE
      OBVIOUS
    <2>1. B * q >= B * (p + R)
      BY <1>0, <1>2, <1>3, Z3
    <2>2. /\ B * (p + R) = B * p + B * R
          /\ (R - 1) * B = B * R - B
          /\ B * p \in Int /\ B * R \in Int /\ B * q \in Int
      BY <1>0, <1>2, <1>3, Z3
    <2> QED  BY <1>0, <1>1, <1>2, <1>3, <1>5, <2>1, <2>2
  <1>7. q < p + R
    BY <1>0, <1>2, <1>3, <1>6
  <1> QED  BY <1>4, <1>7 DEF InRing, Block, p, q

(* The zero filter remembers nothing. *)
LEMMA EmptyRepresents ==
  ASSUME NEW C, C \subseteq Nat
  PROVE  Represents(EmptyFilter, {}, C)
  <1>1. EmptyFilter \in FilterType
    BY DEF EmptyFilter, FilterType
  <1>2. \A c \in C : ~ BitIsSet(EmptyFilter, c)
    <2> SUFFICES ASSUME NEW c \in C PROVE ~ BitIsSet(EmptyFilter, c)
      OBVIOUS
    <2>1. Slot(Block(c)) \in Slots
      BY BlockTypes
    <2> QED  BY <2>1 DEF BitIsSet, EmptyFilter
  <1> QED  BY <1>1, <1>2 DEF Represents, WindowHolds, EmptyFilter

(* Reset clears one block, and that is enough: the other blocks are not    *)
(* part of the window of a filter whose last counter is 0.                 *)
LEMMA ResetRepresents ==
  ASSUME NEW f \in FilterType, NEW C, C \subseteq Nat
  PROVE  Represents(Reset(f), {}, C)
  <1> DEFINE g == Reset(f)
  <1>1. 0 \in Slots /\ g.last = 0 /\ g.ring[0] = {}
    BY FilterAssumption DEF Reset, FilterType, Slots
  <1>2. g \in FilterType
    BY <1>1 DEF Reset, FilterType
  <1>3. ASSUME NEW c \in C, InRing(g, c) PROVE ~ BitIsSet(g, c)
    <2>1. Block(0) = 0
      <3>1. BlockBits * 0 + 0 = 0 /\ 0 \in 0 .. BlockBits - 1
        BY FilterAssumption, Z3
      <3> QED  BY <3>1, FilterAssumption, DivModUnique DEF Block
    <2>2. Block(c) = 0
      BY <1>1, <1>3, <2>1, BlockTypes DEF InRing
    <2>3. Slot(0) = 0
      <3>1. RingBlocks * 0 + 0 = 0 /\ 0 \in 0 .. RingBlocks - 1
        BY FilterAssumption, Z3
      <3> QED  BY <3>1, FilterAssumption, DivModUnique DEF Slot
    <2> QED  BY <1>1, <2>2, <2>3 DEF BitIsSet
  <1> QED  BY <1>1, <1>2, <1>3 DEF Represents, WindowHolds

(* The filter's answer is the replay filter's: a counter passes exactly    *)
(* when it is fresh and not behind the window.                             *)
LEMMA IsOkExact ==
  ASSUME NEW f, NEW acc, NEW C, C \subseteq Nat, Represents(f, acc, C),
         NEW c \in C
  PROVE  IsOk(f, c) <=> c \notin acc /\ ~ BehindWindow(f, c)
  <1>1. f \in FilterType /\ f.last \in Nat /\ acc \subseteq 0 .. f.last
    BY DEF Represents, FilterType
  <1>2. Size \in Nat
    BY FilterAssumption, Z3 DEF Size
  <1>3. CASE AheadOfWindow(f, c)
    <2>1. c \notin acc
      BY <1>1, <1>3 DEF AheadOfWindow
    <2>2. ~ BehindWindow(f, c)
      BY <1>1, <1>2, <1>3 DEF AheadOfWindow, BehindWindow
    <2> QED  BY <1>3, <2>1, <2>2 DEF IsOk
  <1>4. CASE ~ AheadOfWindow(f, c) /\ ~ BehindWindow(f, c)
    <2>1. InRing(f, c)
      BY <1>1, <1>4, WindowInRing
    <2>2. BitIsSet(f, c) <=> c \in acc
      BY <2>1 DEF Represents, WindowHolds
    <2> QED  BY <1>4, <2>2 DEF IsOk
  <1>5. CASE ~ AheadOfWindow(f, c) /\ BehindWindow(f, c)
    BY <1>5 DEF IsOk
  <1> QED  BY <1>3, <1>4, <1>5

(* A block between the last counter's and the new counter's is cleared,    *)
(* also when the code clears the whole ring instead of counting that far.  *)
LEMMA AheadIsCleared ==
  ASSUME NEW f \in FilterType, NEW c \in Nat, NEW b \in Nat,
         Block(f.last) < b, b <= Block(c)
  PROVE  \E k \in 1 .. BlocksToClear(f, c) : Slot(b) = Slot(Block(f.last) + k)
  <1> DEFINE L == Block(f.last)
             R == RingBlocks
  <1>1. L \in Nat /\ Block(c) \in Nat /\ R \in Nat \ {0}
    BY FilterAssumption, BlockTypes DEF FilterType
  <1>2. CASE Block(c) - L <= R
    <2>1. BlocksToClear(f, c) = Block(c) - L
      BY <1>1, <1>2 DEF BlocksToClear
    <2>2. b - L \in 1 .. BlocksToClear(f, c) /\ L + (b - L) = b
      BY <1>1, <2>1
    <2> QED  BY <2>2
  <1>3. CASE Block(c) - L > R
    <2>1. BlocksToClear(f, c) = R
      BY <1>1, <1>3 DEF BlocksToClear
    <2> DEFINE n == b - L - 1
               m == n \div R
               j == n % R
    <2>2. n \in Nat
      BY <1>1
    <2>3. m \in Nat /\ j \in 0 .. R - 1 /\ n = R * m + j
      BY <1>1, <2>2, DivMod
    <2> HIDE DEF m, j
    <2>4. j + 1 \in 1 .. BlocksToClear(f, c)
      BY <1>1, <2>1, <2>3
    <2>5. R * m \in Int
      BY <1>1, <2>3, Z3
    <2>6. L + (j + 1) \in Nat /\ b = (L + (j + 1)) + R * m
      BY <1>1, <2>3, <2>5
    <2>7. b % R = (L + (j + 1)) % R
      <3>1. ((L + (j + 1)) + R * m) % R = (L + (j + 1)) % R
        BY <1>1, <2>3, <2>6, ModPlusMultiple
      <3> QED  BY <2>6, <3>1
    <2> QED  BY <2>4, <2>7 DEF Slot
  <1> QED  BY <1>1, <1>2, <1>3

(* A block that stays in the window when the filter advances is kept. *)
LEMMA KeptInWindow ==
  ASSUME NEW f \in FilterType, NEW c \in Nat, NEW b \in Nat,
         b <= Block(f.last), Block(c) < b + RingBlocks,
         NEW k \in 1 .. BlocksToClear(f, c)
  PROVE  Slot(b) # Slot(Block(f.last) + k)
  <1> DEFINE L == Block(f.last)
  <1>1. L \in Nat /\ Block(c) \in Nat /\ RingBlocks \in Nat \ {0}
    BY FilterAssumption, BlockTypes DEF FilterType
  <1>2. BlocksToClear(f, c) <= Block(c) - L /\ BlocksToClear(f, c) \in Int
    BY <1>1 DEF BlocksToClear
  <1>3. L + k \in Nat /\ b < L + k /\ L + k < b + RingBlocks
    BY <1>1, <1>2
  <1> QED  BY <1>1, <1>3, SlotInjective

(* Advancing keeps the filter's shape and what it remembers of the window. *)
LEMMA AdvanceExact ==
  ASSUME NEW f, NEW acc, NEW C, C \subseteq Nat, Represents(f, acc, C),
         NEW c \in C, AheadOfWindow(f, c)
  PROVE  LET g == Advance(f, c)
         IN  /\ g \in FilterType
             /\ g.last = c
             /\ WindowHolds(g, acc, C)
  <1> DEFINE g == Advance(f, c)
  <1>1. f \in FilterType /\ f.last \in Nat /\ acc \subseteq 0 .. f.last
    BY DEF Represents, FilterType
  <1>2. g \in FilterType /\ g.last = c
    BY <1>1 DEF Advance, FilterType
  <1>3. ASSUME NEW d \in C, InRing(g, d)
        PROVE  BitIsSet(g, d) <=> d \in acc
    <2>1. /\ Block(d) \in Nat /\ Block(f.last) \in Nat /\ Block(c) \in Nat
          /\ Slot(Block(d)) \in Slots
      BY <1>1, BlockTypes
    <2>2. Block(d) <= Block(c) /\ Block(c) < Block(d) + RingBlocks
      BY <1>2, <1>3 DEF InRing
    <2>3. CASE Block(d) <= Block(f.last)
      <3>1. Block(f.last) <= Block(c)
        BY <1>1, BlockMonotonic DEF AheadOfWindow
      <3>2. InRing(f, d)
        BY <2>1, <2>2, <2>3, <3>1, FilterAssumption DEF InRing
      <3>3. ~ \E k \in 1 .. BlocksToClear(f, c) :
                 Slot(Block(d)) = Slot(Block(f.last) + k)
        BY <1>1, <2>1, <2>2, <2>3, KeptInWindow
      <3>4. g.ring[Slot(Block(d))] = f.ring[Slot(Block(d))]
        BY <2>1, <3>3 DEF Advance
      <3> QED  BY <3>2, <3>4 DEF BitIsSet, Represents, WindowHolds
    <2>4. CASE Block(f.last) < Block(d)
      <3>1. \E k \in 1 .. BlocksToClear(f, c) :
               Slot(Block(d)) = Slot(Block(f.last) + k)
        BY <1>1, <2>1, <2>2, <2>4, AheadIsCleared
      <3>2. g.ring[Slot(Block(d))] = {}
        BY <2>1, <3>1 DEF Advance
      <3>3. ~ d <= f.last
        BY <1>1, <2>1, <2>4, BlockMonotonic
      <3>4. d \notin acc
        BY <1>1, <3>3
      <3> QED  BY <3>2, <3>4 DEF BitIsSet
    <2> QED  BY <2>1, <2>3, <2>4
  <1> QED  BY <1>2, <1>3 DEF WindowHolds

(* Setting a bit of the window adds that counter, and no other, to what    *)
(* the filter remembers.                                                   *)
LEMMA SetBitExact ==
  ASSUME NEW g \in FilterType, NEW acc, NEW C, C \subseteq Nat,
         NEW c \in C, InRing(g, c),
         WindowHolds(g, acc, C)
  PROVE  LET h == SetBit(g, c)
         IN  /\ h \in FilterType
             /\ h.last = g.last
             /\ WindowHolds(h, acc \union {c}, C)
  <1> DEFINE h == SetBit(g, c)
  <1>0. g.last \in Nat /\ Block(g.last) \in Nat /\ RingBlocks \in Nat \ {0}
    BY BlockTypes, FilterAssumption DEF FilterType
  <1>1. Block(c) \in Nat /\ Slot(Block(c)) \in Slots /\ Bit(c) \in Bits
    BY BlockTypes
  <1>2. h \in FilterType /\ h.last = g.last
    BY <1>1 DEF SetBit, FilterType
  <1>3. \A s \in Slots : h.ring[s] = IF s = Slot(Block(c))
                                     THEN g.ring[s] \union {Bit(c)} ELSE g.ring[s]
    BY <1>1 DEF SetBit, FilterType
  <1>4. ASSUME NEW d \in C, InRing(h, d)
        PROVE  BitIsSet(h, d) <=> d \in acc \union {c}
    <2>1. Block(d) \in Nat /\ Slot(Block(d)) \in Slots
      BY BlockTypes
    <2>2. InRing(g, d)
      BY <1>2, <1>4 DEF InRing
    <2>3. BitIsSet(g, d) <=> d \in acc
      BY <2>2 DEF WindowHolds
    <2>4. CASE d = c
      BY <1>1, <1>3, <2>4 DEF BitIsSet
    <2>5. CASE d # c
      <3>1. ~ (Slot(Block(d)) = Slot(Block(c)) /\ Bit(d) = Bit(c))
        <4> SUFFICES ASSUME Slot(Block(d)) = Slot(Block(c)), Bit(d) = Bit(c)
                     PROVE  FALSE
          OBVIOUS
        <4>1. Block(d) <= Block(c) \/ Block(c) <= Block(d)
          BY <1>1, <2>1
        <4>2. Block(c) < Block(d) + RingBlocks /\ Block(d) < Block(c) + RingBlocks
          BY <1>0, <1>1, <2>1, <2>2 DEF InRing
        <4>3. Block(d) = Block(c)
          BY <1>1, <2>1, <4>1, <4>2, SlotInjective
        <4> QED  BY <2>5, <4>3, BlockAndBit
      <3>2. BitIsSet(h, d) <=> BitIsSet(g, d)
        BY <1>3, <2>1, <3>1 DEF BitIsSet
      <3> QED  BY <2>3, <2>5, <3>2
    <2> QED  BY <2>4, <2>5
  <1> QED  BY <1>2, <1>4 DEF WindowHolds

(* Adding a counter that passes the check adds it, and nothing else, to    *)
(* what the filter remembers.                                              *)
LEMMA MustAddRepresents ==
  ASSUME NEW f, NEW acc, NEW C, C \subseteq Nat, Represents(f, acc, C),
         NEW c \in C, IsOk(f, c)
  PROVE  Represents(MustAdd(f, c), acc \union {c}, C)
  <1> DEFINE g == IF AheadOfWindow(f, c) THEN Advance(f, c) ELSE f
             h == SetBit(g, c)
  <1>1. /\ f \in FilterType /\ f.last \in Nat
        /\ acc \subseteq C \intersect 0 .. f.last
        /\ acc # {} => f.last \in acc
        /\ acc = {} => f.last = 0
    BY DEF Represents, FilterType
  <1>2. /\ g \in FilterType
        /\ g.last = IF AheadOfWindow(f, c) THEN c ELSE f.last
        /\ WindowHolds(g, acc, C)
    <2>1. CASE AheadOfWindow(f, c)
      BY <2>1, AdvanceExact
    <2>2. CASE ~ AheadOfWindow(f, c)
      BY <1>1, <2>2 DEF Represents
    <2> QED  BY <2>1, <2>2
  <1>3. InRing(g, c)
    <2>1. CASE AheadOfWindow(f, c)
      BY <1>2, <2>1, BlockTypes, FilterAssumption DEF InRing
    <2>2. CASE ~ AheadOfWindow(f, c)
      BY <1>1, <2>2, WindowInRing DEF IsOk
    <2> QED  BY <2>1, <2>2
  <1>4. /\ h \in FilterType /\ h.last = g.last
        /\ WindowHolds(h, acc \union {c}, C)
    <2> HIDE DEF g
    <2> QED  BY <1>2, <1>3, SetBitExact
  <1>5. acc \union {c} \subseteq C \intersect 0 .. h.last
    BY <1>1, <1>2, <1>4 DEF AheadOfWindow
  <1>6. h.last \in acc \union {c}
    BY <1>1, <1>2, <1>4 DEF AheadOfWindow
  <1>7. MustAdd(f, c) = h
    BY DEF MustAdd
  <1> HIDE DEF h
  <1> QED  BY <1>4, <1>5, <1>6, <1>7 DEF Represents

(* Add clears the slots that MustAdd clears, though each has its own loop. *)
LEMMA AddClearsAlike ==
  ASSUME NEW f \in FilterType, NEW c \in Nat, NEW s \in Slots
  PROVE  s \in AddClears(f, c) <=> \E k \in 1 .. BlocksToClear(f, c) : s = Slot(Block(f.last) + k)
  BY DEF AddClears, BlocksToClear

(* Add is IsOk followed, when it holds, by MustAdd. *)
LEMMA AddIsCheckedMustAdd ==
  ASSUME NEW f \in FilterType, NEW c \in Nat
  PROVE  /\ AddOk(f, c) <=> IsOk(f, c)
         /\ Add(f, c) = IF IsOk(f, c) THEN MustAdd(f, c) ELSE f
  <1>0. f.last \in Nat /\ f.ring \in [Slots -> SUBSET Bits] /\ f = [last |-> f.last, ring |-> f.ring]
    BY DEF FilterType
  <1>1. Size \in Int
    <2>1. RingBlocks - 1 \in Int /\ BlockBits \in Int
      BY FilterAssumption
    <2> QED  BY <2>1, Z3 DEF Size
  <1>2. AddOk(f, c) <=> IsOk(f, c)
    BY <1>0, <1>1 DEF AddOk, IsOk, AheadOfWindow, BehindWindow, BitIsSet
  <1>3. CASE AheadOfWindow(f, c)
    <2> DEFINE a == [s \in Slots |-> IF s \in AddClears(f, c) THEN {} ELSE f.ring[s]]
    <2>1. Advance(f, c) = [last |-> c, ring |-> a]
      BY AddClearsAlike DEF Advance
    <2>2. AddOk(f, c) /\ IsOk(f, c) /\ c > f.last
      BY <1>3 DEF AddOk, IsOk, AheadOfWindow
    <2> HIDE DEF a
    <2>3. MustAdd(f, c) = [last |-> c, ring |-> [a EXCEPT ![Slot(Block(c))] = @ \union {Bit(c)}]]
      BY <1>3, <2>1 DEF MustAdd, SetBit
    <2>4. Add(f, c) = [last |-> c, ring |-> [a EXCEPT ![Slot(Block(c))] = @ \union {Bit(c)}]]
      BY <2>2 DEF Add, a
    <2> QED  BY <1>2, <2>2, <2>3, <2>4
  <1>4. CASE ~ AheadOfWindow(f, c)
    <2>1. ~ c > f.last
      BY <1>4 DEF AheadOfWindow
    <2>2. MustAdd(f, c) = [last |-> f.last, ring |-> [f.ring EXCEPT ![Slot(Block(c))] = @ \union {Bit(c)}]]
      BY <1>4 DEF MustAdd, SetBit
    <2>3. Add(f, c) = IF AddOk(f, c)
                      THEN [last |-> f.last, ring |-> [f.ring EXCEPT ![Slot(Block(c))] = @ \union {Bit(c)}]]
                      ELSE f
      BY <2>1 DEF Add
    <2> QED  BY <1>2, <2>2, <2>3
  <1> QED  BY <1>3, <1>4

-----------------------------------------------------------------------------
(* SlidingWindow.  A verdict is right because the ring holds exactly the   *)
(* accepted counters of the window: that is the inductive invariant.       *)

WindowIInv == WindowTypeOK /\ RingExact

(* The set of counters is a set of natural numbers. *)
LEMMA CountersAreNat == Counters \subseteq Nat
  BY CounterAssumption DEF Counters

(* Both ways of offering a counter are the same step. *)
LEMMA OfferIsCheckThenAdd ==
  ASSUME WindowIInv, NEW c \in Counters, TryAdd(c)
  PROVE  CheckThenAdd(c)
  <1>1. filter \in FilterType /\ c \in Nat
    BY CountersAreNat DEF WindowIInv, WindowTypeOK
  <1> QED  BY <1>1, AddIsCheckedMustAdd DEF TryAdd, CheckThenAdd, Answer

(* The inductive invariant holds at the start. *)
LEMMA WindowInitInvariant == WindowInit => WindowIInv
  <1> SUFFICES ASSUME WindowInit PROVE WindowIInv
    OBVIOUS
  <1>1. RingExact
    BY CountersAreNat, EmptyRepresents DEF WindowInit, RingExact
  <1>2. WindowTypeOK
    BY <1>1, CounterAssumption
       DEF WindowInit, WindowTypeOK, NoVerdict, RingExact, Represents, Counters
  <1> QED  BY <1>1, <1>2 DEF WindowIInv

(* Offering a counter preserves the inductive invariant. *)
LEMMA OfferInvariant ==
  ASSUME WindowIInv, NEW c \in Counters, CheckThenAdd(c)
  PROVE  WindowIInv'
  <1>1. CASE IsOk(filter, c)
    <2>1. filter' = MustAdd(filter, c) /\ accepted' = accepted \union {c}
      BY <1>1 DEF CheckThenAdd, Answer
    <2>2. Represents(MustAdd(filter, c), accepted \union {c}, Counters)
      BY <1>1, CountersAreNat, MustAddRepresents DEF WindowIInv, RingExact
    <2>3. RingExact'
      BY <2>1, <2>2 DEF RingExact, Counters
    <2>4. WindowTypeOK'
      BY <2>1, <2>3 DEF WindowIInv, WindowTypeOK, CheckThenAdd, Answer, RingExact, Represents,
             Counters
    <2> QED  BY <2>3, <2>4 DEF WindowIInv
  <1>2. CASE ~ IsOk(filter, c)
    BY <1>2 DEF WindowIInv, WindowTypeOK, RingExact, CheckThenAdd, Answer, Counters
  <1> QED  BY <1>1, <1>2

(* Reset preserves the inductive invariant. *)
LEMMA ResetInvariant ==
  ASSUME WindowIInv, ResetFilter
  PROVE  WindowIInv'
  <1>1. Represents(Reset(filter), {}, Counters)
    BY CountersAreNat, ResetRepresents DEF WindowIInv, WindowTypeOK
  <1>2. RingExact'
    BY <1>1 DEF ResetFilter, RingExact, Counters
  <1>3. WindowTypeOK'
    BY <1>2, CounterAssumption
       DEF ResetFilter, WindowTypeOK, NoVerdict, RingExact, Represents, Counters
  <1> QED  BY <1>2, <1>3 DEF WindowIInv

(* The inductive invariant holds in every reachable state. *)
THEOREM WindowInvariance == WindowSpec => []WindowIInv
  <1>1. WindowInit => WindowIInv
    BY WindowInitInvariant
  <1>2. WindowIInv /\ [WindowNext]_windowVars => WindowIInv'
    <2> SUFFICES ASSUME WindowIInv, [WindowNext]_windowVars PROVE WindowIInv'
      OBVIOUS
    <2>1. CASE UNCHANGED windowVars
      BY <2>1 DEF windowVars, WindowIInv, WindowTypeOK, RingExact, Counters
    <2>2. ASSUME NEW c \in Counters, TryAdd(c) PROVE WindowIInv'
      BY <2>2, OfferIsCheckThenAdd, OfferInvariant
    <2>3. ASSUME NEW c \in Counters, CheckThenAdd(c) PROVE WindowIInv'
      BY <2>3, OfferInvariant
    <2>4. CASE ResetFilter
      BY <2>4, ResetInvariant
    <2> QED  BY <2>1, <2>2, <2>3, <2>4 DEF WindowNext
  <1> QED  BY <1>1, <1>2, PTL DEF WindowSpec

(* The filter keeps the shape of the Go struct. *)
THEOREM WindowTypeCorrect == WindowSpec => []WindowTypeOK
  <1>1. WindowIInv => WindowTypeOK
    BY DEF WindowIInv
  <1> QED  BY <1>1, WindowInvariance, PTL

(* The ring always holds exactly the accepted counters of its window. *)
THEOREM RingIsExact == WindowSpec => []RingExact
  <1>1. WindowIInv => RingExact
    BY DEF WindowIInv
  <1> QED  BY <1>1, WindowInvariance, PTL

(* No counter is accepted twice between two Resets. *)
THEOREM NoCounterTwice == WindowSpec => NeverAcceptedTwice
  <1>1. WindowIInv /\ [WindowNext]_windowVars =>
          [verdict'.answer = "accepted" => verdict'.counter \notin accepted]_windowVars
    <2> SUFFICES ASSUME WindowIInv, WindowNext
                 PROVE  verdict'.answer = "accepted" => verdict'.counter \notin accepted
      OBVIOUS
    <2>1. ASSUME NEW c \in Counters, CheckThenAdd(c)
          PROVE  verdict'.answer = "accepted" => verdict'.counter \notin accepted
      <3>1. IsOk(filter, c) => c \notin accepted
        BY CountersAreNat, IsOkExact DEF WindowIInv, RingExact
      <3> QED  BY <2>1, <3>1 DEF CheckThenAdd, Answer
    <2>2. CASE ResetFilter
      BY <2>2 DEF ResetFilter, NoVerdict
    <2> QED  BY <2>1, <2>2, OfferIsCheckThenAdd DEF WindowNext
  <1> QED  BY <1>1, WindowInvariance, PTL DEF WindowSpec, NeverAcceptedTwice

(* The last counter of the filter is the greatest accepted one. *)
LEMMA LastIsHighest ==
  ASSUME WindowIInv
  PROVE  Abstract!Highest = filter.last
  <1>1. /\ accepted \subseteq Counters
        /\ accepted \subseteq 0 .. filter.last
        /\ filter.last \in Nat
        /\ accepted # {} => filter.last \in accepted
        /\ accepted = {} => filter.last = 0
    BY DEF WindowIInv, WindowTypeOK, RingExact, Represents, FilterType
  <1>2. CASE accepted = {}
    BY <1>1, <1>2 DEF Abstract!Highest
  <1>3. CASE accepted # {}
    <2> DEFINE H == CHOOSE h \in accepted : \A a \in accepted : a <= h
    <2>1. filter.last \in accepted /\ \A a \in accepted : a <= filter.last
      BY <1>1, <1>3
    <2>2. H \in accepted /\ \A a \in accepted : a <= H
      BY <2>1
    <2>3. H = filter.last
      <3> HIDE DEF H
      <3> QED  BY <1>1, <2>1, <2>2
    <2> QED  BY <1>3, <2>3 DEF Abstract!Highest
  <1> QED  BY <1>2, <1>3

(* The filter implements the replay filter: every verdict is the one the   *)
(* set of accepted counters calls for.                                     *)
THEOREM Refinement == WindowSpec => ImplementsReplayFilter
  <1>1. WindowInit => Abstract!Init
    BY DEF WindowInit, Abstract!Init, NoVerdict, Abstract!NoVerdict
  <1>2. WindowIInv /\ [WindowNext]_windowVars => [Abstract!Next]_<<accepted, verdict>>
    <2> SUFFICES ASSUME WindowIInv, [WindowNext]_windowVars
                 PROVE  [Abstract!Next]_<<accepted, verdict>>
      OBVIOUS
    <2>1. CASE UNCHANGED windowVars
      BY <2>1 DEF windowVars
    <2>2. ASSUME NEW c \in Counters, CheckThenAdd(c) PROVE Abstract!Next
      <3>1. IsOk(filter, c) <=> Abstract!Acceptable(c)
        <4>1. IsOk(filter, c) <=> c \notin accepted /\ ~ BehindWindow(filter, c)
          BY CountersAreNat, IsOkExact DEF WindowIInv, RingExact
        <4>2. ~ BehindWindow(filter, c) <=> Abstract!Highest - c <= Size
          <5>1. filter.last \in Nat /\ c \in Nat /\ Size \in Int
            <6>1. Size \in Int
              BY FilterAssumption, Z3 DEF Size
            <6> QED  BY <6>1, CountersAreNat DEF WindowIInv, WindowTypeOK, FilterType
          <5> QED  BY <5>1, LastIsHighest DEF BehindWindow
        <4> QED  BY <4>1, <4>2 DEF Abstract!Acceptable
      <3>2. Abstract!Offer(c)
        BY <2>2, <3>1 DEF CheckThenAdd, Answer, Abstract!Offer
      <3> QED  BY <3>2 DEF Abstract!Next
    <2>3. CASE ResetFilter
      BY <2>3 DEF ResetFilter, Abstract!Next, Abstract!Reset, NoVerdict, Abstract!NoVerdict
    <2> QED  BY <2>1, <2>2, <2>3, OfferIsCheckThenAdd DEF WindowNext
  <1> QED  BY <1>1, <1>2, WindowInvariance, PTL DEF WindowSpec, ImplementsReplayFilter,
                  Abstract!Spec

-----------------------------------------------------------------------------
(* ShadowPacketClient.  A returned packet is either remembered by the      *)
(* filter of a session the unpacker still holds, or so old that its        *)
(* timestamp is refused.                                                   *)

(* A packet ID names one packet of its session. *)
IdsUnique ==
  /\ \A p \in sent : p.spid < spid[p.ssid]
  /\ \A p, q \in sent : p.ssid = q.ssid /\ p.spid = q.spid => p = q

(* A remembered packet was accepted with a timestamp at most MaxEpochDiff  *)
(* ahead of the time its session was last seen.                            *)
RememberedRecent ==
  \A p \in delivered :
    /\ p.ssid = current.id /\ p.spid \in current.seen =>
         p.ts <= Unix(now) + MaxEpochDiff
    /\ p.ssid = old.id /\ p.spid \in old.seen =>
         p.ts <= Unix(oldLastSeen) + MaxEpochDiff

IInv ==
  /\ TypeOK
  /\ oldLastSeen <= now
  /\ IdsUnique
  /\ SessionsRemembered
  /\ RememberedRecent
  /\ ForgottenPacketsExpired
  /\ NeverDeliveredTwice

(* Quotient and remainder of an integer. *)
LEMMA DivModInt ==
  ASSUME NEW n \in Int, NEW d \in Nat \ {0}
  PROVE  /\ n \div d \in Int
         /\ n % d \in 0 .. d - 1
         /\ n = d * (n \div d) + (n % d)
  BY Z3

(* Unix seconds do not run backwards. *)
LEMMA UnixMonotonic ==
  ASSUME NEW s \in Int, NEW t \in Int, s <= t
  PROVE  Unix(s) \in Int /\ Unix(t) \in Int /\ Unix(s) <= Unix(t)
  <1> DEFINE a == s \div Second
             b == t \div Second
  <1>1. Second \in Nat \ {0}
    BY TimeAssumption
  <1>2. a \in Int /\ s % Second \in 0 .. Second - 1 /\ s = Second * a + (s % Second)
    BY <1>1, DivModInt
  <1>3. b \in Int /\ t % Second \in 0 .. Second - 1 /\ t = Second * b + (t % Second)
    BY <1>1, DivModInt
  <1> HIDE DEF a, b
  <1>4. /\ Second * a \in Int /\ Second * b \in Int
        /\ Second * (a - b) = Second * a - Second * b
    BY <1>1, <1>2, <1>3, Z3
  <1>5. ~ a > b
    <2> SUFFICES ASSUME a > b PROVE FALSE
      OBVIOUS
    <2>1. a - b \in Nat \ {0}
      BY <1>2, <1>3
    <2>2. Second * (a - b) >= Second
      BY <1>1, <2>1, MultipleAtLeast
    <2> QED  BY <1>1, <1>2, <1>3, <1>4, <2>2
  <1> QED  BY <1>2, <1>3, <1>5 DEF a, b, Unix

(* D seconds later Unix seconds are D more, at least. *)
LEMMA UnixLater ==
  ASSUME NEW t \in Int, NEW D \in Nat, NEW T \in Int, T >= D * Second
  PROVE  Unix(t) \in Int /\ Unix(t + T) \in Int /\ Unix(t + T) >= Unix(t) + D
  <1> DEFINE a == t \div Second
             m == t + D * Second
             b == m \div Second
  <1>1. Second \in Nat \ {0} /\ D * Second \in Int
    <2>1. Second \in Nat \ {0}
      BY TimeAssumption
    <2> QED  BY <2>1, Z3
  <1>2. a \in Int /\ t % Second \in 0 .. Second - 1 /\ t = Second * a + (t % Second)
    BY <1>1, DivModInt
  <1>3. b \in Int /\ m % Second \in 0 .. Second - 1 /\ m = Second * b + (m % Second)
    <2>1. m \in Int
      BY <1>1
    <2> HIDE DEF m
    <2> QED  BY <1>1, <2>1, DivModInt
  <1>4. b >= a + D
    <2> HIDE DEF a, b
    <2>1. /\ Second * a \in Int /\ Second * b \in Int
          /\ Second * ((a + D) - b) = Second * a + D * Second - Second * b
      BY <1>1, <1>2, <1>3, Z3
    <2>2. ~ a + D > b
      <3> SUFFICES ASSUME a + D > b PROVE FALSE
        OBVIOUS
      <3>1. (a + D) - b \in Nat \ {0}
        BY <1>1, <1>2, <1>3
      <3>2. Second * ((a + D) - b) >= Second
        BY <1>1, <3>1, MultipleAtLeast
      <3> QED  BY <1>1, <1>2, <1>3, <2>1, <3>2
    <2> QED  BY <1>1, <1>2, <1>3, <2>2
  <1>5. t + D * Second <= t + T
    BY <1>1
  <1>6. Unix(t + D * Second) <= Unix(t + T) /\ Unix(t + T) \in Int
    BY <1>1, <1>5, UnixMonotonic
  <1>7. Unix(t) = a /\ Unix(t + D * Second) = b
    BY DEF Unix
  <1> HIDE DEF a, b
  <1> QED  BY <1>2, <1>3, <1>4, <1>6, <1>7

(* A minute is more than MaxEpochDiff Unix seconds. *)
LEMMA UnixMinute ==
  ASSUME NEW t \in Int
  PROVE  Unix(t) \in Int /\ Unix(t + Minute) \in Int /\ Unix(t + Minute) > Unix(t) + MaxEpochDiff
  <1> DEFINE D == MaxEpochDiff + 1
  <1>1. D \in Nat /\ Minute \in Int /\ Minute >= D * Second /\ MaxEpochDiff \in Nat
    BY ClientAssumption, TimeAssumption
  <1> HIDE DEF D
  <1>2. Unix(t) \in Int /\ Unix(t + Minute) \in Int /\ Unix(t + Minute) >= Unix(t) + D
    BY <1>1, UnixLater
  <1> QED  BY <1>1, <1>2 DEF D

(* What the unpacker returns has a timestamp in range and passes the       *)
(* filter of its session.                                                  *)
LEMMA NoError ==
  ASSUME IInv, NEW p \in sent, NEW t1 \in Int, now <= t1,
         UnpackError(p, TRUE, t1) = "none"
  PROVE  /\ p.ts \in Int /\ p.spid \in Spids /\ p.ssid \in Sessions
         /\ SessionStatus(p.ssid) # "tooMany"
         /\ IsOk(FilterOf(p.ssid), p.spid)
         /\ p.ts + MaxEpochDiff >= Unix(t1)
         /\ p.ts <= Unix(t1) + MaxEpochDiff
  <1>1. p.ts \in Int /\ p.spid \in Spids /\ p.ssid \in Sessions
    BY DEF IInv, TypeOK, Packets
  <1>2. SessionStatus(p.ssid) # "tooMany" /\ IsOk(FilterOf(p.ssid), p.spid)
    BY DEF UnpackError
  <1>3. ValidTimestamp(p.ts, t1)
    BY DEF UnpackError, HeaderError
  <1>4. Unix(t1) \in Int /\ MaxEpochDiff \in Nat
    BY UnixMonotonic, ClientAssumption, TimeAssumption
  <1> QED  BY <1>1, <1>2, <1>3, <1>4 DEF ValidTimestamp

(* No packet is returned that was returned before. *)
LEMMA ReturnIsFresh ==
  ASSUME IInv, NEW p \in sent, NEW t1 \in Int, now <= t1,
         UnpackError(p, TRUE, t1) = "none"
  PROVE  p \notin delivered
  <1> SUFFICES ASSUME p \in delivered PROVE FALSE
    OBVIOUS
  <1>0. /\ now \in Int /\ oldLastSeen \in Int /\ oldLastSeen <= now
        /\ MaxEpochDiff \in Nat /\ Minute \in Nat /\ Spids \subseteq Nat
    BY ClientAssumption, TimeAssumption DEF IInv, TypeOK, Spids
  <1>1. /\ p.ts \in Int /\ p.spid \in Spids /\ p.ssid \in Sessions
        /\ SessionStatus(p.ssid) # "tooMany"
        /\ IsOk(FilterOf(p.ssid), p.spid)
        /\ p.ts + MaxEpochDiff >= Unix(t1)
    BY NoError
  <1>2. CASE ~ Remembered(p)
    <2>1. p.ts + MaxEpochDiff < Unix(oldLastSeen + Minute)
      BY <1>2 DEF IInv, ForgottenPacketsExpired
    <2>2. p.ssid \in {current.id, old.id} => p.ts + MaxEpochDiff < Unix(oldLastSeen)
      BY <1>2 DEF IInv, ForgottenPacketsExpired
    <2>3. CASE p.ssid \in {current.id, old.id}
      <3>1. Unix(oldLastSeen) <= Unix(t1) /\ Unix(oldLastSeen) \in Int /\ Unix(t1) \in Int
        BY <1>0, UnixMonotonic
      <3> QED  BY <1>0, <1>1, <2>2, <2>3, <3>1
    <2>4. CASE p.ssid \notin {current.id, old.id}
      <3>1. oldLastSeen + Minute <= t1 /\ oldLastSeen + Minute \in Int
        BY <1>0, <1>1, <2>4 DEF SessionStatus
      <3>2. /\ Unix(oldLastSeen + Minute) <= Unix(t1)
            /\ Unix(oldLastSeen + Minute) \in Int /\ Unix(t1) \in Int
        BY <3>1, UnixMonotonic
      <3> QED  BY <1>0, <1>1, <2>1, <3>2
    <2> QED  BY <2>3, <2>4
  <1>3. CASE p.ssid = current.id /\ p.spid \in current.seen
    <2>1. FilterOf(p.ssid) = current.filter
      BY <1>3 DEF FilterOf, SessionStatus
    <2>2. Represents(current.filter, current.seen, Spids)
      BY DEF IInv, SessionsRemembered
    <2> QED  BY <1>0, <1>1, <1>3, <2>1, <2>2, IsOkExact
  <1>4. CASE p.ssid = old.id /\ p.spid \in old.seen
    <2>1. p.ssid # current.id
      BY <1>1, <1>4, ClientAssumption, TimeAssumption DEF IInv, SessionsRemembered
    <2>2. FilterOf(p.ssid) = old.filter
      BY <1>4, <2>1 DEF FilterOf, SessionStatus
    <2>3. Represents(old.filter, old.seen, Spids)
      BY DEF IInv, SessionsRemembered
    <2> QED  BY <1>0, <1>1, <1>4, <2>2, <2>3, IsOkExact
  <1> QED  BY <1>2, <1>3, <1>4 DEF Remembered

(* Accepting a packet keeps a session's filter exact. *)
LEMMA AcceptRepresents ==
  ASSUME NEW s \in SessionType, Represents(s.filter, s.seen, Spids),
         NEW n \in Spids, IsOk(s.filter, n)
  PROVE  /\ Accept(s, n) \in SessionType
         /\ Accept(s, n).id = s.id
         /\ Accept(s, n).seen = s.seen \union {n}
         /\ Represents(Accept(s, n).filter, Accept(s, n).seen, Spids)
  <1>1. Spids \subseteq Nat
    BY ClientAssumption, TimeAssumption DEF Spids
  <1>2. Represents(MustAdd(s.filter, n), s.seen \union {n}, Spids)
    BY <1>1, MustAddRepresents
  <1>3. MustAdd(s.filter, n) \in FilterType
    BY <1>2 DEF Represents
  <1>4. /\ Accept(s, n).id = s.id
        /\ Accept(s, n).seen = s.seen \union {n}
        /\ Accept(s, n).filter = MustAdd(s.filter, n)
    BY DEF Accept
  <1>5. Accept(s, n) \in SessionType
    BY <1>3 DEF Accept, SessionType
  <1> QED  BY <1>2, <1>4, <1>5

(* A session just made has an exact filter too. *)
LEMMA NewSessionRepresents ==
  ASSUME NEW s \in Sessions \union {NoSession}
  PROVE  /\ NewSession(s) \in SessionType
         /\ NewSession(s).id = s /\ NewSession(s).seen = {}
         /\ NewSession(s).filter = EmptyFilter
         /\ Represents(NewSession(s).filter, NewSession(s).seen, Spids)
  <1>1. Represents(EmptyFilter, {}, Spids)
    BY ClientAssumption, TimeAssumption, EmptyRepresents DEF Spids
  <1>2. EmptyFilter \in FilterType
    BY <1>1 DEF Represents
  <1> QED  BY <1>1, <1>2 DEF NewSession, SessionType

(* The inductive invariant holds at the start. *)
LEMMA InitInvariant == Init => IInv
  <1> SUFFICES ASSUME Init PROVE IInv
    OBVIOUS
  <1>1. /\ Nil \in SessionType /\ Nil.id = NoSession /\ Nil.seen = {}
        /\ Represents(Nil.filter, Nil.seen, Spids)
    BY NewSessionRepresents DEF Nil
  <1>2. TypeOK /\ oldLastSeen <= now
    BY <1>1, ClientAssumption, TimeAssumption DEF Init, TypeOK, LongAgo
  <1>3. SessionsRemembered
    BY <1>1 DEF Init, SessionsRemembered
  <1> QED  BY <1>2, <1>3
           DEF Init, IInv, IdsUnique, RememberedRecent, ForgottenPacketsExpired,
               NeverDeliveredTwice

(* Steps that only move the clock preserve it. *)
LEMMA ClockInvariant ==
  ASSUME IInv, now <= now', now' \in 0 .. MaxTime,
         UNCHANGED <<spid, sent, current, old, oldLastSeen, delivered, repeated>>
  PROVE  IInv'
  <1>0. now \in Int /\ now' \in Int /\ MaxEpochDiff \in Nat /\ oldLastSeen \in Int
    BY ClientAssumption, TimeAssumption DEF IInv, TypeOK
  <1>1. TypeOK' /\ oldLastSeen' <= now'
    BY <1>0 DEF IInv, TypeOK, Spids, Packets, SessionType, FilterType
  <1>2. IdsUnique' /\ SessionsRemembered' /\ NeverDeliveredTwice'
    BY DEF IInv, IdsUnique, SessionsRemembered, NeverDeliveredTwice
  <1>3. RememberedRecent'
    <2>1. Unix(now) <= Unix(now') /\ Unix(now) \in Int /\ Unix(now') \in Int
      BY <1>0, UnixMonotonic
    <2>2. \A p \in delivered : p.ts \in Int
      BY DEF IInv, TypeOK, Packets
    <2> QED  BY <1>0, <2>1, <2>2 DEF IInv, RememberedRecent
  <1>4. ForgottenPacketsExpired'
    BY DEF IInv, ForgottenPacketsExpired, Remembered
  <1> QED  BY <1>1, <1>2, <1>3, <1>4 DEF IInv

(* A new packet is not one of those that were returned. *)
LEMMA PackInvariant ==
  ASSUME IInv, NEW s \in Sessions, PackInPlace(s)
  PROVE  IInv'
  <1> USE DEF PackInPlace
  <1>1. PICK skew \in Skews :
          sent' = sent \union {[ssid |-> s, spid |-> spid[s], ts |-> Unix(now) + skew]}
    OBVIOUS
  <1> DEFINE n == [ssid |-> s, spid |-> spid[s], ts |-> Unix(now) + skew]
  <1>2. spid[s] \in Spids /\ Unix(now) + skew \in Int /\ MaxSpid \in Nat
    <2>1. Unix(now) \in Int
      BY UnixMonotonic, ClientAssumption, TimeAssumption DEF IInv, TypeOK
    <2>2. skew \in Int
      BY ClientAssumption, TimeAssumption
    <2> QED  BY <2>1, <2>2, ClientAssumption, TimeAssumption DEF IInv, TypeOK, Spids
  <1>3. n \in Packets /\ n.ssid = s /\ n.spid = spid[s]
    BY <1>2 DEF Packets
  <1>4. /\ spid' \in [Sessions -> 0 .. MaxSpid + 1]
        /\ \A x \in Sessions : spid'[x] = IF x = s THEN spid[s] + 1 ELSE spid[x]
    BY <1>2 DEF IInv, TypeOK, Spids
  <1> HIDE DEF n
  <1>5. TypeOK' /\ oldLastSeen' <= now'
    BY <1>1, <1>3, <1>4 DEF IInv, TypeOK, n
  <1>6. IdsUnique'
    <2>1. \A p \in sent : p.ssid \in Sessions /\ p.spid \in Int /\ spid[p.ssid] \in Int
      BY DEF IInv, TypeOK, Packets, Spids
    <2>2. \A p \in sent : p.spid < spid[p.ssid]
      BY DEF IInv, IdsUnique
    <2>3. \A p \in sent : ~ (p.ssid = s /\ p.spid = spid[s])
      BY <2>1, <2>2
    <2>4. sent' = sent \union {n}
      BY <1>1 DEF n
    <2>5. \A p \in sent' : p.spid < spid'[p.ssid]
      BY <1>2, <1>3, <1>4, <2>1, <2>2, <2>4 DEF Spids
    <2>6. \A p, q \in sent' : p.ssid = q.ssid /\ p.spid = q.spid => p = q
      BY <1>3, <2>3, <2>4 DEF IInv, IdsUnique
    <2> QED  BY <2>5, <2>6 DEF IdsUnique
  <1>7. SessionsRemembered' /\ NeverDeliveredTwice'
    BY DEF IInv, SessionsRemembered, NeverDeliveredTwice
  <1>8. RememberedRecent'
    BY DEF IInv, RememberedRecent
  <1>9. ForgottenPacketsExpired'
    BY DEF IInv, ForgottenPacketsExpired, Remembered
  <1> QED  BY <1>5, <1>6, <1>7, <1>8, <1>9 DEF IInv

(* What every step that returns a packet has in common. *)
LEMMA ReturnInvariant ==
  ASSUME IInv, NEW p \in sent, NEW t1 \in 0 .. MaxTime, NEW t2 \in 0 .. MaxTime,
         now <= t1, t1 <= t2, UnpackError(p, TRUE, t1) = "none", Return(p, t2)
  PROVE  /\ IdsUnique' /\ NeverDeliveredTwice'
         /\ now' = t2 /\ delivered' = delivered \union {p} /\ delivered' \subseteq sent'
         /\ now' \in 0 .. MaxTime /\ sent' \subseteq Packets
         /\ spid' \in [Sessions -> 0 .. MaxSpid + 1]
  <1>0. t1 \in Int
    BY ClientAssumption, TimeAssumption
  <1>1. p \notin delivered
    BY <1>0, ReturnIsFresh
  <1>2. IdsUnique' /\ NeverDeliveredTwice'
    BY <1>1 DEF IInv, IdsUnique, NeverDeliveredTwice, Return
  <1> QED  BY <1>2 DEF IInv, TypeOK, Return

(* A packet of the current session joins its filter. *)
LEMMA CurrentInvariant ==
  ASSUME IInv, NEW p \in sent, NEW t1 \in 0 .. MaxTime, NEW t2 \in 0 .. MaxTime,
         now <= t1, t1 <= t2, UnpackCurrent(p, t1, t2)
  PROVE  IInv'
  <1> USE DEF UnpackCurrent
  <1>0. /\ t1 \in Int /\ t2 \in Int /\ now \in Int /\ oldLastSeen \in Int
        /\ MaxEpochDiff \in Nat
    BY ClientAssumption, TimeAssumption DEF IInv, TypeOK
  <1>1. /\ IdsUnique' /\ NeverDeliveredTwice'
        /\ now' = t2 /\ delivered' = delivered \union {p} /\ delivered' \subseteq sent'
        /\ now' \in 0 .. MaxTime /\ sent' \subseteq Packets
        /\ spid' \in [Sessions -> 0 .. MaxSpid + 1]
    BY ReturnInvariant
  <1>2. /\ p.ts \in Int /\ p.spid \in Spids /\ p.ssid \in Sessions
        /\ p.ssid = current.id /\ IsOk(current.filter, p.spid)
        /\ p.ts <= Unix(t1) + MaxEpochDiff
    <2>1. p.ssid = current.id
      BY DEF SessionStatus
    <2> QED  BY <1>0, <2>1, NoError DEF FilterOf
  <1>3. /\ current' \in SessionType /\ current'.id = current.id
        /\ current'.seen = current.seen \union {p.spid}
        /\ Represents(current'.filter, current'.seen, Spids)
    BY <1>2, AcceptRepresents DEF IInv, TypeOK, SessionsRemembered
  <1>4. TypeOK' /\ oldLastSeen' <= now'
    BY <1>0, <1>1, <1>3 DEF IInv, TypeOK
  <1>5. SessionsRemembered'
    BY <1>3 DEF IInv, SessionsRemembered
  <1>6. /\ Unix(now) <= Unix(t2) /\ Unix(t1) <= Unix(t2)
        /\ Unix(now) \in Int /\ Unix(t1) \in Int /\ Unix(t2) \in Int
        /\ Unix(oldLastSeen) \in Int
    BY <1>0, UnixMonotonic
  <1>7. \A q \in delivered' : q \in sent /\ q.ts \in Int
    BY <1>1 DEF Return, Packets
  <1>8. current.id # old.id
    BY <1>2, ClientAssumption, TimeAssumption DEF IInv, SessionsRemembered
  <1>9. RememberedRecent'
    <2> SUFFICES ASSUME NEW q \in delivered'
                 PROVE  /\ q.ssid = current'.id /\ q.spid \in current'.seen =>
                             q.ts <= Unix(now') + MaxEpochDiff
                        /\ q.ssid = old'.id /\ q.spid \in old'.seen =>
                             q.ts <= Unix(oldLastSeen') + MaxEpochDiff
      BY DEF RememberedRecent
    <2>1. CASE q.ssid = p.ssid /\ q.spid = p.spid
      <3>1. q = p
        BY <1>7, <2>1 DEF IInv, IdsUnique
      <3> QED  BY <1>0, <1>1, <1>2, <1>6, <1>8, <3>1
    <2>2. CASE ~ (q.ssid = p.ssid /\ q.spid = p.spid)
      <3>1. q \in delivered
        BY <1>1, <2>2
      <3>2. q.ssid = current.id /\ q.spid \in current'.seen => q.spid \in current.seen
        BY <1>2, <1>3, <2>2
      <3> QED  BY <1>0, <1>1, <1>3, <1>6, <1>7, <3>1, <3>2 DEF IInv, RememberedRecent
    <2> QED  BY <2>1, <2>2
  <1>10. ForgottenPacketsExpired'
    <2>1. \A q \in delivered' : ~ Remembered(q)' => q \in delivered /\ ~ Remembered(q)
      BY <1>1, <1>2, <1>3 DEF Remembered
    <2> QED  BY <1>3, <2>1 DEF IInv, ForgottenPacketsExpired
  <1> QED  BY <1>1, <1>4, <1>5, <1>9, <1>10 DEF IInv

(* A packet of the old session joins its filter and refreshes its time. *)
LEMMA OldInvariant ==
  ASSUME IInv, NEW p \in sent, NEW t1 \in 0 .. MaxTime, NEW t2 \in 0 .. MaxTime,
         now <= t1, t1 <= t2, UnpackOld(p, t1, t2)
  PROVE  IInv'
  <1> USE DEF UnpackOld
  <1>0. /\ t1 \in Int /\ t2 \in Int /\ now \in Int /\ oldLastSeen \in Int
        /\ MaxEpochDiff \in Nat /\ Minute \in Nat /\ oldLastSeen <= t2
    BY ClientAssumption, TimeAssumption DEF IInv, TypeOK
  <1>1. /\ IdsUnique' /\ NeverDeliveredTwice'
        /\ now' = t2 /\ delivered' = delivered \union {p} /\ delivered' \subseteq sent'
        /\ now' \in 0 .. MaxTime /\ sent' \subseteq Packets
        /\ spid' \in [Sessions -> 0 .. MaxSpid + 1]
    BY ReturnInvariant
  <1>2. /\ p.ts \in Int /\ p.spid \in Spids /\ p.ssid \in Sessions
        /\ p.ssid = old.id /\ p.ssid # current.id /\ IsOk(old.filter, p.spid)
        /\ p.ts <= Unix(t1) + MaxEpochDiff
    <2>1. p.ssid = old.id /\ p.ssid # current.id
      BY DEF SessionStatus
    <2> QED  BY <1>0, <2>1, NoError DEF FilterOf
  <1>3. /\ old' \in SessionType /\ old'.id = old.id
        /\ old'.seen = old.seen \union {p.spid}
        /\ Represents(old'.filter, old'.seen, Spids)
    BY <1>2, AcceptRepresents DEF IInv, TypeOK, SessionsRemembered
  <1>4. TypeOK' /\ oldLastSeen' <= now'
    BY <1>0, <1>1, <1>3 DEF IInv, TypeOK
  <1>5. SessionsRemembered'
    BY <1>3 DEF IInv, SessionsRemembered
  <1>6. /\ Unix(now) <= Unix(t2) /\ Unix(t1) <= Unix(t2) /\ Unix(oldLastSeen) <= Unix(t2)
        /\ Unix(now) \in Int /\ Unix(t1) \in Int /\ Unix(t2) \in Int
        /\ Unix(oldLastSeen) \in Int
        /\ Unix(oldLastSeen + Minute) <= Unix(t2 + Minute)
        /\ Unix(oldLastSeen + Minute) \in Int /\ Unix(t2 + Minute) \in Int
    <2>1. oldLastSeen + Minute \in Int /\ t2 + Minute \in Int
          /\ oldLastSeen + Minute <= t2 + Minute
      BY <1>0
    <2> QED  BY <1>0, <2>1, UnixMonotonic
  <1>7. \A q \in delivered' : q \in sent /\ q.ts \in Int
    BY <1>1 DEF Return, Packets
  <1>8. RememberedRecent'
    <2> SUFFICES ASSUME NEW q \in delivered'
                 PROVE  /\ q.ssid = current'.id /\ q.spid \in current'.seen =>
                             q.ts <= Unix(now') + MaxEpochDiff
                        /\ q.ssid = old'.id /\ q.spid \in old'.seen =>
                             q.ts <= Unix(oldLastSeen') + MaxEpochDiff
      BY DEF RememberedRecent
    <2>1. CASE q.ssid = p.ssid /\ q.spid = p.spid
      <3>1. q = p
        BY <1>7, <2>1 DEF IInv, IdsUnique
      <3> QED  BY <1>0, <1>1, <1>2, <1>6, <3>1
    <2>2. CASE ~ (q.ssid = p.ssid /\ q.spid = p.spid)
      <3>1. q \in delivered
        BY <1>1, <2>2
      <3>2. q.ssid = old.id /\ q.spid \in old'.seen => q.spid \in old.seen
        BY <1>2, <1>3, <2>2
      <3> QED  BY <1>0, <1>1, <1>3, <1>6, <1>7, <3>1, <3>2 DEF IInv, RememberedRecent
    <2> QED  BY <2>1, <2>2
  <1>9. ForgottenPacketsExpired'
    <2>1. \A q \in delivered' : ~ Remembered(q)' => q \in delivered /\ ~ Remembered(q)
      BY <1>1, <1>2, <1>3 DEF Remembered
    <2> SUFFICES ASSUME NEW q \in delivered', ~ Remembered(q)'
                 PROVE  /\ q.ts + MaxEpochDiff < Unix(t2 + Minute)
                        /\ q.ssid \in {current.id, old.id} =>
                             q.ts + MaxEpochDiff < Unix(t2)
      BY <1>3 DEF ForgottenPacketsExpired
    <2>2. /\ q.ts + MaxEpochDiff < Unix(oldLastSeen + Minute)
          /\ q.ssid \in {current.id, old.id} => q.ts + MaxEpochDiff < Unix(oldLastSeen)
      BY <2>1 DEF IInv, ForgottenPacketsExpired
    <2> QED  BY <1>0, <1>6, <1>7, <2>2
  <1> QED  BY <1>1, <1>4, <1>5, <1>8, <1>9 DEF IInv

(* A session change: what the old session's filter knew is forgotten, and  *)
(* has expired by the time a session may be opened again.                  *)
LEMMA NewInvariant ==
  ASSUME IInv, NEW p \in sent, NEW t1 \in 0 .. MaxTime, NEW t2 \in 0 .. MaxTime,
         now <= t1, t1 <= t2, UnpackNew(p, t1, t2)
  PROVE  IInv'
  <1> USE DEF UnpackNew
  <1>0. /\ t1 \in Int /\ t2 \in Int /\ now \in Int /\ oldLastSeen \in Int
        /\ MaxEpochDiff \in Nat /\ Minute \in Nat /\ oldLastSeen <= t2
    BY ClientAssumption, TimeAssumption DEF IInv, TypeOK
  <1>1. /\ IdsUnique' /\ NeverDeliveredTwice'
        /\ now' = t2 /\ delivered' = delivered \union {p} /\ delivered' \subseteq sent'
        /\ now' \in 0 .. MaxTime /\ sent' \subseteq Packets
        /\ spid' \in [Sessions -> 0 .. MaxSpid + 1]
    BY ReturnInvariant
  <1>2. /\ p.ts \in Int /\ p.spid \in Spids /\ p.ssid \in Sessions
        /\ p.ssid # old.id /\ p.ssid # current.id /\ IsOk(EmptyFilter, p.spid)
        /\ p.ts <= Unix(t1) + MaxEpochDiff
    <2>1. p.ssid # old.id /\ p.ssid # current.id
      BY DEF SessionStatus
    <2> QED  BY <1>0, <2>1, NoError DEF FilterOf
  <1>3. oldLastSeen + Minute <= now
    BY <1>0, <1>2 DEF SessionStatus
  <1>4. /\ current' \in SessionType /\ current'.id = p.ssid
        /\ current'.seen = {p.spid}
        /\ Represents(current'.filter, current'.seen, Spids)
    <2> DEFINE n == NewSession(p.ssid)
    <2>1. /\ n \in SessionType /\ n.id = p.ssid /\ n.seen = {} /\ n.filter = EmptyFilter
          /\ Represents(n.filter, n.seen, Spids)
      BY <1>2, NewSessionRepresents
    <2>2. current' = Accept(n, p.spid)
      OBVIOUS
    <2> HIDE DEF n
    <2>3. /\ Accept(n, p.spid) \in SessionType
          /\ Accept(n, p.spid).id = n.id
          /\ Accept(n, p.spid).seen = n.seen \union {p.spid}
          /\ Represents(Accept(n, p.spid).filter, Accept(n, p.spid).seen, Spids)
      BY <1>2, <2>1, AcceptRepresents
    <2>4. n.seen \union {p.spid} = {p.spid}
      BY <2>1
    <2> QED  BY <2>1, <2>2, <2>3, <2>4
  <1>5. TypeOK' /\ oldLastSeen' <= now'
    BY <1>0, <1>1, <1>4 DEF IInv, TypeOK
  <1>6. SessionsRemembered'
    BY <1>2, <1>4 DEF IInv, SessionsRemembered
  <1>7. /\ Unix(now) <= Unix(t2) /\ Unix(t1) <= Unix(t2) /\ Unix(oldLastSeen) <= Unix(t2)
        /\ Unix(now) \in Int /\ Unix(t1) \in Int /\ Unix(t2) \in Int
        /\ Unix(oldLastSeen) \in Int
    BY <1>0, UnixMonotonic
  <1>8. /\ Unix(oldLastSeen + Minute) <= Unix(t2)
        /\ Unix(oldLastSeen + Minute) > Unix(oldLastSeen) + MaxEpochDiff
        /\ Unix(t2 + Minute) > Unix(t2) + MaxEpochDiff
        /\ Unix(oldLastSeen + Minute) \in Int /\ Unix(t2 + Minute) \in Int
    <2>1. oldLastSeen + Minute \in Int /\ oldLastSeen + Minute <= t2
      BY <1>0, <1>3
    <2> QED  BY <1>0, <2>1, UnixMonotonic, UnixMinute
  <1>9. \A q \in delivered' : q \in sent /\ q.ts \in Int /\ q.ssid \in Sessions
    BY <1>1 DEF Return, Packets
  <1>10. RememberedRecent'
    <2> SUFFICES ASSUME NEW q \in delivered'
                 PROVE  /\ q.ssid = p.ssid /\ q.spid \in {p.spid} =>
                             q.ts <= Unix(t2) + MaxEpochDiff
                        /\ q.ssid = current.id /\ q.spid \in current.seen =>
                             q.ts <= Unix(t2) + MaxEpochDiff
      BY <1>1, <1>4 DEF RememberedRecent
    <2>1. CASE q.ssid = p.ssid /\ q.spid = p.spid
      <3>1. q = p
        BY <1>9, <2>1 DEF IInv, IdsUnique
      <3> QED  BY <1>0, <1>2, <1>7, <3>1
    <2>2. CASE ~ (q.ssid = p.ssid /\ q.spid = p.spid)
      <3>1. q \in delivered
        BY <1>1, <2>2
      <3>2. q.ssid = current.id /\ q.spid \in current.seen =>
              q.ts <= Unix(now) + MaxEpochDiff
        BY <3>1 DEF IInv, RememberedRecent
      <3> QED  BY <1>0, <1>7, <1>9, <2>2, <3>2
    <2> QED  BY <2>1, <2>2
  <1>11. ForgottenPacketsExpired'
    <2> SUFFICES ASSUME NEW q \in delivered', ~ Remembered(q)'
                 PROVE  /\ q.ts + MaxEpochDiff < Unix(t2 + Minute)
                        /\ q.ssid \in {p.ssid, current.id} =>
                             q.ts + MaxEpochDiff < Unix(t2)
      BY <1>4 DEF ForgottenPacketsExpired
    <2>1. /\ q \in delivered
          /\ ~ (q.ssid = current.id /\ q.spid \in current.seen)
      BY <1>1, <1>4 DEF Remembered
    <2>2. CASE q.ssid = old.id /\ q.spid \in old.seen
      <3>1. q.ts <= Unix(oldLastSeen) + MaxEpochDiff
        BY <2>1, <2>2 DEF IInv, RememberedRecent
      <3>2. q.ssid # p.ssid /\ q.ssid # current.id
        BY <1>2, <1>9, <2>2, ClientAssumption, TimeAssumption DEF IInv, SessionsRemembered
      <3> QED  BY <1>0, <1>7, <1>8, <1>9, <3>1, <3>2
    <2>3. CASE ~ (q.ssid = old.id /\ q.spid \in old.seen)
      <3>1. ~ Remembered(q)
        BY <2>1, <2>3 DEF Remembered
      <3>2. q.ts + MaxEpochDiff < Unix(oldLastSeen + Minute)
        BY <2>1, <3>1 DEF IInv, ForgottenPacketsExpired
      <3> QED  BY <1>0, <1>7, <1>8, <1>9, <3>2
    <2> QED  BY <2>2, <2>3
  <1> QED  BY <1>1, <1>5, <1>6, <1>10, <1>11 DEF IInv

(* The inductive invariant holds in every reachable state. *)
THEOREM Invariance == Spec => []IInv
  <1>1. Init => IInv
    BY InitInvariant
  <1>2. IInv /\ [Next]_vars => IInv'
    <2> SUFFICES ASSUME IInv, [Next]_vars PROVE IInv'
      OBVIOUS
    <2>0. now \in 0 .. MaxTime /\ now \in Int /\ CallTicks \in Nat /\ MaxTime \in Nat
      BY ClientAssumption, TimeAssumption DEF IInv, TypeOK
    <2>1. CASE UNCHANGED vars
      BY <2>0, <2>1, ClockInvariant DEF vars
    <2>2. CASE Tick
      BY <2>0, <2>2, ClockInvariant DEF Tick
    <2>3. ASSUME NEW s \in Sessions, PackInPlace(s) PROVE IInv'
      BY <2>3, PackInvariant
    <2>4. ASSUME NEW p \in sent, Unpack(p) PROVE IInv'
      <3>1. PICK t1 \in now .. now + CallTicks :
              /\ t1 <= MaxTime
              /\ \/ \E intact \in BOOLEAN : UnpackFails(p, intact, t1)
                 \/ \E t2 \in t1 .. now + CallTicks :
                      /\ t2 <= MaxTime
                      /\ \/ UnpackCurrent(p, t1, t2)
                         \/ UnpackOld(p, t1, t2)
                         \/ UnpackNew(p, t1, t2)
        BY <2>4 DEF Unpack
      <3>2. t1 \in 0 .. MaxTime /\ now <= t1
        BY <2>0, <3>1
      <3>3. ASSUME NEW intact \in BOOLEAN, UnpackFails(p, intact, t1) PROVE IInv'
        BY <2>0, <3>2, <3>3, ClockInvariant DEF UnpackFails
      <3>4. ASSUME NEW t2 \in t1 .. now + CallTicks, t2 <= MaxTime,
                   \/ UnpackCurrent(p, t1, t2)
                   \/ UnpackOld(p, t1, t2)
                   \/ UnpackNew(p, t1, t2)
            PROVE  IInv'
        <4>1. t2 \in 0 .. MaxTime /\ t1 <= t2
          BY <2>0, <3>2, <3>4
        <4> QED  BY <3>2, <3>4, <4>1, CurrentInvariant, OldInvariant, NewInvariant
      <3> QED  BY <3>1, <3>3, <3>4
    <2> QED  BY <2>1, <2>2, <2>3, <2>4 DEF Next
  <1> QED  BY <1>1, <1>2, PTL DEF Spec

(* The unpacker's fields keep their types. *)
THEOREM TypeCorrect == Spec => []TypeOK
  <1>1. IInv => TypeOK
    BY DEF IInv
  <1> QED  BY <1>1, Invariance, PTL

(* No packet is returned twice, whatever the network repeats or delays. *)
THEOREM NoReplay == Spec => []NeverDeliveredTwice
  <1>1. IInv => NeverDeliveredTwice
    BY DEF IInv
  <1> QED  BY <1>1, Invariance, PTL

(* What the unpacker has forgotten has expired. *)
THEOREM ForgottenExpired == Spec => []ForgottenPacketsExpired
  <1>1. IInv => ForgottenPacketsExpired
    BY DEF IInv
  <1> QED  BY <1>1, Invariance, PTL

(* The filters of the sessions the unpacker holds stay exact. *)
THEOREM FiltersExact == Spec => []SessionsRemembered
  <1>1. IInv => SessionsRemembered
    BY DEF IInv
  <1> QED  BY <1>1, Invariance, PTL

-----------------------------------------------------------------------------
(* ShadowPacketServer.  A packet that was written and is not among those   *)
(* an eviction raced with cannot be accepted again: it is in the filter of *)
(* its session, or out of date, because the session outlives the           *)
(* timestamps of the packets it has set its deadline for.                  *)

ClientPackets == [csid : ClientSessions, cpid : 0 .. MaxCpid, ts : Int]

ServerTypes ==
  /\ clock \in 0 .. MaxTime /\ cpid \in [ClientSessions -> 0 .. MaxCpid + 1]
  /\ packed \subseteq ClientPackets
  /\ session \in [ClientSessions -> {"none", "setup", "open"}]
  /\ filters \in [ClientSessions -> FilterType]
  /\ queue \in [ClientSessions -> Seq(ClientPackets)]
  /\ drain \in [ClientSessions -> Seq(ClientPackets)]
  /\ written \in [ClientSessions -> SUBSET packed]
  /\ deadline \in [ClientSessions -> Nat]
  /\ forwardedAgain \subseteq forwarded /\ forwarded \subseteq packed

(* The timestamp is out of range at time t, and will be from then on. *)
OutOfDate(p, t) == p.ts + MaxEpochDiff < Unix(t)

(* What a session holds is its own, has a timestamp that was in range, and *)
(* was not forwarded before.                                               *)
OwnPackets(c) ==
  /\ Len(queue[c]) <= SendChannelCapacity
  /\ \A p \in ToSet(queue[c]) \union written[c] :
       p \in packed /\ p.csid = c /\ p.ts <= Unix(clock) + MaxEpochDiff
  /\ \A p \in ToSet(queue[c]) : p \in forwarded => p \in Excepted
  /\ ToSet(drain[c]) \subseteq packed \intersect raced
  /\ session[c] = "none" => queue[c] = <<>>
  /\ written[c] # {} => session[c] = "open"
  /\ session[c] = "open" => deadline[c] <= clock + NatTimeout

QueueDistinct(c) == IsInjective(queue[c]) /\ written[c] \intersect ToSet(queue[c]) = {}

(* Packets that must not be forwarded again. *)
Single == forwarded \ Excepted

Live(c) ==
  ToSet(queue[c]) \union written[c]
    \union {p \in Single : p.csid = c /\ ~ OutOfDate(p, clock)}

(* The filter of a session remembers them. *)
RemembersLive(c) ==
  session[c] # "none" =>
    \E acc \in SUBSET (0 .. MaxCpid) :
      Represents(filters[c], acc, 0 .. MaxCpid) /\ \A p \in Live(c) : p.cpid \in acc

(* A packet in date keeps its session open: until the deadline is set for  *)
(* it, and then beyond its date.                                           *)
Guarded(p) ==
  \/ OutOfDate(p, clock)
  \/ /\ session[p.csid] = "open"
     /\ p \in written[p.csid] \/ OutOfDate(p, deadline[p.csid])

ServerIInv ==
  /\ ServerTypes
  /\ \A c \in ClientSessions : OwnPackets(c) /\ QueueDistinct(c) /\ RemembersLive(c)
  /\ \A p \in Single : Guarded(p)
  /\ forwardedAgain \subseteq Excepted

(* Queues *)
LEMMA QueueAppend ==
  ASSUME NEW s \in Seq(ClientPackets), NEW x \in ClientPackets
  PROVE  /\ Append(s, x) \in Seq(ClientPackets) /\ Len(Append(s, x)) = Len(s) + 1
         /\ ToSet(Append(s, x)) = ToSet(s) \union {x}
         /\ IsInjective(s) /\ x \notin ToSet(s) => IsInjective(Append(s, x))
  <1> DEFINE a == Append(s, x)
             n == Len(s)
  <1>1. /\ a \in Seq(ClientPackets) /\ Len(a) = n + 1 /\ a[n + 1] = x
        /\ \A i \in 1 .. n : a[i] = s[i]
    BY AppendProperties
  <1>2. n \in Nat /\ DOMAIN s = 1 .. n
    BY LenProperties
  <1>3. DOMAIN a = 1 .. n + 1
    BY <1>1, LenProperties
  <1> HIDE DEF a, n
  <1>4. \A i \in 1 .. n + 1 : i \in 1 .. n \/ i = n + 1
    BY <1>2
  <1>5. ToSet(a) = ToSet(s) \union {x}
    <2>1. \A i \in 1 .. n + 1 : a[i] \in ToSet(s) \union {x}
      BY <1>1, <1>2, <1>4 DEF ToSet
    <2>2. \A i \in 1 .. n : s[i] \in ToSet(a)
      BY <1>1, <1>2, <1>3 DEF ToSet
    <2>3. x \in ToSet(a)
      BY <1>1, <1>2, <1>3 DEF ToSet
    <2> QED  BY <1>2, <1>3, <2>1, <2>2, <2>3 DEF ToSet
  <1>6. ASSUME IsInjective(s), x \notin ToSet(s) PROVE IsInjective(a)
    <2>1. \A i \in 1 .. n : s[i] # x
      BY <1>2, <1>6 DEF ToSet
    <2>2. \A i, j \in 1 .. n : s[i] = s[j] => i = j
      BY <1>2, <1>6 DEF IsInjective
    <2> QED  BY <1>1, <1>2, <1>3, <1>4, <2>1, <2>2 DEF IsInjective
  <1> QED  BY <1>1, <1>5, <1>6 DEF a, n

(* What is left of a queue of distinct packets when its head is taken. *)
LEMMA QueueTail ==
  ASSUME NEW s \in Seq(ClientPackets), s # <<>>
  PROVE  /\ Tail(s) \in Seq(ClientPackets) /\ Len(Tail(s)) = Len(s) - 1 /\ Len(s) \in Nat
         /\ Head(s) \in ToSet(s) /\ ToSet(Tail(s)) \subseteq ToSet(s)
         /\ IsInjective(s) => IsInjective(Tail(s)) /\ Head(s) \notin ToSet(Tail(s))
  <1> DEFINE t == Tail(s)
             n == Len(s)
  <1>1. n \in Nat /\ n >= 1 /\ DOMAIN s = 1 .. n
    BY LenProperties, EmptySeq
  <1>2. /\ t \in Seq(ClientPackets) /\ Len(t) = n - 1 /\ Head(s) = s[1]
        /\ \A i \in 1 .. n - 1 : t[i] = s[i + 1]
    BY HeadTailProperties
  <1>3. DOMAIN t = 1 .. n - 1
    BY <1>2, LenProperties
  <1> HIDE DEF t, n
  <1>4. \A i \in 1 .. n - 1 : i + 1 \in 1 .. n /\ i + 1 # 1
    BY <1>1
  <1>5. 1 \in 1 .. n
    BY <1>1
  <1>6. Head(s) \in ToSet(s) /\ ToSet(t) \subseteq ToSet(s)
    BY <1>1, <1>2, <1>3, <1>4, <1>5 DEF ToSet
  <1>7. ASSUME IsInjective(s) PROVE IsInjective(t) /\ s[1] \notin ToSet(t)
    <2>1. \A i, j \in 1 .. n : s[i] = s[j] => i = j
      BY <1>1, <1>7 DEF IsInjective
    <2>2. \A i, j \in 1 .. n - 1 : i + 1 = j + 1 => i = j
      BY <1>1
    <2>3. IsInjective(t)
      BY <1>2, <1>3, <1>4, <2>1, <2>2 DEF IsInjective
    <2>4. \A i \in 1 .. n - 1 : t[i] # s[1]
      BY <1>2, <1>4, <1>5, <2>1
    <2> QED  BY <1>3, <2>3, <2>4 DEF ToSet
  <1> QED  BY <1>1, <1>2, <1>6, <1>7 DEF t, n

(* The packets of two queues, one behind the other. *)
LEMMA QueueConcat ==
  ASSUME NEW s \in Seq(ClientPackets), NEW t \in Seq(ClientPackets)
  PROVE  s \o t \in Seq(ClientPackets) /\ ToSet(s \o t) = ToSet(s) \union ToSet(t)
  <1>1. \A q : ToSet(q) = Range(q)
    BY DEF ToSet, Range
  <1> QED  BY <1>1, ConcatProperties, RangeConcatenation

(* The constants, as the lemmas use them. *)
LEMMA ServerNumbers ==
  /\ MaxCpid \in Nat /\ MaxTime \in Nat /\ MaxEpochDiff \in Nat /\ NatTimeout \in Nat
  /\ SendChannelCapacity \in Nat \ {0} /\ Skews \subseteq Int
  /\ NatTimeout >= 2 * MaxEpochDiff * Second
  BY ServerAssumption, TimeAssumption

(* What is out of date stays so. *)
LEMMA StaysOutOfDate ==
  ASSUME NEW p \in ClientPackets, NEW s \in Int, NEW t \in Int, s <= t, OutOfDate(p, s)
  PROVE  OutOfDate(p, t)
  <1>1. p.ts \in Int /\ MaxEpochDiff \in Nat
    BY TimeAssumption DEF ClientPackets
  <1>2. Unix(s) \in Int /\ Unix(t) \in Int /\ Unix(s) <= Unix(t)
    BY UnixMonotonic
  <1> QED  BY <1>1, <1>2 DEF OutOfDate

(* A NAT timeout after a packet was in range it is out of date, if it was  *)
(* not as far ahead as is accepted or the timeout covers that second too.  *)
LEMMA TimeoutCovers ==
  ASSUME NEW p \in ClientPackets, NEW t \in Int,
         p.ts <= Unix(t) + MaxEpochDiff,
         NatTimeout >= (2 * MaxEpochDiff + 1) * Second \/ p.ts - Unix(t) < MaxEpochDiff
  PROVE  OutOfDate(p, t + NatTimeout)
  <1>1. NatTimeout \in Int /\ MaxEpochDiff \in Nat /\ p.ts \in Int
    BY ServerNumbers DEF ClientPackets
  <1>2. CASE NatTimeout >= (2 * MaxEpochDiff + 1) * Second
    <2> DEFINE D == 2 * MaxEpochDiff + 1
    <2>1. D \in Nat /\ NatTimeout >= D * Second
      BY <1>1, <1>2
    <2> HIDE DEF D
    <2>2. Unix(t) \in Int /\ Unix(t + NatTimeout) \in Int /\ Unix(t + NatTimeout) >= Unix(t) + D
      BY <1>1, <2>1, UnixLater
    <2> QED  BY <1>1, <2>1, <2>2 DEF OutOfDate, D
  <1>3. CASE p.ts - Unix(t) < MaxEpochDiff
    <2> DEFINE D == 2 * MaxEpochDiff
    <2>1. D \in Nat /\ NatTimeout >= D * Second
      BY <1>1, ServerNumbers
    <2> HIDE DEF D
    <2>2. Unix(t) \in Int /\ Unix(t + NatTimeout) \in Int /\ Unix(t + NatTimeout) >= Unix(t) + D
      BY <1>1, <2>1, UnixLater
    <2> QED  BY <1>1, <1>3, <2>1, <2>2 DEF OutOfDate, D
  <1> QED  BY <1>2, <1>3

(* A packet that is accepted is in date. *)
LEMMA AcceptedInDate ==
  ASSUME ServerTypes, NEW p \in packed, Unpacks(p)
  PROVE  /\ p \in ClientPackets /\ p.csid \in ClientSessions /\ p.cpid \in 0 .. MaxCpid
         /\ ~ OutOfDate(p, clock) /\ p.ts <= Unix(clock) + MaxEpochDiff
  <1>1. p \in ClientPackets /\ p.csid \in ClientSessions /\ p.cpid \in 0 .. MaxCpid /\ p.ts \in Int
    BY DEF ServerTypes, ClientPackets
  <1>2. clock \in Int /\ MaxEpochDiff \in Nat
    BY ServerNumbers DEF ServerTypes
  <1>3. Unix(clock) \in Int
    BY <1>2, UnixMonotonic
  <1>4. p.ts - Unix(clock) >= - MaxEpochDiff /\ p.ts - Unix(clock) <= MaxEpochDiff
    BY DEF Unpacks, ValidTimestamp
  <1> QED  BY <1>1, <1>2, <1>3, <1>4 DEF OutOfDate

(* Nothing of session d changes. *)
SessionSame(d) ==
  /\ session'[d] = session[d] /\ filters'[d] = filters[d] /\ queue'[d] = queue[d]
  /\ written'[d] = written[d] /\ deadline'[d] = deadline[d] /\ drain'[d] = drain[d]

(* A step of one session keeps what is claimed of another. *)
LEMMA SessionKept ==
  ASSUME ServerIInv, ServerTypes', NEW d \in ClientSessions, SessionSame(d),
         clock <= clock', packed \subseteq packed', raced \subseteq raced', Excepted \subseteq Excepted',
         \A p \in forwarded' : p \in forwarded \/ p.csid # d \/ p \in Excepted'
  PROVE  /\ OwnPackets(d)' /\ QueueDistinct(d)' /\ RemembersLive(d)'
         /\ \A p \in Single : p.csid = d => Guarded(p)'
  <1>0. /\ ServerTypes /\ OwnPackets(d) /\ QueueDistinct(d) /\ RemembersLive(d)
        /\ \A p \in Single : Guarded(p)
    BY DEF ServerIInv
  <1>1. /\ clock \in Int /\ clock' \in Int /\ MaxEpochDiff \in Int /\ NatTimeout \in Int
        /\ deadline[d] \in Int
    BY <1>0, ServerNumbers DEF ServerTypes
  <1>2. Unix(clock) \in Int /\ Unix(clock') \in Int /\ Unix(clock) <= Unix(clock')
    BY <1>1, UnixMonotonic
  <1>3. \A p \in packed : p \in ClientPackets /\ p.ts \in Int
    BY <1>0 DEF ServerTypes, ClientPackets
  <1>4. Single \subseteq packed
    BY <1>0 DEF ServerTypes, Single
  <1>5. \A p \in packed : OutOfDate(p, clock) => OutOfDate(p, clock')
    BY <1>1, <1>3, StaysOutOfDate
  <1>6. OwnPackets(d)'
    <2>1. ASSUME NEW p \in ToSet(queue[d]) \union written[d]
          PROVE  p \in packed' /\ p.csid = d /\ p.ts <= Unix(clock') + MaxEpochDiff
      <3>1. p \in packed /\ p.csid = d /\ p.ts <= Unix(clock) + MaxEpochDiff
        BY <1>0 DEF OwnPackets
      <3> QED  BY <1>1, <1>2, <1>3, <3>1
    <2>2. ASSUME NEW p \in ToSet(queue[d]), p \in forwarded' PROVE p \in Excepted'
      BY <1>0, <2>2 DEF OwnPackets
    <2>3. session[d] = "open" => deadline[d] <= clock' + NatTimeout
      BY <1>0, <1>1 DEF OwnPackets
    <2> QED  BY <1>0, <2>1, <2>2, <2>3 DEF OwnPackets, SessionSame
  <1>7. Live(d)' \subseteq Live(d)
    <2>1. ASSUME NEW p \in Single', p.csid = d, ~ OutOfDate(p, clock')
          PROVE  p \in Single /\ ~ OutOfDate(p, clock)
      <3>1. p \in Single
        BY <2>1 DEF Single
      <3> QED  BY <1>4, <1>5, <2>1, <3>1
    <2> QED  BY <2>1 DEF Live, SessionSame
  <1>8. QueueDistinct(d)' /\ RemembersLive(d)'
    BY <1>0, <1>7 DEF QueueDistinct, RemembersLive, SessionSame
  <1>9. ASSUME NEW p \in Single, p.csid = d PROVE Guarded(p)'
    BY <1>0, <1>4, <1>5, <1>9 DEF Guarded, SessionSame
  <1> QED  BY <1>6, <1>8, <1>9

(* A step of session c keeps the invariant if it keeps what that says of c. *)
LEMMA OneSession ==
  ASSUME ServerIInv, ServerTypes', NEW c \in ClientSessions,
         clock' = clock, packed \subseteq packed', raced \subseteq raced', Excepted \subseteq Excepted',
         \A d \in ClientSessions : d # c => SessionSame(d),
         \A p \in forwarded' : p \in forwarded \/ p.csid = c \/ p \in Excepted',
         OwnPackets(c)', QueueDistinct(c)', RemembersLive(c)',
         \A p \in Single' : p.csid = c => Guarded(p)',
         forwardedAgain' \subseteq Excepted'
  PROVE  ServerIInv'
  <1>1. clock <= clock'
    BY DEF ServerIInv, ServerTypes
  <1>2. ASSUME NEW d \in ClientSessions, d # c
        PROVE  /\ OwnPackets(d)' /\ QueueDistinct(d)' /\ RemembersLive(d)'
               /\ \A p \in Single : p.csid = d => Guarded(p)'
    <2>1. \A p \in forwarded' : p \in forwarded \/ p.csid # d \/ p \in Excepted'
      BY <1>2
    <2>2. SessionSame(d)
      BY <1>2
    <2> QED  BY <1>1, <2>1, <2>2, SessionKept
  <1>3. ASSUME NEW p \in Single' PROVE Guarded(p)'
    <2>1. CASE p.csid = c
      BY <2>1
    <2>2. CASE p.csid # c
      <3>1. p \in Single
        BY <2>2 DEF Single
      <3>2. p.csid \in ClientSessions
        BY <3>1 DEF Single, ServerIInv, ServerTypes, ClientPackets
      <3> QED  BY <1>2, <2>2, <3>1, <3>2
    <2> QED  BY <2>1, <2>2
  <1> QED  BY <1>2, <1>3 DEF ServerIInv

(* The invariant holds at the start. *)
LEMMA ServerStarts ==
  ASSUME ServerInit
  PROVE  ServerIInv
  <1>1. ServerTypes
    BY ServerNumbers, EmptyRepresents
       DEF ServerInit, ServerTypes, FilterType, EmptyFilter
  <1>2. ASSUME NEW c \in ClientSessions PROVE OwnPackets(c) /\ QueueDistinct(c) /\ RemembersLive(c)
    <2>1. queue[c] = <<>> /\ drain[c] = <<>> /\ written[c] = {} /\ session[c] = "none"
      BY DEF ServerInit
    <2>2. ToSet(queue[c]) = {} /\ ToSet(drain[c]) = {} /\ IsInjective(queue[c]) /\ Len(queue[c]) = 0
      BY <2>1 DEF ToSet, IsInjective
    <2> QED  BY <2>1, <2>2, ServerNumbers DEF OwnPackets, QueueDistinct, RemembersLive
  <1>3. Single = {} /\ forwardedAgain \subseteq Excepted
    BY DEF ServerInit, Single, Excepted
  <1> QED  BY <1>1, <1>2, <1>3 DEF ServerIInv

(* Time passes: packets only become older, and a deadline is not overtaken. *)
LEMMA ServerTickKeeps ==
  ASSUME ServerIInv, ServerTick
  PROVE  ServerIInv'
  <1>1. /\ clock \in Int /\ clock < MaxTime /\ clock' = clock + 1
        /\ UNCHANGED <<cpid, packed, session, filters, queue, written, deadline, drain, forwarded,
                       forwardedAgain, raced, fromAhead>>
        /\ Excepted' = Excepted
    BY ServerNumbers DEF Excepted, ServerTick, sessionVars, ServerIInv, ServerTypes
  <1>2. ServerTypes'
    BY <1>1, ServerNumbers DEF ServerIInv, ServerTypes
  <1>3. clock <= clock'
    BY <1>1
  <1>4. ASSUME NEW d \in ClientSessions
        PROVE  /\ OwnPackets(d)' /\ QueueDistinct(d)' /\ RemembersLive(d)'
               /\ \A p \in Single : p.csid = d => Guarded(p)'
    <2>1. SessionSame(d)
      BY <1>1 DEF SessionSame
    <2> QED  BY <1>1, <1>2, <1>3, <2>1, SessionKept
  <1>5. Single' = Single /\ \A p \in Single : p.csid \in ClientSessions
    BY <1>1 DEF Single, ServerIInv, ServerTypes, ClientPackets
  <1> QED  BY <1>1, <1>2, <1>4, <1>5 DEF ServerIInv

(* A client packs a packet with a counter it has not used. *)
LEMMA ServerPackKeeps ==
  ASSUME ServerIInv, NEW c \in ClientSessions, ClientPackInPlace(c)
  PROVE  ServerIInv'
  <1>1. /\ cpid[c] <= MaxCpid /\ cpid' = [cpid EXCEPT ![c] = cpid[c] + 1]
        /\ \E skew \in Skews :
             packed' = packed \union {[csid |-> c, cpid |-> cpid[c], ts |-> Unix(clock) + skew]}
        /\ UNCHANGED <<clock, session, filters, queue, written, deadline, drain, forwarded,
                       forwardedAgain, raced, fromAhead>>
        /\ Excepted' = Excepted
    BY DEF Excepted, ClientPackInPlace, sessionVars
  <1>2. clock \in Int /\ cpid[c] \in 0 .. MaxCpid /\ MaxCpid \in Nat
    BY <1>1, ServerNumbers DEF ServerIInv, ServerTypes
  <1>3. Unix(clock) \in Int
    BY <1>2, UnixMonotonic
  <1>4. packed \subseteq packed' /\ packed' \subseteq ClientPackets
    BY <1>1, <1>2, <1>3, ServerNumbers DEF ServerIInv, ServerTypes, ClientPackets
  <1>5. cpid' \in [ClientSessions -> 0 .. MaxCpid + 1]
    BY <1>1, <1>2 DEF ServerIInv, ServerTypes
  <1>6. ServerTypes'
    BY <1>1, <1>4, <1>5 DEF ServerIInv, ServerTypes
  <1>7. \A d \in ClientSessions : SessionSame(d)
    BY <1>1 DEF SessionSame
  <1>8. clock <= clock'
    BY <1>1, <1>2
  <1>9. ASSUME NEW d \in ClientSessions
        PROVE  /\ OwnPackets(d)' /\ QueueDistinct(d)' /\ RemembersLive(d)'
               /\ \A p \in Single : p.csid = d => Guarded(p)'
    BY <1>1, <1>4, <1>6, <1>7, <1>8, SessionKept
  <1>10. Single' = Single /\ \A p \in Single : p.csid \in ClientSessions
    BY <1>1 DEF Single, ServerIInv, ServerTypes, ClientPackets
  <1> QED  BY <1>1, <1>6, <1>9, <1>10 DEF ServerIInv

(* A packet that starts a session was not forwarded, or is one of those an *)
(* eviction raced with: all others of a session that is gone are out of    *)
(* date.                                                                   *)
LEMMA ReceiveNewKeeps ==
  ASSUME ServerIInv, NEW p \in packed, ReceiveNew(p)
  PROVE  ServerIInv'
  <1> DEFINE c == p.csid
  <1>1. /\ session[c] = "none" /\ Unpacks(p)
        /\ session' = [session EXCEPT ![c] = "setup"]
        /\ filters' = [filters EXCEPT ![c] = MustAdd(EmptyFilter, p.cpid)]
        /\ queue' = [queue EXCEPT ![c] = <<p>>] /\ written' = [written EXCEPT ![c] = {}]
        /\ UNCHANGED <<clock, cpid, packed, deadline, drain, forwarded, forwardedAgain, raced, fromAhead>>
        /\ Excepted' = Excepted
    BY DEF Excepted, ReceiveNew, ServerAccept, SessionFilter
  <1>2. /\ c \in ClientSessions /\ p \in ClientPackets /\ p.cpid \in 0 .. MaxCpid
        /\ ~ OutOfDate(p, clock) /\ p.ts <= Unix(clock) + MaxEpochDiff
    BY <1>1, AcceptedInDate DEF ServerIInv
  <1>3. IsOk(EmptyFilter, p.cpid)
    BY <1>1 DEF Unpacks, SessionFilter
  <1> HIDE DEF c
  <1>a. p.csid = c
    BY DEF c
  <1>4. Represents(MustAdd(EmptyFilter, p.cpid), {p.cpid}, 0 .. MaxCpid)
    <2> DEFINE C == 0 .. MaxCpid
    <2>1. C \subseteq Nat
      BY ServerNumbers
    <2> HIDE DEF C
    <2>2. Represents(EmptyFilter, {}, C)
      BY <2>1, EmptyRepresents
    <2>3. p.cpid \in C
      BY <1>2 DEF C
    <2>4. Represents(MustAdd(EmptyFilter, p.cpid), {} \union {p.cpid}, C)
      BY <1>3, <2>1, <2>2, <2>3, MustAddRepresents
    <2> QED  BY <2>4 DEF C
  <1>5. /\ session'[c] = "setup" /\ queue'[c] = <<p>> /\ written'[c] = {}
        /\ filters'[c] = MustAdd(EmptyFilter, p.cpid) /\ drain'[c] = drain[c]
    BY <1>1, <1>2 DEF ServerIInv, ServerTypes
  <1>6. ServerTypes'
    <2>1. MustAdd(EmptyFilter, p.cpid) \in FilterType
      BY <1>4 DEF Represents
    <2>2. filters' \in [ClientSessions -> FilterType]
      BY <1>1, <1>2, <2>1 DEF ServerIInv, ServerTypes
    <2>3. <<p>> \in Seq(ClientPackets)
      BY <1>2
    <2>4. queue' \in [ClientSessions -> Seq(ClientPackets)]
      BY <1>1, <1>2, <2>3 DEF ServerIInv, ServerTypes
    <2>5. session' \in [ClientSessions -> {"none", "setup", "open"}]
      BY <1>1, <1>2 DEF ServerIInv, ServerTypes
    <2>6. written' \in [ClientSessions -> SUBSET packed]
      BY <1>1, <1>2 DEF ServerIInv, ServerTypes
    <2> QED  BY <1>1, <2>2, <2>4, <2>5, <2>6 DEF ServerIInv, ServerTypes
  <1>7. \A d \in ClientSessions : d # c => SessionSame(d)
    BY <1>1, <1>2 DEF SessionSame, ServerIInv, ServerTypes
  <1>8. Single' = Single
    BY <1>1 DEF Single
  <1>9. \A q \in Single : q.csid = c => OutOfDate(q, clock)
    BY <1>1 DEF ServerIInv, Guarded
  <1>10. ToSet(queue[c])' = {p} /\ IsInjective(queue[c])' /\ Len(queue'[c]) = 1
    <2>1. ToSet(<<p>>) = {p} /\ IsInjective(<<p>>) /\ Len(<<p>>) = 1
      BY DEF ToSet, IsInjective
    <2> QED  BY <1>5, <2>1
  <1>11. p \in forwarded => p \in Excepted
    BY <1>2, <1>9, <1>a DEF Single
  <1>12. OwnPackets(c)'
    <2>1. OwnPackets(c)
      BY <1>2 DEF ServerIInv
    <2>2. 1 <= SendChannelCapacity
      BY ServerNumbers
    <2>3. \A x \in ToSet(queue[c])' \union written'[c] : x = p
      BY <1>5, <1>10
    <2>4. ToSet(drain[c])' \subseteq packed' \intersect raced'
      BY <1>1, <2>1 DEF OwnPackets
    <2> QED  BY <1>1, <1>2, <1>5, <1>10, <1>11, <1>a, <2>2, <2>3, <2>4 DEF OwnPackets
  <1>13. QueueDistinct(c)'
    BY <1>5, <1>10 DEF QueueDistinct
  <1>14. RemembersLive(c)'
    <2>1. Live(c)' \subseteq {p}
      BY <1>1, <1>5, <1>8, <1>9, <1>10 DEF Live
    <2>2. {p.cpid} \in SUBSET (0 .. MaxCpid)
      BY <1>2
    <2>3. \A q \in Live(c)' : q.cpid \in {p.cpid}
      BY <2>1
    <2>4. Represents(filters'[c], {p.cpid}, 0 .. MaxCpid)
      BY <1>4, <1>5
    <2> QED  BY <2>2, <2>3, <2>4 DEF RemembersLive
  <1>15. \A q \in Single' : q.csid = c => Guarded(q)'
    BY <1>1, <1>8, <1>9 DEF Guarded
  <1> QED  BY <1>1, <1>2, <1>6, <1>7, <1>12, <1>13, <1>14, <1>15, OneSession DEF ServerIInv

(* A packet that passes a session's filter is not among those the session  *)
(* holds, nor among those that must not be forwarded again.                *)
LEMMA ReceiveExistingKeeps ==
  ASSUME ServerIInv, NEW p \in packed, ReceiveExisting(p)
  PROVE  ServerIInv'
  <1> DEFINE c == p.csid
             q == IF Len(queue[c]) < SendChannelCapacity THEN Append(queue[c], p) ELSE queue[c]
  <1>1. /\ session[c] # "none" /\ Unpacks(p)
        /\ filters' = [filters EXCEPT ![c] = MustAdd(filters[c], p.cpid)]
        /\ queue' = [queue EXCEPT ![c] = q]
        /\ UNCHANGED <<clock, cpid, packed, session, written, deadline, drain, forwarded,
                       forwardedAgain, raced, fromAhead>>
        /\ Excepted' = Excepted
    BY DEF Excepted, ReceiveExisting, ServerAccept, SessionFilter
  <1>2. /\ c \in ClientSessions /\ p \in ClientPackets /\ p.cpid \in 0 .. MaxCpid
        /\ ~ OutOfDate(p, clock) /\ p.ts <= Unix(clock) + MaxEpochDiff
    BY <1>1, AcceptedInDate DEF ServerIInv
  <1>3. IsOk(filters[c], p.cpid)
    BY <1>1 DEF Unpacks, SessionFilter
  <1>b. OwnPackets(c) /\ QueueDistinct(c) /\ RemembersLive(c) /\ queue[c] \in Seq(ClientPackets)
    BY <1>2 DEF ServerIInv, ServerTypes
  <1> HIDE DEF c
  <1>a. p.csid = c
    BY DEF c
  <1>c. PICK acc \in SUBSET (0 .. MaxCpid) :
          Represents(filters[c], acc, 0 .. MaxCpid) /\ \A x \in Live(c) : x.cpid \in acc
    BY <1>1, <1>b DEF RemembersLive
  <1>d. /\ p.cpid \notin acc
        /\ Represents(MustAdd(filters[c], p.cpid), acc \union {p.cpid}, 0 .. MaxCpid)
    <2> DEFINE C == 0 .. MaxCpid
    <2>1. C \subseteq Nat
      BY ServerNumbers
    <2>2. p.cpid \in C /\ Represents(filters[c], acc, C)
      BY <1>2, <1>c
    <2> HIDE DEF C
    <2>3. p.cpid \notin acc
      BY <1>3, <2>1, <2>2, IsOkExact
    <2>4. Represents(MustAdd(filters[c], p.cpid), acc \union {p.cpid}, C)
      BY <1>3, <2>1, <2>2, MustAddRepresents
    <2> QED  BY <2>3, <2>4 DEF C
  <1>e. p \notin ToSet(queue[c]) /\ p \notin written[c] /\ p \notin Single
    <2>1. p \notin Live(c)
      BY <1>c, <1>d
    <2> QED  BY <1>2, <1>a, <2>1 DEF Live
  <1>f. /\ q \in Seq(ClientPackets) /\ Len(q) <= SendChannelCapacity /\ IsInjective(q)
        /\ ToSet(q) \subseteq ToSet(queue[c]) \union {p}
    <2>1. Len(queue[c]) \in Nat /\ SendChannelCapacity \in Nat
      BY <1>b, LenProperties, ServerNumbers
    <2>2. /\ Append(queue[c], p) \in Seq(ClientPackets) /\ Len(Append(queue[c], p)) = Len(queue[c]) + 1
          /\ ToSet(Append(queue[c], p)) = ToSet(queue[c]) \union {p}
          /\ IsInjective(Append(queue[c], p))
      BY <1>2, <1>b, <1>e, QueueAppend DEF QueueDistinct
    <2>3. IsInjective(queue[c]) /\ Len(queue[c]) <= SendChannelCapacity
      BY <1>b DEF QueueDistinct, OwnPackets
    <2> QED  BY <1>b, <2>1, <2>2, <2>3
  <1> HIDE DEF q
  <1>5. /\ queue'[c] = q /\ filters'[c] = MustAdd(filters[c], p.cpid)
        /\ session'[c] = session[c] /\ written'[c] = written[c] /\ drain'[c] = drain[c]
        /\ deadline'[c] = deadline[c]
    BY <1>1, <1>2, <1>a DEF ServerIInv, ServerTypes
  <1>6. ServerTypes'
    <2>1. MustAdd(filters[c], p.cpid) \in FilterType
      BY <1>d DEF Represents
    <2>2. filters' \in [ClientSessions -> FilterType]
      BY <1>1, <1>2, <2>1 DEF ServerIInv, ServerTypes
    <2>3. queue' \in [ClientSessions -> Seq(ClientPackets)]
      BY <1>1, <1>2, <1>f DEF ServerIInv, ServerTypes
    <2> QED  BY <1>1, <2>2, <2>3 DEF ServerIInv, ServerTypes
  <1>7. \A d \in ClientSessions : d # c => SessionSame(d)
    BY <1>1, <1>2 DEF SessionSame, ServerIInv, ServerTypes
  <1>8. Single' = Single
    BY <1>1 DEF Single
  <1>12. OwnPackets(c)'
    <2>1. p \in forwarded => p \in Excepted
      BY <1>e DEF Single
    <2>2. \A x \in ToSet(q) \union written[c] :
            x \in packed /\ x.csid = c /\ x.ts <= Unix(clock) + MaxEpochDiff
      BY <1>2, <1>a, <1>b, <1>f DEF OwnPackets
    <2>3. \A x \in ToSet(q) : x \in forwarded => x \in Excepted
      BY <1>b, <1>f, <2>1 DEF OwnPackets
    <2> QED  BY <1>1, <1>5, <1>b, <1>f, <2>2, <2>3 DEF OwnPackets
  <1>13. QueueDistinct(c)'
    BY <1>5, <1>b, <1>e, <1>f DEF QueueDistinct
  <1>14. RemembersLive(c)'
    <2>1. Live(c)' \subseteq Live(c) \union {p}
      BY <1>1, <1>5, <1>8, <1>f DEF Live
    <2>2. acc \union {p.cpid} \in SUBSET (0 .. MaxCpid)
      BY <1>2
    <2>3. \A x \in Live(c)' : x.cpid \in acc \union {p.cpid}
      BY <1>c, <2>1
    <2>4. Represents(filters'[c], acc \union {p.cpid}, 0 .. MaxCpid)
      BY <1>5, <1>d
    <2> QED  BY <2>2, <2>3, <2>4 DEF RemembersLive
  <1>15. \A x \in Single' : x.csid = c => Guarded(x)'
    BY <1>1, <1>8 DEF Guarded, ServerIInv
  <1> QED  BY <1>1, <1>2, <1>6, <1>7, <1>12, <1>13, <1>14, <1>15, OneSession DEF ServerIInv

(* The session's sockets are set up and its deadline armed. *)
LEMMA SetUpKeeps ==
  ASSUME ServerIInv, NEW c \in ClientSessions, SetUp(c)
  PROVE  ServerIInv'
  <1>1. /\ session[c] = "setup" /\ session' = [session EXCEPT ![c] = "open"]
        /\ deadline' = [deadline EXCEPT ![c] = clock + NatTimeout]
        /\ UNCHANGED <<clock, cpid, packed, filters, queue, written, drain, forwarded,
                       forwardedAgain, raced, fromAhead>>
        /\ Excepted' = Excepted
    BY DEF Excepted, SetUp
  <1>2. clock \in Nat /\ clock + NatTimeout \in Nat
    BY ServerNumbers DEF ServerIInv, ServerTypes
  <1>3. ServerTypes'
    BY <1>1, <1>2 DEF ServerIInv, ServerTypes
  <1>4. session'[c] = "open" /\ deadline'[c] = clock + NatTimeout
    BY <1>1 DEF ServerIInv, ServerTypes
  <1>5. \A d \in ClientSessions : d # c => SessionSame(d)
    BY <1>1 DEF SessionSame, ServerIInv, ServerTypes
  <1>6. OwnPackets(c) /\ QueueDistinct(c) /\ RemembersLive(c)
    BY DEF ServerIInv
  <1>7. OwnPackets(c)'
    <2>1. deadline'[c] <= clock' + NatTimeout
      BY <1>1, <1>2, <1>4
    <2> QED  BY <1>1, <1>4, <1>6, <2>1 DEF OwnPackets
  <1>8. QueueDistinct(c)' /\ RemembersLive(c)'
    BY <1>1, <1>6 DEF QueueDistinct, RemembersLive, Live, Single
  <1>9. \A p \in Single' : p.csid = c => Guarded(p)'
    BY <1>1 DEF Single, Guarded, ServerIInv
  <1> QED  BY <1>1, <1>3, <1>5, <1>7, <1>8, <1>9, OneSession DEF ServerIInv

(* The session is given up before anything was forwarded. *)
LEMMA SetUpFailsKeeps ==
  ASSUME ServerIInv, NEW c \in ClientSessions, SetUpFails(c)
  PROVE  ServerIInv'
  <1>1. /\ session[c] = "setup" /\ session' = [session EXCEPT ![c] = "none"]
        /\ queue' = [queue EXCEPT ![c] = <<>>]
        /\ UNCHANGED <<clock, cpid, packed, filters, written, deadline, drain, forwarded,
                       forwardedAgain, raced, fromAhead>>
        /\ Excepted' = Excepted
    BY DEF Excepted, SetUpFails
  <1>2. ServerTypes'
    BY <1>1 DEF ServerIInv, ServerTypes
  <1>3. session'[c] = "none" /\ queue'[c] = <<>>
    BY <1>1 DEF ServerIInv, ServerTypes
  <1>4. ToSet(queue[c])' = {} /\ IsInjective(queue[c])' /\ Len(queue'[c]) = 0
    BY <1>3 DEF ToSet, IsInjective
  <1>5. \A d \in ClientSessions : d # c => SessionSame(d)
    BY <1>1 DEF SessionSame, ServerIInv, ServerTypes
  <1>6. OwnPackets(c)
    BY DEF ServerIInv
  <1>7. OwnPackets(c)'
    <2>1. written[c] = {} /\ 0 <= SendChannelCapacity
      BY <1>1, <1>6, ServerNumbers DEF OwnPackets
    <2> QED  BY <1>1, <1>3, <1>4, <1>6, <2>1 DEF OwnPackets
  <1>8. QueueDistinct(c)' /\ RemembersLive(c)'
    BY <1>3, <1>4 DEF QueueDistinct, RemembersLive
  <1>9. \A p \in Single' : p.csid = c => Guarded(p)'
    BY <1>1 DEF Single, Guarded, ServerIInv
  <1> QED  BY <1>1, <1>2, <1>5, <1>7, <1>8, <1>9, OneSession DEF ServerIInv

(* A packet that is written twice was raced with: it was in the queue. *)
LEMMA UplinkWriteKeeps ==
  ASSUME ServerIInv, NEW c \in ClientSessions, UplinkWrite(c)
  PROVE  ServerIInv'
  <1> DEFINE h == Head(queue[c])
             t == Tail(queue[c])
  <1>1. /\ session[c] = "open" /\ queue[c] # <<>> /\ written[c] = {}
        /\ queue' = [queue EXCEPT ![c] = t]
        /\ \/ /\ forwarded' = forwarded \union {h}
              /\ forwardedAgain' = forwardedAgain \union ({h} \intersect forwarded)
              /\ written' = [written EXCEPT ![c] = {h}]
           \/ UNCHANGED <<forwarded, forwardedAgain, written>>
        /\ UNCHANGED <<clock, cpid, packed, session, filters, deadline, drain, raced, fromAhead>>
        /\ Excepted' = Excepted
    BY DEF Excepted, UplinkWrite, Write
  <1>2. OwnPackets(c) /\ QueueDistinct(c) /\ RemembersLive(c) /\ queue[c] \in Seq(ClientPackets)
    BY DEF ServerIInv, ServerTypes
  <1>3. /\ t \in Seq(ClientPackets) /\ Len(t) <= SendChannelCapacity
        /\ h \in ToSet(queue[c]) /\ ToSet(t) \subseteq ToSet(queue[c])
        /\ IsInjective(t) /\ h \notin ToSet(t)
    <2>1. /\ t \in Seq(ClientPackets) /\ Len(t) = Len(queue[c]) - 1 /\ Len(queue[c]) \in Nat
          /\ h \in ToSet(queue[c]) /\ ToSet(t) \subseteq ToSet(queue[c])
          /\ IsInjective(t) /\ h \notin ToSet(t)
      BY <1>1, <1>2, QueueTail DEF QueueDistinct
    <2>2. Len(queue[c]) <= SendChannelCapacity /\ SendChannelCapacity \in Nat
      BY <1>2, ServerNumbers DEF OwnPackets
    <2> HIDE DEF h, t
    <2> QED  BY <2>1, <2>2
  <1> HIDE DEF h, t
  <1>4. h \in packed /\ h.csid = c /\ (h \in forwarded => h \in Excepted)
    BY <1>2, <1>3 DEF OwnPackets
  <1>5. /\ queue'[c] = t /\ written'[c] \subseteq {h} /\ session'[c] = "open"
        /\ forwarded' \subseteq forwarded \union {h}
        /\ h \in forwarded' => h \in written'[c] \/ h \in forwarded
    BY <1>1 DEF ServerIInv, ServerTypes
  <1>6. ServerTypes'
    <2>1. queue' \in [ClientSessions -> Seq(ClientPackets)]
      BY <1>1, <1>3 DEF ServerIInv, ServerTypes
    <2>2. written' \in [ClientSessions -> SUBSET packed]
      BY <1>1, <1>4, ZenonT(40) DEF ServerIInv, ServerTypes
    <2>3. forwardedAgain' \subseteq forwarded' /\ forwarded' \subseteq packed
      BY <1>1, <1>4 DEF ServerIInv, ServerTypes
    <2> QED  BY <1>1, <2>1, <2>2, <2>3 DEF ServerIInv, ServerTypes
  <1>7. \A d \in ClientSessions : d # c => SessionSame(d)
    BY <1>1 DEF SessionSame, ServerIInv, ServerTypes
  <1>8. OwnPackets(c)'
    <2>1. \A x \in ToSet(t) \union written'[c] :
            x \in packed /\ x.csid = c /\ x.ts <= Unix(clock) + MaxEpochDiff
      BY <1>2, <1>3, <1>5 DEF OwnPackets
    <2>2. \A x \in ToSet(t) : x \in forwarded' => x \in Excepted
      BY <1>2, <1>3, <1>5 DEF OwnPackets
    <2> QED  BY <1>1, <1>2, <1>3, <1>5, <2>1, <2>2 DEF OwnPackets
  <1>9. QueueDistinct(c)'
    BY <1>3, <1>5 DEF QueueDistinct
  <1>10. RemembersLive(c)'
    <2>1. Live(c)' \subseteq Live(c)
      BY <1>1, <1>3, <1>5 DEF Live, Single
    <2> QED  BY <1>1, <1>2, <2>1 DEF RemembersLive
  <1>11. ASSUME NEW x \in Single', x.csid = c PROVE Guarded(x)'
    <2>1. CASE x \in Single
      BY <1>1, <1>5, <1>11, <2>1 DEF Guarded, ServerIInv
    <2>2. CASE x \notin Single
      <3>1. x = h /\ x \in written'[c]
        BY <1>1, <1>5, <1>11, <2>2 DEF Single
      <3> QED  BY <1>5, <1>11, <3>1 DEF Guarded
    <2> QED  BY <2>1, <2>2
  <1>12. forwardedAgain' \subseteq Excepted'
    BY <1>1, <1>4 DEF ServerIInv
  <1>13. \A x \in forwarded' : x \in forwarded \/ x.csid = c \/ x \in Excepted'
    BY <1>4, <1>5
  <1> QED  BY <1>1, <1>6, <1>7, <1>8, <1>9, <1>10, <1>11, <1>12, <1>13, OneSession

(* The deadline is moved after a batch was written. *)
LEMMA UplinkDeadlineKeeps ==
  ASSUME ServerIInv, NEW c \in ClientSessions, UplinkDeadline(c)
  PROVE  ServerIInv'
  <1>1. /\ session[c] = "open" /\ written' = [written EXCEPT ![c] = {}]
        /\ deadline' = [deadline EXCEPT ![c] = clock + NatTimeout]
        /\ UNCHANGED <<clock, cpid, packed, session, filters, queue, drain, forwarded,
                       forwardedAgain, raced>>
        /\ fromAhead' = fromAhead \union {p \in written[c] : p.ts - Unix(clock) >= MaxEpochDiff}
    BY DEF UplinkDeadline
  <1>e. /\ Excepted \subseteq Excepted'
        /\ \A p \in written[c] \ Excepted' :
             NatTimeout >= (2 * MaxEpochDiff + 1) * Second \/ ~ p.ts - Unix(clock) >= MaxEpochDiff
    BY <1>1 DEF Excepted
  <1>2. clock \in Nat /\ clock + NatTimeout \in Nat /\ deadline[c] \in Nat
    BY ServerNumbers DEF ServerIInv, ServerTypes
  <1>3. ServerTypes'
    BY <1>1, <1>2 DEF ServerIInv, ServerTypes
  <1>4. written'[c] = {} /\ deadline'[c] = clock + NatTimeout
    BY <1>1 DEF ServerIInv, ServerTypes
  <1>5. \A d \in ClientSessions : d # c => SessionSame(d)
    BY <1>1 DEF SessionSame, ServerIInv, ServerTypes
  <1>6. OwnPackets(c) /\ QueueDistinct(c) /\ RemembersLive(c)
    BY DEF ServerIInv
  <1>7. OwnPackets(c)'
    <2>1. deadline'[c] <= clock' + NatTimeout
      BY <1>1, <1>2, <1>4
    <2> QED  BY <1>1, <1>4, <1>6, <1>e, <2>1 DEF OwnPackets
  <1>8. QueueDistinct(c)' /\ RemembersLive(c)'
    <2>1. Live(c)' \subseteq Live(c)
      BY <1>1, <1>4, <1>e DEF Live, Single
    <2> QED  BY <1>1, <1>4, <1>6, <2>1 DEF QueueDistinct, RemembersLive
  <1>9. ASSUME NEW p \in Single', p.csid = c PROVE Guarded(p)'
    <2>1. p \in Single /\ Guarded(p) /\ p \in ClientPackets /\ p \notin Excepted'
      BY <1>1, <1>e DEF Single, ServerIInv, ServerTypes
    <2>2. CASE OutOfDate(p, clock)
      BY <1>1, <2>2 DEF Guarded
    <2>3. CASE p \in written[c]
      <3>0. /\ p.ts <= Unix(clock) + MaxEpochDiff /\ p.ts \in Int /\ clock \in Int
            /\ Unix(clock) \in Int /\ MaxEpochDiff \in Int
        <4>1. clock \in Int /\ MaxEpochDiff \in Int
          BY <1>2, ServerNumbers
        <4>2. Unix(clock) \in Int
          BY <4>1, UnixMonotonic
        <4> QED  BY <1>6, <2>1, <2>3, <4>1, <4>2 DEF OwnPackets, ClientPackets
      <3>2. NatTimeout >= (2 * MaxEpochDiff + 1) * Second \/ p.ts - Unix(clock) < MaxEpochDiff
        BY <1>e, <2>1, <2>3, <3>0
      <3>1. OutOfDate(p, clock + NatTimeout)
        BY <2>1, <3>0, <3>2, TimeoutCovers
      <3> QED  BY <1>1, <1>4, <1>9, <3>1 DEF Guarded
    <2>4. CASE OutOfDate(p, deadline[c])
      <3>1. deadline[c] <= clock + NatTimeout
        BY <1>1, <1>6 DEF OwnPackets
      <3>2. OutOfDate(p, clock + NatTimeout)
        BY <1>2, <2>1, <2>4, <3>1, StaysOutOfDate
      <3> QED  BY <1>1, <1>4, <1>9, <3>2 DEF Guarded
    <2> QED  BY <1>9, <2>1, <2>2, <2>3, <2>4 DEF Guarded
  <1>10. forwardedAgain' \subseteq Excepted'
    BY <1>1, <1>e DEF ServerIInv
  <1> QED  BY <1>1, <1>3, <1>5, <1>7, <1>8, <1>9, <1>10, <1>e, OneSession

(* What an evicted session had set its deadline for is out of date by now. *)
LEMMA EvictKeeps ==
  ASSUME ServerIInv, NEW c \in ClientSessions, Evict(c)
  PROVE  ServerIInv'
  <1>1. /\ session[c] = "open" /\ clock >= deadline[c]
        /\ session' = [session EXCEPT ![c] = "none"]
        /\ queue' = [queue EXCEPT ![c] = <<>>] /\ written' = [written EXCEPT ![c] = {}]
        /\ drain' = [drain EXCEPT ![c] = drain[c] \o queue[c]]
        /\ raced' = raced \union written[c] \union ToSet(queue[c])
        /\ UNCHANGED <<clock, cpid, packed, filters, deadline, forwarded, forwardedAgain, fromAhead>>
    BY DEF Evict
  <1>e. Excepted' = Excepted \union written[c] \union ToSet(queue[c])
    BY <1>1 DEF Excepted
  <1>2. clock \in Nat /\ deadline[c] \in Nat
    BY ServerNumbers DEF ServerIInv, ServerTypes
  <1>3. /\ drain[c] \o queue[c] \in Seq(ClientPackets)
        /\ ToSet(drain[c] \o queue[c]) = ToSet(drain[c]) \union ToSet(queue[c])
    <2>1. drain[c] \in Seq(ClientPackets) /\ queue[c] \in Seq(ClientPackets)
      BY DEF ServerIInv, ServerTypes
    <2> QED  BY <2>1, QueueConcat
  <1>4. ServerTypes'
    <2>1. drain' \in [ClientSessions -> Seq(ClientPackets)]
      BY <1>1, <1>3 DEF ServerIInv, ServerTypes
    <2>2. queue' \in [ClientSessions -> Seq(ClientPackets)]
      BY <1>1 DEF ServerIInv, ServerTypes
    <2> QED  BY <1>1, <2>1, <2>2 DEF ServerIInv, ServerTypes
  <1>5. /\ session'[c] = "none" /\ queue'[c] = <<>> /\ written'[c] = {}
        /\ drain'[c] = drain[c] \o queue[c]
    BY <1>1 DEF ServerIInv, ServerTypes
  <1>6. ToSet(queue[c])' = {} /\ IsInjective(queue[c])' /\ Len(queue'[c]) = 0
    BY <1>5 DEF ToSet, IsInjective
  <1>7. \A d \in ClientSessions : d # c => SessionSame(d)
    BY <1>1 DEF SessionSame, ServerIInv, ServerTypes
  <1>8. OwnPackets(c)'
    <2>1. 0 <= SendChannelCapacity
      BY ServerNumbers
    <2>2. OwnPackets(c)
      BY DEF ServerIInv
    <2>3. ToSet(drain'[c]) \subseteq packed \intersect raced'
      BY <1>1, <1>3, <1>5, <2>2 DEF OwnPackets
    <2> QED  BY <1>1, <1>5, <1>6, <2>1, <2>3 DEF OwnPackets
  <1>9. QueueDistinct(c)' /\ RemembersLive(c)'
    BY <1>5, <1>6 DEF QueueDistinct, RemembersLive
  <1>10. ASSUME NEW p \in Single', p.csid = c PROVE Guarded(p)'
    <2>1. p \in Single /\ Guarded(p) /\ p \in ClientPackets /\ p \notin written[c]
      BY <1>1, <1>e DEF Single, ServerIInv, ServerTypes
    <2>2. OutOfDate(p, deadline[c]) => OutOfDate(p, clock)
      BY <1>1, <1>2, <2>1, StaysOutOfDate
    <2> QED  BY <1>1, <1>10, <2>1, <2>2 DEF Guarded
  <1>11. forwardedAgain' \subseteq Excepted'
    BY <1>1, <1>e DEF ServerIInv
  <1> QED  BY <1>1, <1>4, <1>7, <1>8, <1>9, <1>10, <1>11, <1>e, OneSession

(* A packet left in the channel is written after the session ended. *)
LEMMA DrainWriteKeeps ==
  ASSUME ServerIInv, NEW c \in ClientSessions, DrainWrite(c)
  PROVE  ServerIInv'
  <1> DEFINE h == Head(drain[c])
             t == Tail(drain[c])
  <1>1. /\ drain[c] # <<>> /\ drain' = [drain EXCEPT ![c] = t]
        /\ forwarded' = forwarded \union {h}
        /\ forwardedAgain' = forwardedAgain \union ({h} \intersect forwarded)
        /\ UNCHANGED <<clock, cpid, packed, session, filters, queue, written, deadline, raced, fromAhead>>
        /\ Excepted' = Excepted
    BY DEF Excepted, DrainWrite, Write, sessionVars
  <1>2. OwnPackets(c) /\ QueueDistinct(c) /\ RemembersLive(c) /\ drain[c] \in Seq(ClientPackets)
    BY DEF ServerIInv, ServerTypes
  <1>3. /\ t \in Seq(ClientPackets) /\ h \in ToSet(drain[c]) /\ ToSet(t) \subseteq ToSet(drain[c])
    BY <1>1, <1>2, QueueTail
  <1> HIDE DEF h, t
  <1>4. h \in packed /\ h \in Excepted
    BY <1>2, <1>3 DEF OwnPackets, Excepted
  <1>5. drain'[c] = t
    BY <1>1 DEF ServerIInv, ServerTypes
  <1>6. ServerTypes'
    <2>1. drain' \in [ClientSessions -> Seq(ClientPackets)]
      BY <1>1, <1>3 DEF ServerIInv, ServerTypes
    <2>2. forwardedAgain' \subseteq forwarded' /\ forwarded' \subseteq packed
      BY <1>1, <1>4 DEF ServerIInv, ServerTypes
    <2> QED  BY <1>1, <2>1, <2>2 DEF ServerIInv, ServerTypes
  <1>7. \A d \in ClientSessions : d # c => SessionSame(d)
    BY <1>1 DEF SessionSame, ServerIInv, ServerTypes
  <1>8. Single' = Single
    BY <1>1, <1>4 DEF Single
  <1>9. OwnPackets(c)'
    BY <1>1, <1>2, <1>3, <1>4, <1>5 DEF OwnPackets
  <1>10. QueueDistinct(c)' /\ RemembersLive(c)'
    BY <1>1, <1>2, <1>8 DEF QueueDistinct, RemembersLive, Live
  <1>11. \A x \in Single' : x.csid = c => Guarded(x)'
    BY <1>1, <1>8 DEF Guarded, ServerIInv
  <1>12. forwardedAgain' \subseteq Excepted'
    BY <1>1, <1>4 DEF ServerIInv
  <1>13. \A x \in forwarded' : x \in forwarded \/ x.csid = c \/ x \in Excepted'
    BY <1>1, <1>4
  <1> QED  BY <1>1, <1>6, <1>7, <1>9, <1>10, <1>11, <1>12, <1>13, OneSession

(* The server's invariant holds in every state. *)
THEOREM ServerInvariance == ServerSpec => []ServerIInv
  <1>1. ServerInit => ServerIInv
    BY ServerStarts
  <1>2. ServerIInv /\ [ServerNext]_serverVars => ServerIInv'
    <2> SUFFICES ASSUME ServerIInv, [ServerNext]_serverVars PROVE ServerIInv'
      OBVIOUS
    <2>1. CASE ServerNext
      BY <2>1, ServerTickKeeps, ServerPackKeeps, SetUpKeeps, SetUpFailsKeeps, UplinkWriteKeeps,
         UplinkDeadlineKeeps, EvictKeeps, DrainWriteKeeps, ReceiveNewKeeps, ReceiveExistingKeeps
         DEF ServerNext
    <2>2. CASE UNCHANGED serverVars
      <3>1. /\ UNCHANGED <<clock, cpid, packed, session, filters, queue, written, deadline, drain,
                           forwarded, forwardedAgain, raced, fromAhead>>
            /\ Excepted' = Excepted
        BY <2>2 DEF Excepted, serverVars, sessionVars
      <3> QED  BY <3>1, ZenonT(40) DEF ServerIInv, ServerTypes, OwnPackets, QueueDistinct, RemembersLive,
                           Live, Single, Guarded
    <2> QED  BY <2>1, <2>2
  <1> QED  BY <1>1, <1>2, PTL DEF ServerSpec

(* However often the network repeats it and though the replay filter is    *)
(* dropped with its session, the server forwards a client's packet at most *)
(* once, unless the session was evicted with the packet accepted and the   *)
(* deadline not yet set for it.  With the least NAT timeout a service      *)
(* accepts, packets from as far ahead of the clock as is accepted are      *)
(* excepted too: theirs are in range for a second longer than it.          *)
THEOREM ServerForwardsOnce == ServerSpec => []ForwardedOnce
  <1>1. ServerIInv => ForwardedOnce
    <2> SUFFICES ASSUME ServerIInv PROVE ForwardedOnce
      OBVIOUS
    <2>1. ServerTypeOK
      BY DEF ServerIInv, ServerTypes, OwnPackets, ServerTypeOK
    <2>2. QueuedOnce
      BY DEF ServerIInv, QueueDistinct, QueuedOnce
    <2>3. RepeatsOnlyExcepted
      BY DEF ServerIInv, RepeatsOnlyExcepted
    <2> QED  BY <2>1, <2>2, <2>3 DEF ForwardedOnce
  <1> QED  BY <1>1, ServerInvariance, PTL

-----------------------------------------------------------------------------
(* The salt pool.  It keeps every salt for the promised time, for any      *)
(* number of handlers and salts.  A request whose timestamp is compared in *)
(* whole seconds may be in range for 2 * MaxEpochDiff + 1 seconds, one     *)
(* more than the retention: but only if its timestamp was MaxEpochDiff     *)
(* ahead when it was checked first.  Only such a request can be accepted   *)
(* again.                                                                  *)

(* A handler at work has validated its request, and is in time. *)
HandlersInTime ==
  \A h \in Handlers : pc[h] # "idle" =>
    /\ salt[h] \in requests
    /\ start[h] <= time
    /\ time <= start[h] + HandlerTicks
    /\ ValidTimestamp(requestTime[salt[h]], start[h])
    /\ pc[h] = "stamped" => start[h] <= stamp[h] /\ stamp[h] <= time

(* An accepted request's timestamp was in range when its salt was added. *)
AddedInTime ==
  \A s \in acceptedSalts :
    /\ s \in requests
    /\ added[s] <= time
    /\ firstCheck[s] <= added[s]

PoolIInv ==
  /\ PoolTypeOK
  /\ HandlersInTime
  /\ AddedInTime
  /\ ForgottenOnlyAfterRetention

(* Unix seconds of a natural number of ticks. *)
LEMMA UnixBounds ==
  ASSUME NEW t \in Nat
  PROVE  Unix(t) \in Nat /\ Second * Unix(t) <= t /\ t < Second * Unix(t) + Second
         /\ Second * Unix(t) \in Nat
  <1>1. Second \in Nat \ {0}
    BY PoolAssumption, TimeAssumption
  <1>2. t \div Second \in Nat /\ t % Second \in 0 .. Second - 1
        /\ t = Second * (t \div Second) + (t % Second)
        /\ Second * (t \div Second) \in Nat
    BY <1>1, Z3
  <1> QED  BY <1>1, <1>2 DEF Unix

(* Unix seconds do not run backwards. *)
LEMMA SecondsMonotonic ==
  ASSUME NEW s \in Nat, NEW t \in Nat, s <= t
  PROVE  Unix(s) <= Unix(t)
  <1>1. Unix(s) \in Nat /\ Unix(t) \in Nat /\ Second \in Nat \ {0}
    BY UnixBounds, PoolAssumption, TimeAssumption
  <1>2. Second * Unix(s) < Second * Unix(t) + Second
    <2>1. Second * Unix(s) <= s /\ Second * Unix(s) \in Nat
      BY UnixBounds
    <2>2. t < Second * Unix(t) + Second /\ Second * Unix(t) \in Nat
      BY UnixBounds
    <2> QED  BY <1>1, <2>1, <2>2
  <1>3. Unix(s) < Unix(t) + 1
    BY <1>1, <1>2, Z3
  <1> QED  BY <1>1, <1>3

(* The inductive invariant holds at the start. *)
LEMMA PoolStarts == PoolInit => PoolIInv
  BY PoolAssumption, TimeAssumption
     DEF PoolInit, PoolIInv, PoolTypeOK, HandlersInTime, AddedInTime, ForgottenOnlyAfterRetention

(* Time passes only as long as no handler is due. *)
LEMMA PoolTickInvariant ==
  ASSUME PoolIInv, PoolTick
  PROVE  PoolIInv'
  <1> USE DEF PoolTick, pending, poolVars
  <1>0. /\ time \in Nat /\ time' = time + 1 /\ time' \in 0 .. MaxTime
        /\ HandlerTicks \in Nat /\ Retention \in Nat
    BY PoolAssumption, TimeAssumption DEF PoolIInv, PoolTypeOK
  <1>1. PoolTypeOK'
    BY <1>0 DEF PoolIInv, PoolTypeOK
  <1>2. HandlersInTime'
    <2> SUFFICES ASSUME NEW h \in Handlers, pc[h] # "idle"
                 PROVE  /\ salt[h] \in requests
                        /\ start[h] <= time'
                        /\ time' <= start[h] + HandlerTicks
                        /\ ValidTimestamp(requestTime[salt[h]], start[h])
                        /\ pc[h] = "stamped" => start[h] <= stamp[h] /\ stamp[h] <= time'
      BY DEF HandlersInTime, ValidTimestamp
    <2>1. start[h] \in Nat /\ stamp[h] \in Nat
      BY PoolAssumption, TimeAssumption DEF PoolIInv, PoolTypeOK
    <2> QED  BY <1>0, <2>1 DEF PoolIInv, HandlersInTime
  <1>3. \A s \in acceptedSalts : added[s] \in Nat
    BY PoolAssumption, TimeAssumption DEF PoolIInv, PoolTypeOK
  <1>4. AddedInTime'
    BY <1>0, <1>3 DEF PoolIInv, AddedInTime
  <1>5. ForgottenOnlyAfterRetention'
    BY <1>0, <1>3 DEF PoolIInv, ForgottenOnlyAfterRetention
  <1> QED  BY <1>1, <1>2, <1>4, <1>5 DEF PoolIInv

(* Sending a request disturbs no request that was sent before. *)
LEMMA SendInvariant ==
  ASSUME PoolIInv, NEW s \in Salts, Send(s)
  PROVE  PoolIInv'
  <1> USE DEF Send, pending, poolVars
  <1>1. PICK skew \in Skews : requestTime' = [requestTime EXCEPT ![s] = Unix(time) + skew]
    OBVIOUS
  <1>2. Unix(time) + skew \in Int
    BY UnixBounds, PoolAssumption, TimeAssumption DEF PoolIInv, PoolTypeOK
  <1>3. PoolTypeOK'
    BY <1>1, <1>2 DEF PoolIInv, PoolTypeOK
  <1>4. \A x \in requests : requestTime'[x] = requestTime[x]
    BY <1>1 DEF PoolIInv, PoolTypeOK
  <1>5. HandlersInTime'
    BY <1>4 DEF PoolIInv, HandlersInTime, ValidTimestamp
  <1>6. AddedInTime'
    BY <1>4 DEF PoolIInv, AddedInTime
  <1>7. ForgottenOnlyAfterRetention'
    BY DEF PoolIInv, ForgottenOnlyAfterRetention
  <1> QED  BY <1>3, <1>5, <1>6, <1>7 DEF PoolIInv

(* A handler starts with a request whose timestamp is in range now. *)
LEMMA ValidateInvariant ==
  ASSUME PoolIInv, NEW h \in Handlers, NEW s \in requests, Validate(h, s)
  PROVE  PoolIInv'
  <1> USE DEF Validate, poolVars
  <1>1. s \in Salts /\ time \in 0 .. MaxTime /\ time \in Nat /\ HandlerTicks \in Nat
    BY PoolAssumption, TimeAssumption DEF PoolIInv, PoolTypeOK
  <1>2. PoolTypeOK'
    BY <1>1 DEF PoolIInv, PoolTypeOK
  <1>3. /\ pc'[h] = "validated" /\ salt'[h] = s /\ start'[h] = time
        /\ \A g \in Handlers \ {h} :
             pc'[g] = pc[g] /\ salt'[g] = salt[g] /\ start'[g] = start[g]
    BY DEF PoolIInv, PoolTypeOK
  <1>4. HandlersInTime'
    <2> SUFFICES ASSUME NEW g \in Handlers, pc'[g] # "idle"
                 PROVE  /\ salt'[g] \in requests
                        /\ start'[g] <= time
                        /\ time <= start'[g] + HandlerTicks
                        /\ ValidTimestamp(requestTime[salt'[g]], start'[g])
                        /\ pc'[g] = "stamped" => start'[g] <= stamp[g] /\ stamp[g] <= time
      BY DEF HandlersInTime, ValidTimestamp
    <2>1. CASE g = h
      BY <1>1, <1>3, <2>1
    <2>2. CASE g # h
      BY <1>3, <2>2 DEF PoolIInv, HandlersInTime
    <2> QED  BY <2>1, <2>2
  <1>5. AddedInTime' /\ ForgottenOnlyAfterRetention'
    BY DEF PoolIInv, AddedInTime, ForgottenOnlyAfterRetention
  <1> QED  BY <1>2, <1>4, <1>5 DEF PoolIInv

(* Add reads the clock after the request was validated. *)
LEMMA ReadClockInvariant ==
  ASSUME PoolIInv, NEW h \in Handlers, ReadClock(h)
  PROVE  PoolIInv'
  <1> USE DEF ReadClock, poolVars
  <1>1. time \in 0 .. MaxTime /\ time \in Nat
    BY PoolAssumption, TimeAssumption DEF PoolIInv, PoolTypeOK
  <1>2. PoolTypeOK'
    BY <1>1 DEF PoolIInv, PoolTypeOK
  <1>3. HandlersInTime'
    <2> SUFFICES ASSUME NEW g \in Handlers, pc'[g] # "idle"
                 PROVE  /\ salt[g] \in requests
                        /\ start[g] <= time
                        /\ time <= start[g] + HandlerTicks
                        /\ ValidTimestamp(requestTime[salt[g]], start[g])
                        /\ pc'[g] = "stamped" => start[g] <= stamp'[g] /\ stamp'[g] <= time
      BY DEF HandlersInTime, ValidTimestamp
    <2>1. pc[g] # "idle"
      BY DEF PoolIInv, PoolTypeOK
    <2>2. stamp'[g] = IF g = h THEN time ELSE stamp[g]
      BY DEF PoolIInv, PoolTypeOK
    <2>3. pc'[g] = IF g = h THEN "stamped" ELSE pc[g]
      BY DEF PoolIInv, PoolTypeOK
    <2> QED  BY <1>1, <2>1, <2>2, <2>3 DEF PoolIInv, HandlersInTime
  <1>4. AddedInTime' /\ ForgottenOnlyAfterRetention'
    BY DEF PoolIInv, AddedInTime, ForgottenOnlyAfterRetention
  <1> QED  BY <1>2, <1>3, <1>4 DEF PoolIInv

(* Only entries older than the retention are cleaned away. *)
LEMMA CleanedKeeps ==
  ASSUME PoolIInv, NEW h \in Handlers, pc[h] = "stamped",
         NEW s \in pool \ Cleaned(stamp[h])
  PROVE  time - added[s] > Retention
  <1>1. stamp[h] - added[s] > Retention
    BY DEF Cleaned, Expired
  <1>2. stamp[h] <= time
    BY DEF PoolIInv, HandlersInTime
  <1>3. time \in Nat /\ stamp[h] \in Nat /\ added[s] \in Nat /\ Retention \in Nat
    BY PoolAssumption, TimeAssumption DEF PoolIInv, PoolTypeOK
  <1> QED  BY <1>1, <1>2, <1>3

(* Add preserves the inductive invariant. *)
LEMMA AddInvariant ==
  ASSUME PoolIInv, NEW h \in Handlers, AddLocked(h)
  PROVE  PoolIInv'
  <1> USE DEF AddLocked
  <1> DEFINE s == salt[h]
             n == stamp[h]
  <1>0. /\ s \in Salts /\ s \in requests /\ n \in 0 .. MaxTime /\ n \in Nat
        /\ n <= time /\ time \in Nat /\ Retention \in Nat
        /\ start[h] \in Nat /\ start[h] <= n
        /\ pc[h] = "stamped" /\ ValidTimestamp(requestTime[s], start[h])
    BY PoolAssumption, TimeAssumption DEF PoolIInv, PoolTypeOK, HandlersInTime
  <1>1. Cleaned(n) \subseteq pool
    BY DEF Cleaned, Expired
  <1>2. PoolTypeOK'
    BY <1>0, <1>1 DEF PoolIInv, PoolTypeOK
  <1>3. HandlersInTime'
    <2> SUFFICES ASSUME NEW g \in Handlers, pc'[g] # "idle"
                 PROVE  /\ salt[g] \in requests
                        /\ start[g] <= time
                        /\ time <= start[g] + HandlerTicks
                        /\ ValidTimestamp(requestTime[salt[g]], start[g])
                        /\ pc'[g] = "stamped" => start[g] <= stamp[g] /\ stamp[g] <= time
      BY DEF HandlersInTime, ValidTimestamp
    <2>1. pc'[g] = pc[g]
      BY DEF PoolIInv, PoolTypeOK
    <2> QED  BY <2>1 DEF PoolIInv, HandlersInTime
  <1>4. \A x \in pool \ Cleaned(n) : time - added[x] > Retention
    BY <1>0, CleanedKeeps
  <1>5. CASE Found(h)
    <2>1. pool' = Cleaned(n) /\ UNCHANGED <<added, acceptedSalts, firstCheck, time, requests, requestTime>>
      BY <1>5
    <2>2. AddedInTime'
      BY <2>1 DEF PoolIInv, AddedInTime
    <2>3. ForgottenOnlyAfterRetention'
      BY <1>4, <2>1 DEF PoolIInv, ForgottenOnlyAfterRetention
    <2> QED  BY <1>2, <1>3, <2>2, <2>3 DEF PoolIInv
  <1>6. CASE ~ Found(h)
    <2>1. /\ pool' = Cleaned(n) \union {s} /\ acceptedSalts' = acceptedSalts \union {s}
          /\ added'[s] = n /\ \A x \in Salts \ {s} : added'[x] = added[x] /\ firstCheck'[x] = firstCheck[x]
          /\ firstCheck'[s] = IF s \in acceptedSalts THEN firstCheck[s] ELSE start[h]
          /\ UNCHANGED <<time, requests, requestTime>>
      BY <1>0, <1>6 DEF PoolIInv, PoolTypeOK
    <2>2. firstCheck'[s] <= n
      <3>1. CASE s \notin acceptedSalts
        BY <1>0, <2>1, <3>1
      <3>2. CASE s \in acceptedSalts
        <4>1. time - added[s] > Retention
          BY <1>0, <1>4, <1>6, <3>2 DEF Found, PoolIInv, ForgottenOnlyAfterRetention
        <4>2. /\ added[s] \in Nat /\ firstCheck[s] \in Nat /\ firstCheck[s] <= added[s]
              /\ HandlerTicks \in Nat /\ HandlerTicks <= Retention /\ time <= start[h] + HandlerTicks
          BY <1>0, <3>2, PoolAssumption, TimeAssumption
             DEF PoolIInv, PoolTypeOK, AddedInTime, HandlersInTime
        <4> HIDE DEF n, s
        <4> QED  BY <1>0, <2>1, <3>2, <4>1, <4>2
      <3> QED  BY <3>1, <3>2
    <2>3. acceptedSalts \subseteq Salts
      BY DEF PoolIInv, PoolTypeOK
    <2>4. AddedInTime'
      BY <1>0, <2>1, <2>2, <2>3 DEF PoolIInv, AddedInTime
    <2>5. ForgottenOnlyAfterRetention'
      <3>1. \A x \in acceptedSalts' \ pool' :
               x # s /\ x \in acceptedSalts /\ (x \in acceptedSalts \ pool \/ x \in pool \ Cleaned(n))
        BY <2>1
      <3> QED  BY <1>4, <2>1, <2>3, <3>1 DEF PoolIInv, ForgottenOnlyAfterRetention
    <2> QED  BY <1>2, <1>3, <2>4, <2>5 DEF PoolIInv
  <1> QED  BY <1>5, <1>6

(* The inductive invariant is preserved by every step. *)
LEMMA NextInvariant ==
  ASSUME PoolIInv, [PoolNext]_saltVars
  PROVE  PoolIInv'
  <1>1. CASE UNCHANGED saltVars
    BY <1>1 DEF saltVars, pending, poolVars, PoolIInv, PoolTypeOK, HandlersInTime, ValidTimestamp,
                AddedInTime, ForgottenOnlyAfterRetention
  <1>2. CASE PoolTick
    BY <1>2, PoolTickInvariant
  <1>3. ASSUME NEW s \in Salts, Send(s) PROVE PoolIInv'
    BY <1>3, SendInvariant
  <1>4. ASSUME NEW h \in Handlers, NEW s \in requests, Validate(h, s) PROVE PoolIInv'
    BY <1>4, ValidateInvariant
  <1>5. ASSUME NEW h \in Handlers, ReadClock(h) PROVE PoolIInv'
    BY <1>5, ReadClockInvariant
  <1>6. ASSUME NEW h \in Handlers, AddLocked(h) PROVE PoolIInv'
    BY <1>6, AddInvariant
  <1> QED  BY <1>1, <1>2, <1>3, <1>4, <1>5, <1>6 DEF PoolNext

(* The inductive invariant holds in every reachable state. *)
THEOREM PoolInvariance == PoolSpec => []PoolIInv
  <1>1. PoolIInv /\ [PoolNext]_saltVars => PoolIInv'
    BY NextInvariant
  <1> QED  BY <1>1, PoolStarts, PTL DEF PoolSpec

(* The times kept are read from the clock, which does not run backwards. *)
LEMMA TimesStayPast ==
  ASSUME PoolIInv, TimesPast, [PoolNext]_saltVars
  PROVE  TimesPast'
  <1>0. /\ time \in Nat /\ lastCleanup \in Nat
        /\ \A s \in Salts : added[s] \in Nat /\ firstCheck[s] \in Nat
        /\ \A h \in Handlers : start[h] \in Nat /\ stamp[h] \in Nat
    BY PoolAssumption, TimeAssumption DEF PoolIInv, PoolTypeOK
  <1>1. CASE UNCHANGED saltVars
    BY <1>1 DEF saltVars, pending, poolVars, TimesPast
  <1>2. CASE PoolTick
    BY <1>0, <1>2 DEF PoolTick, pending, poolVars, TimesPast
  <1>3. ASSUME NEW s \in Salts, Send(s) PROVE TimesPast'
    BY <1>3 DEF Send, pending, poolVars, TimesPast
  <1>4. ASSUME NEW h \in Handlers, NEW s \in requests, Validate(h, s) PROVE TimesPast'
    <2>1. \A g \in Handlers : start'[g] = time \/ start'[g] = start[g]
      BY <1>4 DEF Validate, PoolIInv, PoolTypeOK
    <2> QED  BY <1>0, <1>4, <2>1 DEF Validate, poolVars, TimesPast
  <1>5. ASSUME NEW h \in Handlers, ReadClock(h) PROVE TimesPast'
    <2>1. \A g \in Handlers : stamp'[g] = time \/ stamp'[g] = stamp[g]
      BY <1>5 DEF ReadClock, PoolIInv, PoolTypeOK
    <2> QED  BY <1>0, <1>5, <2>1 DEF ReadClock, poolVars, TimesPast
  <1>6. ASSUME NEW h \in Handlers, AddLocked(h) PROVE TimesPast'
    <2>1. stamp[h] <= time /\ start[h] <= time
      BY DEF TimesPast
    <2>2. \A x \in Salts : added'[x] = stamp[h] \/ added'[x] = added[x]
      BY <1>6 DEF AddLocked, PoolIInv, PoolTypeOK
    <2>3. \A x \in Salts : firstCheck'[x] = start[h] \/ firstCheck'[x] = firstCheck[x]
      BY <1>6 DEF AddLocked, PoolIInv, PoolTypeOK
    <2>4. lastCleanup' = stamp[h] \/ lastCleanup' = lastCleanup
      BY <1>6 DEF AddLocked
    <2>5. UNCHANGED <<time, start, stamp>>
      BY <1>6 DEF AddLocked
    <2> QED  BY <2>1, <2>2, <2>3, <2>4, <2>5 DEF TimesPast
  <1> QED  BY <1>1, <1>2, <1>3, <1>4, <1>5, <1>6 DEF PoolNext

(* The pool keeps its types: it holds accepted salts only, and no time it  *)
(* or a handler keeps is ahead of the clock.                               *)
THEOREM PoolTypeCorrect == PoolSpec => [](PoolTypeOK /\ TimesPast)
  <1>1. PoolInit => TimesPast
    BY DEF PoolInit, TimesPast
  <1>2. PoolIInv => PoolTypeOK
    BY DEF PoolIInv
  <1>3. PoolIInv /\ TimesPast /\ [PoolNext]_saltVars => TimesPast'
    BY TimesStayPast
  <1> QED  BY <1>1, <1>2, <1>3, PoolInvariance, PTL DEF PoolSpec

(* An accepted salt stays in the pool for the retention. *)
THEOREM RetentionKept == PoolSpec => []ForgottenOnlyAfterRetention
  <1>1. PoolIInv => ForgottenOnlyAfterRetention
    BY DEF PoolIInv
  <1> QED  BY <1>1, PoolInvariance, PTL

(* A handler whose request was accepted before and is no longer in the     *)
(* pool: more than the retention after the first check its timestamp was   *)
(* in range, so it was as far ahead then as is accepted.                   *)
LEMMA ForgottenWasAhead ==
  ASSUME PoolIInv, NEW h \in Handlers, pc[h] = "stamped",
         salt[h] \in acceptedSalts, ~ Found(h)
  PROVE  requestTime[salt[h]] - Unix(firstCheck[salt[h]] + 1 - HandlerTicks) >= MaxEpochDiff
  <1> DEFINE s == salt[h]
             v == start[h]
             f == firstCheck[s]
             D == 2 * MaxEpochDiff
             t == f + 1 - HandlerTicks
  <1>1. /\ s \in Salts /\ v \in Nat /\ added[s] \in Nat /\ f \in Nat /\ time \in Nat
        /\ requestTime[s] \in Int /\ MaxEpochDiff \in Nat /\ HandlerTicks \in Nat
        /\ Retention \in Nat /\ Retention = D * Second
    BY PoolAssumption, TimeAssumption DEF PoolIInv, PoolTypeOK
  <1>2. time - added[s] > Retention
    <2>1. CASE s \in pool
      BY <2>1, CleanedKeeps DEF Found
    <2>2. CASE s \notin pool
      BY <2>2 DEF PoolIInv, ForgottenOnlyAfterRetention
    <2> QED  BY <2>1, <2>2
  <1>3. /\ time <= v + HandlerTicks /\ f <= added[s]
        /\ ValidTimestamp(requestTime[s], v)
    BY DEF PoolIInv, HandlersInTime, AddedInTime
  <1>4. D \in Nat
    BY <1>1
  <1> HIDE DEF s, v, f, D
  <1>5. t \in Int /\ v - t \in Int /\ v - t >= D * Second /\ t + (v - t) = v
    BY <1>1, <1>2, <1>3
  <1> HIDE DEF t
  <1>6. Unix(t) \in Int /\ Unix(v) \in Int /\ Unix(v) >= Unix(t) + D
    <2>1. Unix(t) \in Int /\ Unix(t + (v - t)) \in Int /\ Unix(t + (v - t)) >= Unix(t) + D
      BY <1>4, <1>5, UnixLater
    <2> QED  BY <1>5, <2>1
  <1>7. requestTime[s] - Unix(v) >= - MaxEpochDiff
    BY <1>3 DEF ValidTimestamp
  <1>8. requestTime[s] - Unix(t) >= MaxEpochDiff
    BY <1>1, <1>6, <1>7 DEF D
  <1> QED  BY <1>8 DEF t, f, s

(* With the program's retention, only a request whose timestamp was as far *)
(* ahead of the server's clock as is accepted can be accepted a second     *)
(* time, whatever the network repeats and however handlers interleave.     *)
THEOREM RequestsAcceptedOnceUnlessAhead == PoolSpec => []RepeatedOnlyFromAhead
  <1>1. PoolInit => RepeatedOnlyFromAhead
    BY DEF PoolInit, RepeatedOnlyFromAhead
  <1>2. PoolIInv /\ RepeatedOnlyFromAhead /\ [PoolNext]_saltVars => RepeatedOnlyFromAhead'
    <2> SUFFICES ASSUME PoolIInv, RepeatedOnlyFromAhead, [PoolNext]_saltVars
                 PROVE  RepeatedOnlyFromAhead'
      OBVIOUS
    <2>0. /\ acceptedAgain \subseteq acceptedSalts /\ acceptedSalts \subseteq requests
          /\ requests \subseteq Salts
      BY DEF PoolIInv, PoolTypeOK, AddedInTime
    <2>1. ASSUME NEW h \in Handlers, AddLocked(h) PROVE RepeatedOnlyFromAhead'
      <3>0. pc[h] = "stamped" /\ UNCHANGED requestTime
        BY <2>1 DEF AddLocked
      <3>1. CASE Found(h)
        BY <2>1, <3>1 DEF AddLocked, RepeatedOnlyFromAhead
      <3>2. CASE ~ Found(h)
        <4>1. \A x \in acceptedAgain' : \/ x \in acceptedAgain
                                        \/ x = salt[h] /\ salt[h] \in acceptedSalts
          BY <2>1, <3>2 DEF AddLocked
        <4>2. \A x \in acceptedSalts : firstCheck'[x] = firstCheck[x]
          BY <2>0, <2>1, <3>2 DEF AddLocked, PoolIInv, PoolTypeOK
        <4>3. salt[h] \in acceptedSalts =>
                requestTime[salt[h]] - Unix(firstCheck[salt[h]] + 1 - HandlerTicks) >= MaxEpochDiff
          BY <3>0, <3>2, ForgottenWasAhead
        <4> QED  BY <2>0, <3>0, <4>1, <4>2, <4>3 DEF RepeatedOnlyFromAhead
      <3> QED  BY <3>1, <3>2
    <2>2. CASE UNCHANGED saltVars
      BY <2>2 DEF saltVars, poolVars, RepeatedOnlyFromAhead
    <2>3. CASE PoolTick
      BY <2>3 DEF PoolTick, poolVars, RepeatedOnlyFromAhead
    <2>4. ASSUME NEW s \in Salts, Send(s) PROVE RepeatedOnlyFromAhead'
      <3>1. \A x \in requests : requestTime'[x] = requestTime[x]
        BY <2>0, <2>4 DEF Send, PoolIInv, PoolTypeOK
      <3>2. UNCHANGED <<acceptedAgain, firstCheck>>
        BY <2>4 DEF Send, poolVars
      <3> QED  BY <2>0, <3>1, <3>2 DEF RepeatedOnlyFromAhead
    <2>5. ASSUME NEW h \in Handlers, NEW s \in requests, Validate(h, s)
          PROVE  RepeatedOnlyFromAhead'
      BY <2>5 DEF Validate, poolVars, RepeatedOnlyFromAhead
    <2>6. ASSUME NEW h \in Handlers, ReadClock(h) PROVE RepeatedOnlyFromAhead'
      BY <2>6 DEF ReadClock, poolVars, RepeatedOnlyFromAhead
    <2> QED  BY <2>1, <2>2, <2>3, <2>4, <2>5, <2>6 DEF PoolNext
  <1> QED  BY <1>1, <1>2, PoolInvariance, PTL DEF PoolSpec

(* The last cleanup is not ahead of the clock and left nothing older than  *)
(* the retention; what an Add that read the clock before it has put in     *)
(* since is older than the cleanup by a handler's delay at most.           *)
PoolRecent ==
  /\ lastCleanup <= time
  /\ \A s \in pool : lastCleanup - added[s] <= Retention

(* An Add leaves nothing in the pool that is older than the retention at   *)
(* the last cleanup, nor older than two retentions at the time it read.    *)
LEMMA AddKeepsRecent ==
  ASSUME PoolIInv, PoolRecent, NEW h \in Handlers, AddLocked(h)
  PROVE  PoolRecent' /\ \A s \in pool' : stamp[h] - added'[s] <= 2 * Retention
  <1> DEFINE n == stamp[h]
             x == salt[h]
  <1>1. /\ n \in Nat /\ n <= time /\ time <= n + Retention /\ time \in Nat
        /\ Retention \in Nat /\ lastCleanup \in Nat /\ x \in Salts
        /\ pool \subseteq Salts /\ added \in [Salts -> Nat]
    <2>1. pc[h] = "stamped"
      BY DEF AddLocked
    <2>2. /\ start[h] \in Nat /\ n \in Nat /\ time \in Nat
          /\ Retention \in Nat /\ HandlerTicks \in Nat /\ HandlerTicks <= Retention
      BY PoolAssumption, TimeAssumption DEF PoolIInv, PoolTypeOK
    <2>3. start[h] <= n /\ n <= time /\ time <= start[h] + HandlerTicks
      BY <2>1 DEF PoolIInv, HandlersInTime
    <2>4. lastCleanup \in Nat /\ x \in Salts /\ pool \subseteq Salts /\ added \in [Salts -> Nat]
      BY PoolAssumption, TimeAssumption DEF PoolIInv, PoolTypeOK
    <2> QED  BY <2>2, <2>3, <2>4
  <1>2. /\ time' = time /\ lastCleanup' = IF CleanupDue(n) THEN n ELSE lastCleanup
        /\ \A s \in pool' : \/ s \in Cleaned(n) /\ added'[s] = added[s]
                            \/ s = x /\ added'[s] = n
    <2>1. time' = time /\ lastCleanup' = IF CleanupDue(n) THEN n ELSE lastCleanup
      BY DEF AddLocked
    <2>2. CASE Found(h)
      <3>1. pool' = Cleaned(n) /\ added' = added
        BY <2>2 DEF AddLocked
      <3> QED  BY <2>1, <3>1
    <2>3. CASE ~ Found(h)
      <3>1. pool' = Cleaned(n) \union {x} /\ added' = [added EXCEPT ![x] = n]
        BY <2>3 DEF AddLocked
      <3>2. Cleaned(n) \subseteq Salts
        BY <1>1 DEF Cleaned, Expired
      <3> HIDE DEF n, x
      <3> QED  BY <1>1, <2>1, <3>1, <3>2
    <2> QED  BY <2>2, <2>3
  <1> HIDE DEF n, x
  <1>3. CASE CleanupDue(n)
    <2>1. lastCleanup' = n
      BY <1>2, <1>3
    <2>2. \A s \in Cleaned(n) : added[s] \in Nat /\ n - added[s] <= Retention
      BY <1>1, <1>3 DEF Cleaned, Expired
    <2>3. \A s \in pool' : n - added'[s] <= Retention /\ added'[s] \in Nat
      BY <1>1, <1>2, <2>2
    <2>4. \A s \in pool' : n - added'[s] <= 2 * Retention
      BY <1>1, <2>3
    <2> QED  BY <1>1, <1>2, <2>1, <2>3, <2>4 DEF PoolRecent, n
  <1>4. CASE ~ CleanupDue(n)
    <2>1. lastCleanup' = lastCleanup /\ Cleaned(n) = pool
      BY <1>2, <1>4 DEF Cleaned
    <2>2. n - lastCleanup <= Retention
      BY <1>1, <1>4 DEF CleanupDue
    <2>3. lastCleanup <= time /\ lastCleanup - n <= Retention
      BY <1>1 DEF PoolRecent
    <2>4. \A s \in pool' : lastCleanup - added'[s] <= Retention /\ added'[s] \in Nat
      BY <1>1, <1>2, <2>1, <2>3 DEF PoolRecent
    <2>5. \A s \in pool' : n - added'[s] <= 2 * Retention
      BY <1>1, <2>2, <2>4
    <2> QED  BY <1>2, <2>1, <2>3, <2>4, <2>5 DEF PoolRecent, n
  <1> QED  BY <1>3, <1>4

(* Time passes and requests come, and the pool stays as it is. *)
LEMMA OthersKeepRecent ==
  ASSUME PoolIInv, PoolRecent, [PoolNext]_saltVars, ~ \E h \in Handlers : AddLocked(h)
  PROVE  PoolRecent'
  <1>1. UNCHANGED poolVars
    BY DEF PoolNext, saltVars, PoolTick, Send, Validate, ReadClock
  <1>2. time' = time \/ time' = time + 1
    BY DEF PoolNext, saltVars, PoolTick, Send, Validate, ReadClock
  <1>3. time \in Nat /\ lastCleanup \in Nat
    BY PoolAssumption, TimeAssumption DEF PoolIInv, PoolTypeOK
  <1> QED  BY <1>1, <1>2, <1>3 DEF PoolRecent, poolVars

(* A handler ends Add only by the part of it that runs under the mutex. *)
LEMMA OnlyAddEnds ==
  ASSUME PoolIInv, [PoolNext]_saltVars, NEW h \in Handlers, pc[h] = "stamped", pc'[h] = "idle"
  PROVE  AddLocked(h)
  <1>1. pc \in [Handlers -> {"idle", "validated", "stamped"}] /\ pc'[h] # pc[h]
    BY DEF PoolIInv, PoolTypeOK
  <1>2. ~ UNCHANGED saltVars /\ ~ PoolTick /\ ~ \E s \in Salts : Send(s)
    BY <1>1 DEF saltVars, pending, PoolTick, Send
  <1>3. ASSUME NEW g \in Handlers, NEW s \in requests, Validate(g, s) PROVE FALSE
    BY <1>1, <1>3 DEF Validate
  <1>4. ASSUME NEW g \in Handlers, ReadClock(g) PROVE FALSE
    BY <1>1, <1>4 DEF ReadClock
  <1>5. ASSUME NEW g \in Handlers, AddLocked(g) PROVE g = h
    BY <1>1, <1>5 DEF AddLocked
  <1> QED  BY <1>2, <1>3, <1>4, <1>5 DEF PoolNext

(* The pool does not grow without bound: no Add leaves an entry in it that *)
(* is more than two retentions older than the Add, though handlers run Add *)
(* in another order than they read the clock.                              *)
THEOREM PoolIsCleaned == PoolSpec => EntriesLeaveInTime
  <1>1. PoolInit => PoolRecent
    BY PoolAssumption, TimeAssumption DEF PoolInit, PoolRecent
  <1>2. PoolIInv /\ PoolRecent /\ [PoolNext]_saltVars => PoolRecent'
    BY AddKeepsRecent, OthersKeepRecent
  <1>3. ASSUME PoolIInv, PoolRecent, [PoolNext]_saltVars
        PROVE  [\A h \in Handlers :
                  pc[h] = "stamped" /\ pc'[h] = "idle" =>
                    \A s \in pool' : stamp[h] - added'[s] <= 2 * Retention]_saltVars
    <2> SUFFICES ASSUME NEW h \in Handlers, pc[h] = "stamped", pc'[h] = "idle"
                 PROVE  \A s \in pool' : stamp[h] - added'[s] <= 2 * Retention
      OBVIOUS
    <2>1. AddLocked(h)
      BY <1>3, OnlyAddEnds
    <2> QED  BY <1>3, <2>1, AddKeepsRecent
  <1> QED  BY <1>1, <1>2, <1>3, PoolInvariance, PTL DEF PoolSpec, EntriesLeaveInTime

-----------------------------------------------------------------------------
(* The buffers of the UDP relays *)

(* The state keeps its types. *)
HeadroomType ==
    /\ from \in Protocol /\ to \in Protocol
    /\ dir \in {"up", "down"}
    /\ limit \in Int /\ size \in Int /\ at \in Int /\ len \in Int
    /\ front \in Nat /\ addrLen \in Nat /\ payload \in Nat /\ padding \in Nat
    /\ state \in {"received", "unpacked", "packed", "refused"}

(* What the protocols of a relay have to do with each other. *)
Compatible ==
    /\ Follows(to, from)
    /\ from.hasAddr \/ (from.up = 0 /\ from.down = 0 /\ from.maxPadding = 0)
    /\ to.hasAddr \/ (to.up = 0 /\ to.down = 0 /\ to.maxPadding = 0)

(* The room in front of the received packet. *)
Reserved == front >= FrontHeadroom(to, dir) - FrontHeadroom(from, dir)

(* Where the received packet lies, with the room for either tag behind it. *)
AtReceived ==
    state = "received" =>
        /\ at = front
        /\ len = PacketLen(from, dir, padding, addrLen, payload)
        /\ addrLen <= LongestAddr(dir)
        /\ at + len <= size
        /\ at + len - from.tag + to.tag <= size

(* Where the payload lies. *)
AtUnpacked ==
    state = "unpacked" =>
        /\ at = front + Fixed(from, dir) + padding + AddrPart(from, addrLen)
        /\ len = payload
        /\ addrLen <= LongestAddr(dir)
        /\ at + len + to.tag <= size

(* The inductive invariant: the four properties alone do not say where the *)
(* payload lies between UnpackPacket and PackPacket.                       *)
BufferInv ==
    /\ HeadroomType /\ Compatible /\ Reserved /\ AtReceived /\ AtUnpacked
    /\ InBounds /\ KeepsLimit /\ RefusedOnlyForSize /\ PeerUnpacks

(* The lengths of a protocol are numbers. *)
LEMMA ProtocolLengths ==
    ASSUME NEW p \in Protocol, NEW d \in {"up", "down"}, NEW n \in Nat
    PROVE  /\ p.up \in Nat /\ p.down \in Nat /\ p.maxPadding \in Nat /\ p.tag \in Nat
           /\ p.hasAddr \in BOOLEAN
           /\ Fixed(p, d) \in Nat
           /\ AddrPart(p, n) \in Nat
  BY DEF Protocol, Fixed, AddrPart

(* Addresses of either direction have a longest one. *)
LEMMA LongestAddrNat == ASSUME NEW d \in {"up", "down"} PROVE LongestAddr(d) \in Nat
  BY HeadroomAssumption DEF LongestAddr

(* What a relay reserves covers the difference and is never negative. *)
LEMMA ReserveCovers ==
    ASSUME NEW most \in Int, NEW own \in Int
    PROVE  Reserve(most, own) \in Nat /\ Reserve(most, own) >= most - own
  BY DEF Reserve, Max2

(* PackInPlace finds room for its header in front of the payload, although *)
(* the header that was taken off may have been shorter than the headroom   *)
(* of its protocol.                                                        *)
LEMMA HeaderFits ==
    ASSUME HeadroomType, Compatible, Reserved, AtUnpacked, state = "unpacked",
           NEW n \in AddrLens, Written(n)
    PROVE  at >= HeaderNoPadding(n)
<1>1. n \in Nat /\ LongestAddr(dir) \in Nat
  BY HeadroomAssumption, LongestAddrNat DEF HeadroomType
<1>2. /\ Fixed(from, dir) \in Nat /\ Fixed(to, dir) \in Nat
      /\ from.maxPadding \in Nat /\ to.maxPadding \in Nat
      /\ from.hasAddr \in BOOLEAN /\ to.hasAddr \in BOOLEAN
  BY <1>1, ProtocolLengths DEF HeadroomType
<1>3. at = front + Fixed(from, dir) + padding + AddrPart(from, addrLen)
  BY DEF AtUnpacked
<1>4. front >= Fixed(to, dir) + to.maxPadding + AddrPart(to, LongestAddr(dir))
                 - (Fixed(from, dir) + from.maxPadding + AddrPart(from, LongestAddr(dir)))
  <2>1. AddrPart(from, LongestAddr(dir)) \in Nat /\ AddrPart(to, LongestAddr(dir)) \in Nat
    BY <1>1, ProtocolLengths DEF HeadroomType
  <2> QED
    BY <1>2, <2>1 DEF Reserved, FrontHeadroom, HeadroomType
<1>5. from.maxPadding <= to.maxPadding \/ Fixed(to, dir) <= Fixed(from, dir)
  BY DEF HeadroomType, Compatible, Follows, Fixed
<1>6. n <= LongestAddr(dir)
  BY <1>1 DEF Written, AtUnpacked, HeadroomType
<1>7. CASE ~to.hasAddr
  <2>1. Fixed(to, dir) = 0
    BY <1>7 DEF Compatible, Fixed
  <2> QED
    BY <1>1, <1>2, <1>3, <1>7, <2>1 DEF HeaderNoPadding, AddrPart, HeadroomType
<1>8. CASE to.hasAddr /\ from.hasAddr
  <2>1. n <= addrLen
    BY <1>8 DEF Written
  <2> QED
    BY <1>1, <1>2, <1>3, <1>4, <1>5, <1>8, <2>1 DEF HeaderNoPadding, AddrPart, HeadroomType
<1>9. CASE to.hasAddr /\ ~from.hasAddr
  <2>1. from.maxPadding = 0 /\ Fixed(from, dir) = 0
    BY <1>9 DEF Compatible, Fixed
  <2> QED
    BY <1>1, <1>2, <1>3, <1>4, <1>6, <1>9, <2>1 DEF HeaderNoPadding, AddrPart, HeadroomType
<1> QED
  BY <1>2, <1>7, <1>8, <1>9

(* The buffers are laid out as the invariant says. *)
LEMMA BufferStarts == BufferInit => BufferInv
<1> SUFFICES ASSUME NEW s \in Servers, NEW c \in Clients, NEW other \in Clients, NEW d \in {"up", "down"},
                    NEW mtu \in MTUs, NEW ip \in IPHeaderLengths, NEW rmtu \in MTUs, NEW rip \in IPHeaderLengths,
                    addrLen \in AddrLens, padding \in Paddings, payload \in Payloads,
                    Receive(s, c, other, d, mtu, ip, rmtu, rip)
             PROVE  BufferInv
  BY DEF BufferInit
<1> DEFINE most == IF d = "up" THEN Max2(FrontHeadroom(c, d), FrontHeadroom(other, d)) ELSE FrontHeadroom(s, d)
           mostRear == IF d = "up" THEN Max2(RearHeadroom(c), RearHeadroom(other)) ELSE RearHeadroom(s)
           recvSize == MaxPacketSize(rmtu, IF d = "up" THEN 20 ELSE rip)
<1>1. /\ s \in Protocol /\ c \in Protocol /\ other \in Protocol
      /\ mtu \in Nat /\ rmtu \in Nat /\ addrLen \in Nat /\ padding \in Nat /\ payload \in Nat
  BY HeadroomAssumption
<1>2. /\ dir = d
      /\ from = IF d = "up" THEN s ELSE c
      /\ to = IF d = "up" THEN c ELSE s
      /\ limit = MaxPacketSize(mtu, ip)
      /\ front = Reserve(most, FrontHeadroom(from, d))
      /\ size = front + recvSize + Reserve(mostRear, RearHeadroom(from))
      /\ addrLen <= LongestAddr(d)
      /\ len = PacketLen(from, d, padding, addrLen, payload)
      /\ len <= recvSize
      /\ at = front
      /\ state = "received"
  BY DEF Receive
<1>3. from \in Protocol /\ to \in Protocol
  BY <1>1, <1>2
<1>4. LongestAddr(d) \in Nat
  BY LongestAddrNat
<1>5. \A p \in Protocol : FrontHeadroom(p, d) \in Nat /\ RearHeadroom(p) \in Nat
  BY <1>4, ProtocolLengths DEF FrontHeadroom, RearHeadroom
<1>6. /\ most \in Nat /\ most >= FrontHeadroom(to, d)
      /\ mostRear \in Nat /\ mostRear >= RearHeadroom(to)
  BY <1>1, <1>2, <1>5 DEF Max2
<1>7. /\ front \in Nat /\ front >= most - FrontHeadroom(from, d)
      /\ Reserve(mostRear, RearHeadroom(from)) \in Nat
      /\ Reserve(mostRear, RearHeadroom(from)) >= mostRear - RearHeadroom(from)
  <2> HIDE DEF most, mostRear
  <2>1. most \in Int /\ mostRear \in Int /\ FrontHeadroom(from, d) \in Int /\ RearHeadroom(from) \in Int
    BY <1>3, <1>5, <1>6
  <2> QED
    BY <1>2, <2>1, ReserveCovers
<1>8. recvSize \in Int /\ limit \in Int
  BY <1>1, <1>2 DEF MaxPacketSize, UDPHeaderLength, IPHeaderLengths
<1>9. len \in Nat
  BY <1>1, <1>2, <1>3, ProtocolLengths DEF PacketLen
<1>10. HeadroomType
  <2>1. size \in Int
    BY <1>2, <1>7, <1>8
  <2> QED
    BY <1>1, <1>2, <1>3, <1>7, <1>8, <1>9, <2>1 DEF HeadroomType
<1>11. Compatible
  BY <1>2, HeadroomAssumption DEF Compatible
<1>12. Reserved
  BY <1>2, <1>3, <1>5, <1>6, <1>7 DEF Reserved
<1>13. AtReceived
  <2>1. RearHeadroom(from) = from.tag /\ RearHeadroom(to) = to.tag /\ from.tag \in Nat /\ to.tag \in Nat
    BY <1>1, <1>2, <1>3, ProtocolLengths DEF RearHeadroom
  <2> HIDE DEF mostRear, recvSize
  <2>2. at + len <= size /\ at + len - from.tag + to.tag <= size
    BY <1>2, <1>6, <1>7, <1>8, <1>9, <2>1
  <2> QED
    BY <1>2, <2>2 DEF AtReceived
<1>14. InBounds
  BY <1>2, <1>7, <1>9, <1>13 DEF AtReceived, InBounds
<1> QED
  BY <1>2, <1>10, <1>11, <1>12, <1>13, <1>14
     DEF BufferInv, AtUnpacked, KeepsLimit, RefusedOnlyForSize, PeerUnpacks

(* Unpacking puts the payload where the invariant says. *)
LEMMA UnpackKeeps == ASSUME BufferInv, UnpackPacket PROVE BufferInv'
<1> USE DEF BufferInv, UnpackPacket
<1>1. addrLen \in Nat /\ dir \in {"up", "down"} /\ from \in Protocol /\ to \in Protocol
  BY DEF HeadroomType
<1>2. /\ Fixed(from, dir) \in Nat /\ AddrPart(from, addrLen) \in Nat /\ from.tag \in Nat /\ to.tag \in Nat
      /\ padding \in Nat /\ payload \in Nat /\ front \in Nat /\ size \in Int
  BY <1>1, ProtocolLengths DEF HeadroomType
<1>3. /\ at = front
      /\ len = Fixed(from, dir) + padding + AddrPart(from, addrLen) + payload + from.tag
      /\ addrLen <= LongestAddr(dir)
      /\ at + len - from.tag + to.tag <= size
  BY DEF AtReceived, PacketLen
<1>4. at' = front + Fixed(from, dir) + padding + AddrPart(from, addrLen) /\ len' = payload
  BY <1>2, <1>3
<1>5. HeadroomType'
  BY <1>2, <1>4 DEF HeadroomType
<1>6. Compatible' /\ Reserved'
  BY DEF Compatible, Reserved
<1>7. AtUnpacked'
  BY <1>2, <1>3, <1>4 DEF AtUnpacked
<1>8. InBounds'
  BY <1>2, <1>3, <1>4 DEF InBounds
<1> QED
  BY <1>5, <1>6, <1>7, <1>8 DEF AtReceived, KeepsLimit, RefusedOnlyForSize, PeerUnpacks

(* Packing stays in the buffer and in the limit, and can be undone. *)
LEMMA PackKeeps == ASSUME BufferInv, NEW n \in AddrLens, Written(n), PackPacket(n) PROVE BufferInv'
<1> USE DEF BufferInv, PackPacket
<1>1. n \in Nat
  BY HeadroomAssumption
<1>2. /\ addrLen \in Nat /\ dir \in {"up", "down"} /\ from \in Protocol /\ to \in Protocol
      /\ at \in Int /\ size \in Int /\ limit \in Int /\ payload \in Nat
  BY DEF HeadroomType
<1>3. /\ HeaderNoPadding(n) \in Nat /\ to.tag \in Nat /\ to.maxPadding \in Nat
      /\ HeaderNoPadding(n) = Fixed(to, dir) + AddrPart(to, n)
      /\ Fixed(to, dir) \in Nat /\ AddrPart(to, n) \in Nat
  BY <1>1, <1>2, ProtocolLengths DEF HeaderNoPadding
<1>4. len = payload /\ at + len + to.tag <= size
  BY DEF AtUnpacked
<1>5. at >= HeaderNoPadding(n)
  BY HeaderFits
<1>6. PICK pad \in Paddings :
        /\ pad = 0 \/ (to.maxPadding > 0 /\ pad \in 1..MaxPaddingLen(n))
        /\ padding' = pad
        /\ at' = at - HeaderNoPadding(n) - pad
        /\ len' = HeaderNoPadding(n) + pad + len + to.tag
  BY DEF PackPacket
<1>7. pad \in Nat
  BY HeadroomAssumption
<1>8. /\ HeaderNoPadding(n) + pad + len + to.tag <= limit
      /\ pad <= at - HeaderNoPadding(n)
      /\ pad <= MaxUint16
  <2>1. CASE to.maxPadding > 0
    <3>1. /\ MaxPaddingLen(n) \in Int
          /\ MaxPaddingLen(n) <= limit - HeaderNoPadding(n) - len - to.tag
          /\ MaxPaddingLen(n) <= at - HeaderNoPadding(n)
          /\ MaxPaddingLen(n) <= MaxUint16
      BY <1>2, <1>3, <1>4 DEF MaxPaddingLen, Min2, MaxUint16
    <3>2. MaxPaddingLen(n) >= 0
      BY <2>1, <3>1 DEF TooBig
    <3>3. pad <= MaxPaddingLen(n)
      BY <1>6, <3>1, <3>2
    <3> QED
      BY <1>2, <1>3, <1>4, <1>7, <3>1, <3>3 DEF MaxUint16
  <2>2. CASE ~(to.maxPadding > 0)
    <3>1. pad = 0
      BY <1>6, <2>2
    <3>2. HeaderNoPadding(n) + len + to.tag <= limit
      BY <1>2, <1>3, <1>4, <2>2 DEF TooBig
    <3> QED
      BY <1>2, <1>3, <1>4, <1>5, <3>1, <3>2 DEF MaxUint16
  <2> QED
    BY <2>1, <2>2
<1>9. HeadroomType'
  BY <1>1, <1>2, <1>3, <1>4, <1>6, <1>7 DEF HeadroomType
<1>10. Compatible' /\ Reserved'
  BY DEF Compatible, Reserved
<1>11. InBounds'
  BY <1>2, <1>3, <1>4, <1>6, <1>7, <1>8 DEF InBounds
<1>12. KeepsLimit'
  BY <1>6, <1>8 DEF KeepsLimit
<1>13. PeerUnpacks'
  <2>1. pad % (MaxUint16 + 1) = pad
    BY <1>7, <1>8 DEF MaxUint16
  <2>2. len' - Fixed(to, dir) - pad - AddrPart(to, n) - to.tag = payload
    BY <1>2, <1>3, <1>4, <1>6, <1>7
  <2> QED
    BY <1>6, <2>1, <2>2 DEF PeerUnpacks
<1> QED
  BY <1>9, <1>10, <1>11, <1>12, <1>13 DEF AtReceived, AtUnpacked, RefusedOnlyForSize

(* A packet is refused for its size only. *)
LEMMA RefuseKeeps == ASSUME BufferInv, NEW n \in AddrLens, Written(n), Refuse(n) PROVE BufferInv'
<1> USE DEF BufferInv, Refuse
<1>1. n \in Nat
  BY HeadroomAssumption
<1>2. /\ dir \in {"up", "down"} /\ to \in Protocol
      /\ at \in Int /\ size \in Int /\ limit \in Int /\ payload \in Nat
  BY DEF HeadroomType
<1>3. /\ HeaderNoPadding(n) \in Nat /\ to.tag \in Nat /\ to.maxPadding \in Nat
      /\ HeaderNoPadding(n) = Fixed(to, dir) + AddrPart(to, n)
  BY <1>1, <1>2, ProtocolLengths DEF HeaderNoPadding
<1>4. len = payload
  BY DEF AtUnpacked
<1>5. at >= HeaderNoPadding(n)
  BY HeaderFits
<1>6. HeaderNoPadding(n) + payload + to.tag > limit
  <2>1. CASE to.maxPadding > 0
    BY <1>2, <1>3, <1>4, <1>5, <2>1 DEF TooBig, MaxPaddingLen, Min2, MaxUint16
  <2>2. CASE ~(to.maxPadding > 0)
    BY <1>4, <2>2 DEF TooBig
  <2> QED
    BY <2>1, <2>2
<1>7. RefusedOnlyForSize'
  BY <1>3, <1>6 DEF RefusedOnlyForSize
<1>8. at' \in Int /\ len' \in Int /\ InBounds'
  <2>1. at >= 0 /\ len \in Nat /\ at + len <= size
    BY <1>2, <1>4 DEF InBounds
  <2>2. CASE to.maxPadding > 0
    BY <1>2, <2>1, <2>2 DEF InBounds
  <2>3. CASE ~(to.maxPadding > 0)
    BY <1>2, <1>3, <1>5, <2>1, <2>3 DEF InBounds
  <2> QED
    BY <2>2, <2>3
<1> QED
  BY <1>1, <1>7, <1>8 DEF HeadroomType, Compatible, Reserved, AtReceived, AtUnpacked, KeepsLimit, PeerUnpacks

(* The invariant is inductive. *)
THEOREM BufferInvariance == BufferSpec => []BufferInv
<1>1. BufferInit => BufferInv
  BY BufferStarts
<1>2. BufferInv /\ [BufferNext]_bufferVars => BufferInv'
  <2> SUFFICES ASSUME BufferInv, [BufferNext]_bufferVars PROVE BufferInv'
    OBVIOUS
  <2>1. CASE UnpackPacket
    BY <2>1, UnpackKeeps
  <2>2. ASSUME NEW n \in AddrLens, Written(n), PackPacket(n) PROVE BufferInv'
    BY <2>2, PackKeeps
  <2>3. ASSUME NEW n \in AddrLens, Written(n), Refuse(n) PROVE BufferInv'
    BY <2>3, RefuseKeeps
  <2>4. CASE UNCHANGED bufferVars
    BY <2>4 DEF bufferVars, BufferInv, HeadroomType, Compatible, Reserved, AtReceived, AtUnpacked, InBounds, KeepsLimit,
                RefusedOnlyForSize, PeerUnpacks
  <2> QED
    BY <2>1, <2>2, <2>3, <2>4 DEF BufferNext, Finished
<1> QED
  BY <1>1, <1>2, PTL DEF BufferSpec

(* PackInPlace and UnpackInPlace never leave the relay's buffer, for every *)
(* combination of protocols and every length.                              *)
THEOREM NeverOutOfBounds == BufferSpec => []InBounds
<1>1. BufferInv => InBounds
  BY DEF BufferInv
<1> QED
  BY <1>1, BufferInvariance, PTL

(* No packet is longer than the MTU allows. *)
THEOREM LimitKept == BufferSpec => []KeepsLimit
<1>1. BufferInv => KeepsLimit
  BY DEF BufferInv
<1> QED
  BY <1>1, BufferInvariance, PTL

(* No packet is refused for want of headroom. *)
THEOREM HeadroomSuffices == BufferSpec => []RefusedOnlyForSize
<1>1. BufferInv => RefusedOnlyForSize
  BY DEF BufferInv
<1> QED
  BY <1>1, BufferInvariance, PTL

(* The peer recovers the payload from every packed packet. *)
THEOREM PeerRecoversPayload == BufferSpec => []PeerUnpacks
<1>1. BufferInv => PeerUnpacks
  BY DEF BufferInv
<1> QED
  BY <1>1, BufferInvariance, PTL
=============================================================================
