------------------------------- MODULE Filter -------------------------------
(***************************************************************************)
(* The sliding window filter of ss2022/slidingwindow.go, as operators on   *)
(* the filter's value.  A filter is the record [last, ring] of the Go      *)
(* struct; a ring block, a 64-bit word in the code, is the set of the      *)
(* positions of its 1 bits.  The code's masks (& swBlockMask, & swBitMask) *)
(* are remainders, its shift (>> swBlockBitLog) a quotient, because        *)
(* swBlockBits and swRingBlocks are powers of two; nothing else here needs *)
(* them to be.  Block numbers are below 2^58, so that the code's           *)
(* differences neither wrap nor change sign.                               *)
(***************************************************************************)
EXTENDS Integers

CONSTANTS BlockBits,    \* swBlockBits: bits in one block of the ring
          RingBlocks    \* swRingBlocks: blocks in the ring

ASSUME FilterAssumption ==
  /\ BlockBits \in Nat \ {0}
  /\ RingBlocks \in Nat \ {0}

(* swSize: how far behind the last counter a counter may be. *)
Size == (RingBlocks - 1) * BlockBits

Slots == 0 .. RingBlocks - 1
Bits  == 0 .. BlockBits - 1

(* Block number of a counter, not yet reduced to a slot of the ring. *)
Block(c) == c \div BlockBits
Slot(b)  == b % RingBlocks
Bit(c)   == c % BlockBits

FilterType == [last : Nat, ring : [Slots -> SUBSET Bits]]

(* The zero value of the Go struct, &Filter{}. *)
EmptyFilter == [last |-> 0, ring |-> [s \in Slots |-> {}]]

(* Reset clears the first block only: the others hold what they held. *)
Reset(f) == [last |-> 0, ring |-> [f.ring EXCEPT ![0] = {}]]

AheadOfWindow(f, c) == c > f.last

BehindWindow_Off(f, c) == f.last - c >= Size    \* bug: edge of the window
BehindWindow(f, c)  == f.last - c > Size
BitIsSet(f, c)      == Bit(c) \in f.ring[Slot(Block(c))]

IsOk(f, c) ==
  \/ AheadOfWindow(f, c)
  \/ ~ BehindWindow(f, c) /\ ~ BitIsSet(f, c)

(* The blocks after the last counter's, up to the counter's own, are       *)
(* cleared: all of the ring when the counter is that far ahead.            *)
BlocksToClear(f, c) ==
  LET diff == Block(c) - Block(f.last)
  IN  IF diff > RingBlocks THEN RingBlocks ELSE diff

Advance(f, c) ==
  [last |-> c,
   ring |-> [s \in Slots |->
              IF \E k \in 1 .. BlocksToClear(f, c) : s = Slot(Block(f.last) + k)
              THEN {} ELSE f.ring[s]]]

SetBit(f, c) ==
  [last |-> f.last,
   ring |-> [f.ring EXCEPT ![Slot(Block(c))] = @ \union {Bit(c)}]]

MustAdd(f, c) ==
  SetBit(IF AheadOfWindow(f, c) THEN Advance(f, c) ELSE f, c)

(* Add: the answer and the filter it leaves, decided in one switch.  It    *)
(* shares no code with IsOk and MustAdd: the tests, the loop that clears   *)
(* the ring and the setting of the bit are its own.                        *)
AddOk(f, c) ==
  \/ c > f.last
  \/ f.last - c <= Size /\ Bit(c) \notin f.ring[Slot(Block(c))]

(* bug: a jump over the whole ring leaves one block as it was *)
AddClears_AllButOne(f, c) ==
  LET unmasked == Block(c) - Block(f.last)
      diff     == IF unmasked >= RingBlocks THEN RingBlocks - 1 ELSE unmasked
  IN  {Slot(Block(f.last) + i) : i \in 1 .. diff}

(* The slots Add's loop sets to zero, the counter's own among them. *)
AddClears(f, c) ==
  LET unmasked == Block(c) - Block(f.last)
      diff     == IF unmasked > RingBlocks THEN RingBlocks ELSE unmasked
  IN  {Slot(Block(f.last) + i) : i \in 1 .. diff}

Add(f, c) ==
  LET cleared == IF c > f.last
                 THEN [s \in Slots |-> IF s \in AddClears(f, c) THEN {} ELSE f.ring[s]]
                 ELSE f.ring
  IN  IF AddOk(f, c)
      THEN [last |-> IF c > f.last THEN c ELSE f.last,
            ring |-> [cleared EXCEPT ![Slot(Block(c))] = @ \union {Bit(c)}]]
      ELSE f

-----------------------------------------------------------------------------
(***************************************************************************)
(* What the ring remembers.  The window's blocks are the last counter's    *)
(* own and the RingBlocks - 1 before it.  Within them the ring is exactly  *)
(* the set acc of accepted counters, the bits after the last counter in    *)
(* its block included, which no IsOk reads before the filter advances over *)
(* them.  Blocks ahead of the window may hold anything, since Reset leaves *)
(* them as they are.  C is the set of counters spoken about.               *)
(***************************************************************************)
InRing(f, c) ==
  /\ Block(c) <= Block(f.last)
  /\ Block(f.last) < Block(c) + RingBlocks

WindowHolds(f, acc, C) ==
  \A c \in C : InRing(f, c) => (BitIsSet(f, c) <=> c \in acc)

Represents(f, acc, C) ==
  /\ f \in FilterType
  /\ acc \subseteq C \intersect 0 .. f.last
  /\ acc # {} => f.last \in acc
  /\ acc = {} => f.last = 0
  /\ WindowHolds(f, acc, C)
=============================================================================
