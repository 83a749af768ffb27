---------------------------- MODULE ReplayFilter ----------------------------
(***************************************************************************)
(* What a replay filter promises, with no ring and no blocks: a counter    *)
(* that was not accepted before and that is at most Window behind the      *)
(* greatest accepted one is accepted; every other counter is refused.      *)
(***************************************************************************)
EXTENDS Integers

CONSTANTS Counters, Window

VARIABLES accepted,   \* the counters accepted since the last reset
          verdict     \* the last answer: [counter, answer]

Highest == IF accepted = {} THEN 0
           ELSE CHOOSE h \in accepted : \A a \in accepted : a <= h

Acceptable(c) == c \notin accepted /\ Highest - c <= Window

NoVerdict == [counter |-> 0, answer |-> "none"]

Init == accepted = {} /\ verdict = NoVerdict

Offer(c) ==
  /\ verdict' = [counter |-> c,
                 answer |-> IF Acceptable(c) THEN "accepted" ELSE "refused"]
  /\ accepted' = IF Acceptable(c) THEN accepted \union {c} ELSE accepted

Reset == accepted' = {} /\ verdict' = NoVerdict

Next == Reset \/ \E c \in Counters : Offer(c)

Spec == Init /\ [][Next]_<<accepted, verdict>>
=============================================================================
