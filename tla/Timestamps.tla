----------------------------- MODULE Timestamps -----------------------------
(***************************************************************************)
(* Timestamps of requests and packets (ss2022/header.go): Unix seconds, a  *)
(* truncation of the clock's ticks, compared with the receiver's own.      *)
(***************************************************************************)
EXTENDS Integers

CONSTANTS
  MaxTime,          \* bound on the clock
  Skews,            \* the sender's clock minus the receiver's, in seconds
  Second,           \* ticks per second
  MaxEpochDiff      \* seconds: 30 in the code

ASSUME TimeAssumption ==
  /\ MaxTime \in Nat
  /\ Skews \subseteq Int
  /\ Second \in Nat \ {0}
  /\ MaxEpochDiff \in Nat

Unix(t) == t \div Second

(* ValidateUnixEpochTimestamp at time t. *)
ValidTimestamp(ts, t) ==
  /\ ts - Unix(t) >= - MaxEpochDiff
  /\ ts - Unix(t) <= MaxEpochDiff
=============================================================================
