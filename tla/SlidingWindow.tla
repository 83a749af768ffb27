--------------------------- MODULE SlidingWindow ----------------------------
(***************************************************************************)
(* One sliding window filter in use: counters in any order, through Add or *)
(* through the pair IsOk / MustAdd the unpackers use, and Reset.           *)
(***************************************************************************)
EXTENDS Filter

CONSTANT MaxCounter     \* the largest counter offered; 2^64 - 1 in the code

ASSUME CounterAssumption == MaxCounter \in Nat

VARIABLES filter,       \* the Filter
          accepted,     \* history: the counters accepted since the last Reset
          verdict       \* the last answer: [counter, answer]

windowVars == <<filter, accepted, verdict>>

Counters == 0 .. MaxCounter

NoVerdict == [counter |-> 0, answer |-> "none"]

WindowInit ==
  /\ filter = EmptyFilter
  /\ accepted = {}
  /\ verdict = NoVerdict

Answer(c, ok) ==
  /\ verdict' = [counter |-> c, answer |-> IF ok THEN "accepted" ELSE "refused"]
  /\ accepted' = IF ok THEN accepted \union {c} ELSE accepted

(* Filter.Add *)
TryAdd(c) ==
  /\ filter' = Add(filter, c)
  /\ Answer(c, AddOk(filter, c))

(* IsOk, and MustAdd only when IsOk holds: how UnpackInPlace calls them. *)
CheckThenAdd(c) ==
  /\ filter' = IF IsOk(filter, c) THEN MustAdd(filter, c) ELSE filter
  /\ Answer(c, IsOk(filter, c))

ResetFilter ==
  /\ filter' = Reset(filter)
  /\ accepted' = {}
  /\ verdict' = NoVerdict

WindowNext ==
  \/ \E c \in Counters : TryAdd(c) \/ CheckThenAdd(c)
  \/ ResetFilter

WindowSpec == WindowInit /\ [][WindowNext]_windowVars

-----------------------------------------------------------------------------

(* A filter keeps the shape of the Go struct, and its history matches. *)
WindowTypeOK ==
  /\ filter \in FilterType
  /\ accepted \subseteq Counters
  /\ verdict \in [counter : Counters, answer : {"none", "accepted", "refused"}]

(* The ring remembers the window's counters exactly, whatever was accepted *)
(* before, skipped over, or left behind by a Reset, and whichever of Add   *)
(* and MustAdd moved the window, each with its own loop.                   *)
RingExact == Represents(filter, accepted, Counters)

(* Whatever the order of arrival, a counter is accepted only the first     *)
(* time it is offered since the last Reset: no packet is delivered twice.  *)
NeverAcceptedTwice ==
  [][verdict'.answer = "accepted" => verdict'.counter \notin accepted]_windowVars

(* The filter is the replay filter with a window of Size: it also never    *)
(* refuses a fresh counter that is inside the window.                      *)
Abstract == INSTANCE ReplayFilter WITH Window <- Size

ImplementsReplayFilter == Abstract!Spec

=============================================================================
