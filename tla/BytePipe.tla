------------------------------ MODULE BytePipe ------------------------------
(***************************************************************************)
(* What one direction of a relay promises: the bytes 1, 2, ... that one    *)
(* end sends reach the other end in order, none left out and none twice,   *)
(* and the direction is reported complete only when the sender has ended   *)
(* its stream and everything it sent was delivered.                        *)
(***************************************************************************)
EXTENDS Integers, Sequences

VARIABLES
  sent,       \* how many bytes were sent
  ended,      \* "open", "eof" (the sender ended its stream) or "err"
  delivered,  \* the bytes that reached the other end
  result      \* "none" while bytes flow, then "complete" or "failed"

pipeVars == <<sent, ended, delivered, result>>

Init == sent = 0 /\ ended = "open" /\ delivered = <<>> /\ result = "none"

Send == ended = "open" /\ sent' = sent + 1 /\ UNCHANGED <<ended, delivered, result>>

End == ended = "open" /\ ended' \in {"eof", "err"} /\ UNCHANGED <<sent, delivered, result>>

(* The next k bytes. *)
Deliver ==
  /\ result = "none"
  /\ \E k \in 1 .. (sent - Len(delivered)) :
       delivered' = delivered \o [i \in 1 .. k |-> Len(delivered) + i]
  /\ UNCHANGED <<sent, ended, result>>

Complete ==
  /\ result = "none" /\ ended = "eof" /\ Len(delivered) = sent
  /\ result' = "complete"
  /\ UNCHANGED <<sent, ended, delivered>>

Fail ==
  /\ result = "none"
  /\ result' = "failed"
  /\ UNCHANGED <<sent, ended, delivered>>

Next == Send \/ End \/ Deliver \/ Complete \/ Fail

Spec == Init /\ [][Next]_pipeVars
=============================================================================
