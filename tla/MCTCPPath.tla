----------------------------- MODULE MCTCPPath ------------------------------
(* A small instance of TCPPath for TLC. *)
EXTENDS TCPPath

(* Three bytes one way; the other way the stream only ends or breaks. *)
ThreeAndNone == [d \in Dirs |-> IF d = "l2r" THEN 3 ELSE 0]

AllConfigs ==
  {conf \in [native : BOOLEAN, buffered : BOOLEAN, disableWait : BOOLEAN, fallback : BOOLEAN] :
     ~(conf.native /\ conf.buffered)}
=============================================================================
