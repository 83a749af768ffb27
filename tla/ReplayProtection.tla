-------------------------- MODULE ReplayProtection --------------------------
(***************************************************************************)
(* The two memories the program has against replays, side by side: the     *)
(* sliding window of packet IDs (SlidingWindow) and the pool of request    *)
(* salts (SaltPool).  They share nothing, so their steps are not           *)
(* interleaved: memory tells which of them a behaviour is about.           *)
(***************************************************************************)
EXTENDS SlidingWindow, SaltPool

VARIABLE memory

replayVars == <<memory, windowVars, saltVars>>

ReplayInit == WindowInit /\ PoolInit /\ memory \in {"window", "pool"}

ReplayNext ==
  \/ memory = "window" /\ WindowNext /\ UNCHANGED <<memory, saltVars>>
  \/ memory = "pool" /\ PoolNext /\ UNCHANGED <<memory, windowVars>>

ReplaySpec == ReplayInit /\ [][ReplayNext]_replayVars
=============================================================================
