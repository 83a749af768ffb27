------------------------------ MODULE SaltPool ------------------------------
(***************************************************************************)
(* The salt pool of ss2022/saltpool.go and the part of accepting a TCP     *)
(* request that leads to it (NewShadowStreamServerReadWriter): connection  *)
(* handlers run concurrently, check the request's timestamp, then call     *)
(* Add, which reads the clock before it takes the pool's mutex.            *)
(*                                                                         *)
(* Time is in ticks; a request carries Unix seconds.  A client sends a     *)
(* request once; the network may present it to any number of handlers, at  *)
(* any time.  A handler takes at most HandlerTicks from the timestamp      *)
(* check to the end of Add: time does not pass a handler that is due.      *)
(***************************************************************************)
EXTENDS Timestamps

CONSTANTS
  Handlers,       \* goroutines that handle connections
  Salts,          \* request salts (random: one per request)
  Retention,      \* ticks: the pool's retention, ReplayWindowDuration in the code
  HandlerTicks    \* bound: ticks from the timestamp check to the end of Add

ASSUME PoolAssumption ==
  /\ Retention \in Nat
  /\ Retention = 2 * MaxEpochDiff * Second      \* MaxTimeDiff * 2
  /\ HandlerTicks \in Nat
  /\ HandlerTicks <= Retention

VARIABLES
  time,           \* the server's clock
  requests,       \* the requests sent so far, by salt
  requestTime,    \* requestTime[s]: the timestamp in request s
  pc,             \* pc[h]: "idle", "validated" or "stamped"
  salt,           \* salt[h]: the salt of the request h handles
  start,          \* start[h]: when h checked the timestamp
  stamp,          \* stamp[h]: Add's now
  pool,           \* the salts in the map
  added,          \* added[s]: the time stored with salt s
  lastCleanup,
  acceptedSalts,  \* history: salts for which Add has returned true
  acceptedAgain,  \* history: salts for which it has done so again
  firstCheck      \* firstCheck[s]: history: when the request that was the first
                  \* to be accepted with salt s had its timestamp checked

pending == <<pc, salt, start, stamp>>
poolVars == <<pool, added, lastCleanup, acceptedSalts, acceptedAgain, firstCheck>>
saltVars == <<time, requests, requestTime, pending, poolVars>>

PoolInit ==
  /\ time = 0
  /\ requests = {}
  /\ requestTime = [s \in Salts |-> 0]
  /\ pc = [h \in Handlers |-> "idle"]
  /\ \E s \in Salts : salt = [h \in Handlers |-> s]    \* unused while idle
  /\ start = [h \in Handlers |-> 0]
  /\ stamp = [h \in Handlers |-> 0]
  /\ pool = {}
  /\ added = [s \in Salts |-> 0]
  /\ lastCleanup = 0
  /\ acceptedSalts = {} /\ acceptedAgain = {}
  /\ firstCheck = [s \in Salts |-> 0]

PoolTick ==
  /\ time < MaxTime
  /\ \A h \in Handlers : pc[h] # "idle" => time < start[h] + HandlerTicks
  /\ time' = time + 1
  /\ UNCHANGED <<requests, requestTime, pending, poolVars>>

(* A client sends request s with its own clock's time. *)
Send(s) ==
  /\ s \notin requests
  /\ requests' = requests \union {s}
  /\ \E skew \in Skews : requestTime' = [requestTime EXCEPT ![s] = Unix(time) + skew]
  /\ UNCHANGED <<time, pending, poolVars>>

(* The handler reads a request and finds its timestamp in range.  Out of   *)
(* range, the connection is refused and nothing changes.                   *)
Validate(h, s) ==
  /\ pc[h] = "idle"
  /\ ValidTimestamp(requestTime[s], time)
  /\ pc' = [pc EXCEPT ![h] = "validated"]
  /\ salt' = [salt EXCEPT ![h] = s]
  /\ start' = [start EXCEPT ![h] = time]
  /\ UNCHANGED <<time, requests, requestTime, stamp, poolVars>>

(* Add: now := time.Now(), outside the mutex. *)
ReadClock(h) ==
  /\ pc[h] = "validated"
  /\ pc' = [pc EXCEPT ![h] = "stamped"]
  /\ stamp' = [stamp EXCEPT ![h] = time]
  /\ UNCHANGED <<time, requests, requestTime, salt, start, poolVars>>

CleanupDue(n) == n - lastCleanup > Retention

(* bug: an entry is dropped as soon as it is Retention old *)
Expired_Early(n) == {s \in pool : n - added[s] >= Retention}

(* bug: the cleanup never removes anything *)
Expired_None(n) == {}

Expired(n) == {s \in pool : n - added[s] > Retention}

(* The pool after the cleaning an Add with time n begins with. *)
Cleaned(n) == IF CleanupDue(n) THEN pool \ Expired(n) ELSE pool

(* bug: the pool is not consulted *)
Found_Never(h) == FALSE

Found(h) == salt[h] \in Cleaned(stamp[h])

(* Add under the mutex, from Lock to the deferred Unlock. *)
AddLocked(h) ==
  LET s == salt[h]
      n == stamp[h]
  IN  /\ pc[h] = "stamped"
      /\ pc' = [pc EXCEPT ![h] = "idle"]
      /\ lastCleanup' = IF CleanupDue(n) THEN n ELSE lastCleanup
      /\ \/ /\ Found(h)
            /\ pool' = Cleaned(n)
            /\ UNCHANGED <<added, acceptedSalts, acceptedAgain, firstCheck>>
         \/ /\ ~ Found(h)
            /\ pool' = Cleaned(n) \union {s}
            /\ added' = [added EXCEPT ![s] = n]
            /\ acceptedSalts' = acceptedSalts \union {s}
            /\ acceptedAgain' = acceptedAgain \union ({s} \intersect acceptedSalts)
            /\ firstCheck' = IF s \in acceptedSalts THEN firstCheck
                             ELSE [firstCheck EXCEPT ![s] = start[h]]
      /\ UNCHANGED <<time, requests, requestTime, salt, start, stamp>>

PoolNext ==
  \/ PoolTick
  \/ \E s \in Salts : Send(s)
  \/ \E h \in Handlers : \/ \E s \in requests : Validate(h, s)
                         \/ ReadClock(h)
                         \/ AddLocked(h)

PoolSpec == PoolInit /\ [][PoolNext]_saltVars

-----------------------------------------------------------------------------

(* The pool's entries are salts that were accepted. *)
PoolTypeOK ==
  /\ time \in 0 .. MaxTime
  /\ requests \subseteq Salts /\ requestTime \in [Salts -> Int]
  /\ pc \in [Handlers -> {"idle", "validated", "stamped"}]
  /\ salt \in [Handlers -> Salts]
  /\ start \in [Handlers -> 0 .. MaxTime]
  /\ stamp \in [Handlers -> 0 .. MaxTime]
  /\ pool \subseteq acceptedSalts /\ acceptedSalts \subseteq Salts /\ acceptedAgain \subseteq acceptedSalts
  /\ added \in [Salts -> 0 .. MaxTime]
  /\ lastCleanup \in 0 .. MaxTime
  /\ firstCheck \in [Salts -> 0 .. MaxTime]

(* No time the pool or a handler keeps is ahead of the clock. *)
TimesPast ==
  /\ lastCleanup <= time
  /\ \A s \in Salts : added[s] <= time /\ firstCheck[s] <= time
  /\ \A h \in Handlers : start[h] <= time /\ stamp[h] <= time

(* "the minimum amount of time during which an added salt is guaranteed to *)
(* stay in the pool": an accepted salt is missing from the pool only when  *)
(* Retention has passed since the Add that put it there, even when another *)
(* handler with an older or a newer time cleans the pool meanwhile.        *)
ForgottenOnlyAfterRetention ==
  \A s \in acceptedSalts \ pool : time - added[s] > Retention

(* The pool does not grow without bound: no Add leaves an entry in it that *)
(* is more than two retentions older than the Add.                         *)
EntriesLeaveInTime ==
  [][\A h \in Handlers :
       pc[h] = "stamped" /\ pc'[h] = "idle" =>
         \A s \in pool' : stamp[h] - added'[s] <= 2 * Retention]_saltVars

(* "ReplayWindowDuration defines the amount of time during which a salt    *)
(* check is necessary" (header.go:58): a request is accepted at most once, *)
(* because the pool holds its salt while its timestamp is in range.        *)
RequestsAcceptedOnce == acceptedAgain = {}

(* What the retention does guarantee: a request is accepted again only if  *)
(* its timestamp was as far ahead of the server's clock as is accepted     *)
(* when it was first checked (less the time a handler takes).  Timestamps  *)
(* are compared in whole seconds, so that only such a one is in range for  *)
(* more than the retention; all other requests are accepted once, however  *)
(* often the network repeats them.                                         *)
RepeatedOnlyFromAhead ==
  \A s \in acceptedAgain :
    requestTime[s] - Unix(firstCheck[s] + 1 - HandlerTicks) >= MaxEpochDiff
=============================================================================
