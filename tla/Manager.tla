------------------------------ MODULE Manager ------------------------------
(***************************************************************************)
(* The life of the process: main, the service manager and what it manages  *)
(* (cmd/shadowsocks-go/main.go, service/service.go).  The manager creates  *)
(* clients, resolvers, the router and the services in this order, starts   *)
(* the services one by one, and after a signal stops them one by one and   *)
(* closes the router.                                                      *)
(*                                                                         *)
(* A service is taken as TCPRelay and the UDP relays' modules show it:     *)
(* while it is started it opens sessions, a session asks the router for a  *)
(* client and then relays.  Stop of a TCP service only waits for the       *)
(* accept loop, Stop of a UDP service also for the sessions that relay;    *)
(* a UDP session that leaves the router of a stopped service gives up.     *)
(***************************************************************************)
EXTENDS Naturals, FiniteSets

CONSTANTS
    N,          \* number of services
    UDP,        \* which of the services 1..N are UDP relays
    Sessions    \* sessions of each service

ManagerConstants == N \in Nat \ {0} /\ UDP \subseteq 1..N

Services == 1..N

VARIABLES
    main,       \* what main is doing
    next,       \* the service Start or Stop is at
    service,    \* each service: "new", "started", "stopping", "swept" or "stopped"
    session,    \* each session of each service: "none", "routing", "relaying", "done"
    router,     \* "none", "open" or "closed"
    notified,   \* signal.Notify was called
    signal,     \* a signal was sent to the process
    testConf    \* the -testConf flag

vars == <<main, next, service, session, router, notified, signal, testConf>>

Init ==
    /\ main = "clients"
    /\ next = 1
    /\ service = [i \in Services |-> "new"]
    /\ session = [i \in Services |-> [c \in Sessions |-> "none"]]
    /\ router = "none"
    /\ notified = FALSE
    /\ signal = FALSE
    /\ testConf \in BOOLEAN

---------------------------------------------------------------------------
(* Config.Manager.                                                         *)

(* Clients, then the resolvers that use them, then the router that uses    *)
(* both; router.Router may open the GeoIP database.                        *)
Create ==
    \/ /\ main = "clients" /\ main' = "dns" /\ UNCHANGED router
    \/ /\ main = "dns" /\ main' = "router" /\ UNCHANGED router
    \/ /\ main = "router" /\ main' = "services" /\ router' = "open"

(* Creating a part fails: logger.Fatal exits without deferred calls. *)
CreateFails ==
    /\ main \in {"clients", "dns", "router", "services"}
    /\ main' = "fatal"
    /\ UNCHANGED <<next, service, session, router, notified, signal, testConf>>

CreatePart == Create /\ UNCHANGED <<next, service, session, notified, signal, testConf>>

(* The services are created; with -testConf main returns. *)
CreateServices ==
    /\ main = "services"
    /\ main' = IF testConf THEN "closing" ELSE "starting"
    /\ UNCHANGED <<next, service, session, router, notified, signal, testConf>>

---------------------------------------------------------------------------
(* Manager.Start, the wait for a signal, Manager.Stop and Close.           *)

StartService ==
    /\ main = "starting" /\ next <= N
    /\ service' = [service EXCEPT ![next] = "started"]
    /\ next' = next + 1
    /\ UNCHANGED <<main, session, router, notified, signal, testConf>>

(* A service does not start: logger.Fatal. *)
StartFails ==
    /\ main = "starting" /\ next <= N
    /\ main' = "fatal"
    /\ UNCHANGED <<next, service, session, router, notified, signal, testConf>>

(* Every service is started: main asks for signals. *)
Notify ==
    /\ main = "starting" /\ next > N
    /\ main' = "waiting"
    /\ notified' = TRUE
    /\ UNCHANGED <<next, service, session, router, signal, testConf>>

(* SIGINT or SIGTERM; before signal.Notify it ends the process. *)
Signal ==
    /\ ~signal /\ main \notin {"fatal", "killed", "exited"}
    /\ signal' = TRUE
    /\ main' = IF notified THEN main ELSE "killed"
    /\ UNCHANGED <<next, service, session, router, notified, testConf>>

StopBegin ==
    /\ main = "waiting" /\ signal
    /\ main' = "stopping"
    /\ next' = 1
    /\ UNCHANGED <<service, session, router, notified, signal, testConf>>

(* s.Stop of the next service: its listener or server conn gets a deadline *)
(* in the past.                                                            *)
StopService ==
    /\ main = "stopping" /\ next <= N
    /\ service[next] = "started"
    /\ service' = [service EXCEPT ![next] = "stopping"]
    /\ UNCHANGED <<main, next, session, router, notified, signal, testConf>>

(* Its accept or receive loop has returned, and a UDP service has told its *)
(* sessions to end.                                                        *)
SweepService ==
    /\ main = "stopping" /\ next <= N
    /\ service[next] = "stopping"
    /\ service' = [service EXCEPT ![next] = "swept"]
    /\ UNCHANGED <<main, next, session, router, notified, signal, testConf>>

(* The sessions Stop waits for. *)
Waits(i) == IF i \in UDP THEN {c \in Sessions : session[i][c] = "relaying"} ELSE {}

(* s.Stop returns; an error is logged and changes nothing. *)
StopReturns ==
    /\ main = "stopping" /\ next <= N
    /\ service[next] = "swept" /\ Waits(next) = {}
    /\ service' = [service EXCEPT ![next] = "stopped"]
    /\ next' = next + 1
    /\ UNCHANGED <<main, session, router, notified, signal, testConf>>

StopEnds ==
    /\ main = "stopping" /\ next > N
    /\ main' = "closing"
    /\ UNCHANGED <<next, service, session, router, notified, signal, testConf>>

(* The deferred Manager.Close closes the router, and main returns. *)
Close ==
    /\ main = "closing" /\ router = "open"
    /\ router' = "closed"
    /\ UNCHANGED <<main, next, service, session, notified, signal, testConf>>

Exit ==
    /\ main = "closing" /\ router = "closed"
    /\ main' = "exited"
    /\ UNCHANGED <<next, service, session, router, notified, signal, testConf>>

---------------------------------------------------------------------------
(* The sessions of the services, while the process runs.                   *)

Running == main \notin {"fatal", "killed", "exited"}

To(i, c, s) == session' = [session EXCEPT ![i][c] = s]

Others == UNCHANGED <<main, next, service, router, notified, signal, testConf>>

(* A connection or a packet opens a session, which asks the router.  The   *)
(* accept or receive loop may return one more while Stop waits for it.     *)
Open(i, c) ==
    /\ Running /\ service[i] \in {"started", "stopping"} /\ session[i][c] = "none"
    /\ To(i, c, "routing")
    /\ Others

(* The router answers with a client; a UDP session starts only if Stop has *)
(* not passed it.  UDP services are session and NAT relays here: Stop of a *)
(* transparent relay panics on such a session (UDPTransparentRelay).       *)
Routed(i, c) ==
    /\ Running /\ session[i][c] = "routing"
    /\ To(i, c, IF i \in UDP /\ service[i] \in {"swept", "stopped"} THEN "done" ELSE "relaying")
    /\ Others

RouterRejects(i, c) ==
    /\ Running /\ session[i][c] = "routing"
    /\ To(i, c, "done")
    /\ Others

(* A relay ends by itself, or because its service is being stopped. *)
RelayEnds(i, c) ==
    /\ Running /\ session[i][c] = "relaying"
    /\ To(i, c, "done")
    /\ Others

SessionStep(i, c) == Open(i, c) \/ Routed(i, c) \/ RouterRejects(i, c) \/ RelayEnds(i, c)

MainStep ==
    \/ CreatePart \/ CreateFails \/ CreateServices \/ StartService \/ StartFails \/ Notify
    \/ StopBegin \/ StopService \/ SweepService \/ StopReturns \/ StopEnds \/ Close \/ Exit

(* The process has ended. *)
Finished == ~Running /\ UNCHANGED vars

Next == MainStep \/ Signal \/ (\E i \in Services, c \in Sessions : SessionStep(i, c)) \/ Finished

(* main runs; a UDP session of a service that is being stopped ends, as    *)
(* the UDP relays' modules show.  Nothing is assumed of the router, of TCP *)
(* connections or of a signal being sent.                                  *)
Fairness ==
    /\ WF_vars(MainStep)
    /\ \A i \in UDP, c \in Sessions : WF_vars(service[i] = "swept" /\ RelayEnds(i, c))

Spec == Init /\ [][Next]_vars /\ Fairness

---------------------------------------------------------------------------
(* Properties.                                                             *)

(* When the router is closed every service that was started has been       *)
(* stopped, whichever Stop failed, and no UDP session relays any more: its *)
(* in-flight packets are out before the process ends.                      *)
ClosedAfterServices ==
    router = "closed" =>
        /\ \A i \in Services : service[i] \in {"new", "stopped"}
        /\ \A i \in UDP, c \in Sessions : session[i][c] # "relaying"

(* A service that is stopped stays stopped, and its UDP sessions that come *)
(* out of the router late do not begin to relay.                           *)
StoppedForGood ==
    [][\A i \in UDP : service[i] = "stopped" =>
          /\ service'[i] = "stopped"
          /\ \A c \in Sessions : session'[i][c] = "relaying" => session[i][c] = "relaying"]_vars

(* A signal ends the process, whatever TCP connections and the router do. *)
SignalExits == signal ~> ~Running

(* "Stop stops all running services": when the manager has stopped them    *)
(* and closes the router, no session of theirs still uses it.              *)
RouterOpenWhileUsed ==
    (router = "closed" /\ main # "exited") =>
        \A i \in Services, c \in Sessions : session[i][c] # "routing"

=============================================================================
