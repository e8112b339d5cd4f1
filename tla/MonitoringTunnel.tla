--------------------------- MODULE MonitoringTunnel ---------------------------
(***************************************************************************)
(* The GRE tunnel that takes the mirrored packets from the users' switch   *)
(* to the monitoring machine.  M6 keeps its flows: those of a fixed route, *)
(* or, when a failure it is told of touches that route, those of a route   *)
(* around the failure.                                                     *)
(*                                                                         *)
(* An event of a failure is handled by a thread that reads ONOS, deletes   *)
(* and installs one flow at a time; a request of the administrator, or the *)
(* start of M6, does the same without a failure and deletes nothing.  Two  *)
(* events may be handled at once, and so may an event and a request; none  *)
(* of it survives M6.                                                      *)
(***************************************************************************)
EXTENDS Topology

CONSTANTS
    Wires,          \* the links there are when nothing has failed
    BaseRoute,      \* the switches of MONITORING_GRE_FLOWS, in order
    Handlers,       \* M6's request handlers at work at the same time
    Frail,          \* bound: the links and switches that may fail
    Changes,        \* bound: how often the topology changes
    Requests,       \* bound: how often the administrator asks for the tunnel or M6 starts
    Faults          \* bound: how often something else goes wrong

\* The fixed route is a way through the network there is, and visits no switch twice.
ASSUME TunnelConstants ==
    /\ Wires \subseteq Links
    /\ BaseRoute \in Seq(Switches) /\ Len(BaseRoute) > 1
    /\ \A i \in 1..Len(BaseRoute) - 1 : <<BaseRoute[i], BaseRoute[i + 1]>> \in Wires
    /\ \A i, k \in 1..Len(BaseRoute) : BaseRoute[i] = BaseRoute[k] => i = k
    /\ Frail \subseteq Wires \cup Switches
    /\ Changes \in Nat /\ Requests \in Nat /\ Faults \in Nat

VARIABLES
    up,             \* the links ONOS lists as active
    away,           \* the switches that are not available
    events,         \* failures on their way to M6, one at a time
    flows,          \* the flows of the tunnel in ONOS
    pc, job,        \* where each handler is, and what it works on
    changes, requests, faults,
    excused         \* history: something has happened that M6 does not make good

network == <<up, away, changes>>
bounds == <<requests, faults>>
vars == <<network, events, flows, pc, job, bounds, excused>>

Source == BaseRoute[1]                  \* MONITORING_GRE_SOURCE_DEVICE
Egress == BaseRoute[Len(BaseRoute)]     \* MONITORING_GRE_EGRESS_DEVICE

\* A failure: of a link, of a switch, or none.
NoFailure == [devices |-> {}, links |-> {}]

\* No job: cleanup is cleanup_conflicts, again says that recuperar_failover ensures the
\* tunnel once more.
Idle == [failed |-> NoFailure, cleanup |-> FALSE, again |-> FALSE,
         route |-> <<>>, at |-> 1, doomed |-> {}]

\* t0_monitoring_gre_flow, for a step of a route; the first has no port to come in by.
Flow(route, i) == [at |-> route[i], in |-> InPort(route, i), out |-> OutPort(route, i)]
SameSelector(f, g) == f.at = g.at /\ f.in = g.in

\* ONOS keeps one flow for a selector.
Replaced(f) == {g \in flows : ~SameSelector(f, g)} \cup {f}

Carries(a, b) == <<a, b>> \in up /\ {a, b} \cap away = {}

\* Where the mirrored packets go: a set that has the flows at their source, and with a
\* flow those behind the link it sends them over.
Entered(f) == f.at = Source /\ f.in = Outside
SendsTo(g, f) == Carries(g.at, g.out) /\ f.at = g.out /\ f.in = g.at
Followed(S) == \A f \in flows : Entered(f) \/ (\E g \in S : SendsTo(g, f)) => f \in S

\* Whether they get to the monitoring machine.
Delivers(f) == f.at = Egress /\ f.out = Outside
Reaches == \A S \in SUBSET flows : Followed(S) => \E f \in S : Delivers(f)

Settled == events = <<>> /\ \A h \in Handlers : pc[h] = "idle"

Init ==
    /\ up = Wires /\ away = {} /\ events = <<>>
    /\ flows = {Flow(BaseRoute, i) : i \in 1..Len(BaseRoute)}
    /\ pc = [h \in Handlers |-> "idle"] /\ job = [h \in Handlers |-> Idle]
    /\ changes = 0 /\ requests = 0 /\ faults = 0 /\ excused = FALSE

-----------------------------------------------------------------------------
(***************************************************************************)
(* The network, and the events the application in ONOS sends of it         *)
(***************************************************************************)
Change == changes < Changes /\ changes' = changes + 1

\* A route that uses the failure is being installed right now.
Late(e) == \E h \in Handlers : UsesFailure(job[h].route, e.devices, e.links)

Report(e) == events' = Append(events, e) /\ excused' = (excused \/ Late(e))

LinkFails(l) ==
    /\ Change /\ l \in up
    /\ up' = up \ {l}
    /\ Report([NoFailure EXCEPT !.links = {l}])
    /\ UNCHANGED <<away, flows, pc, job, bounds>>

DeviceFails(d) ==
    /\ Change /\ d \notin away
    /\ away' = away \cup {d}
    /\ Report([NoFailure EXCEPT !.devices = {d}])
    /\ UNCHANGED <<up, flows, pc, job, bounds>>

\* What comes back is not reported: a tunnel that is broken stays so.
Returns ==
    /\ Change
    /\ \/ \E l \in Wires \ up : up' = up \cup {l} /\ UNCHANGED away
       \/ \E d \in away : away' = away \ {d} /\ UNCHANGED up
    /\ excused' = (excused \/ (Settled /\ ~Reaches))
    /\ UNCHANGED <<events, flows, pc, job, bounds>>

Fault == faults < Faults /\ faults' = faults + 1 /\ excused' = TRUE

\* The application suppresses or drops it, or it cannot be posted.
EventLost ==
    /\ events # <<>> /\ events' = Tail(events)
    /\ Fault
    /\ UNCHANGED <<network, flows, pc, job, requests>>

\* procesar_failover_event: if sessions can be recovered the tunnel is ensured twice.  The
\* application waits 15 s for the answer and then posts the next event, whatever M6 is
\* still doing about this one.
Post(h) ==
    /\ pc[h] = "idle" /\ events # <<>>
    /\ events' = Tail(events)
    /\ \E again \in BOOLEAN :
          job' = [job EXCEPT ![h] = [Idle EXCEPT !.failed = Head(events),
                                                 !.cleanup = TRUE, !.again = again]]
    /\ pc' = [pc EXCEPT ![h] = "plan"]
    /\ UNCHANGED <<network, flows, bounds, excused>>

\* endpoint_monitoring_ensure_gre.
Ensure(h) ==
    /\ pc[h] = "idle" /\ requests < Requests
    /\ requests' = requests + 1
    /\ pc' = [pc EXCEPT ![h] = "plan"]
    /\ UNCHANGED <<network, events, flows, job, faults, excused>>

\* M6 is started again, and what it was doing is left where it was: it ensures the tunnel
\* if MONITORING_GRE_INSTALL_ON_STARTUP says so.
Restart(h) ==
    /\ requests < Requests /\ requests' = requests + 1
    /\ job' = [k \in Handlers |-> Idle]
    /\ \/ /\ pc' = [k \in Handlers |-> IF k = h THEN "plan" ELSE "idle"]
          /\ UNCHANGED excused
       \/ /\ \E k \in Handlers : pc[k] # "idle"
          /\ pc' = [k \in Handlers |-> "idle"]
          /\ excused' = TRUE
    /\ UNCHANGED <<network, events, flows, faults>>

-----------------------------------------------------------------------------
(***************************************************************************)
(* _monitoring_gre_plan                                                    *)
(***************************************************************************)
GoTo(h, there) == pc' = [pc EXCEPT ![h] = there]

\* Mutated form of StaticAffected: only a failed switch counts.
StaticAffectedDevice(e) == UsesFailure(BaseRoute, e.devices, {})

\* _monitoring_gre_static_afectado
StaticAffected(e) == UsesFailure(BaseRoute, e.devices, e.links)

\* A link of the route does not carry, and this failure is not the reason.
StillBroken(route, e) ==
    \E i \in 1..Len(route) - 1 :
        /\ ~Carries(route[i], route[i + 1])
        /\ <<route[i], route[i + 1]>> \notin Ends(e.links)
        /\ {route[i], route[i + 1]} \cap e.devices = {}

Follow(h, route) ==
    /\ job' = [job EXCEPT ![h].route = route, ![h].at = 1]
    /\ GoTo(h, IF job[h].cleanup THEN "clean" ELSE "look")

\* This round is over: there may be another.
Ended(h) ==
    IF job[h].again
    THEN /\ job' = [job EXCEPT ![h] = [Idle EXCEPT !.failed = job[h].failed, !.cleanup = TRUE]]
         /\ GoTo(h, "plan")
    ELSE /\ job' = [job EXCEPT ![h] = Idle]
         /\ GoTo(h, "idle")

\* The fixed route, when this failure does not touch it, whatever failed before.
PlanStatic(h) ==
    /\ pc[h] = "plan" /\ ~StaticAffected(job[h].failed)
    /\ Follow(h, BaseRoute)
    /\ excused' = (excused \/ StillBroken(BaseRoute, job[h].failed))
    /\ UNCHANGED <<network, events, flows, bounds>>

\* What M6 leaves out carries: it has come back, or is the other way of the link.
LeftOut(e) == \E l \in up \ Remaining(up, e.devices, e.links) : Carries(l[1], l[2])

\* A route without the failure, or else the flows are left as they are.  The links of a
\* switch that is not available may be listed still.
PlanDynamic(h) ==
    LET e == job[h].failed
        route == Path(Remaining(up, e.devices, e.links), Source, Egress)
    IN /\ pc[h] = "plan" /\ StaticAffected(e)
       /\ IF route = <<>> \/ {Source, Egress} \cap e.devices # {} THEN Ended(h)
          ELSE Follow(h, route)
       /\ excused' = (excused \/ StillBroken(route, e)
                                \/ (route = <<>> /\ LeftOut(e) /\ ~Reaches))
       /\ UNCHANGED <<network, events, flows, bounds>>

\* No links can be read, so that there is no route.
LinksUnread(h) ==
    /\ pc[h] = "plan" /\ StaticAffected(job[h].failed)
    /\ Ended(h)
    /\ Fault
    /\ UNCHANGED <<network, events, flows, requests>>

-----------------------------------------------------------------------------
(***************************************************************************)
(* asegurar_monitoring_gre                                                 *)
(***************************************************************************)
Hop(h) == Flow(job[h].route, job[h].at)

\* On to the next switch of the route, and after the last one to the next thing.
Forward(h, there, last) ==
    IF job[h].at < Len(job[h].route)
    THEN job' = [job EXCEPT ![h].at = @ + 1, ![h].doomed = {}] /\ GoTo(h, there)
    ELSE last

\* _limpiar_monitoring_gre_conflictivos: the other flows of the tunnel at the switch.
Conflicts(h) ==
    /\ pc[h] = "clean"
    /\ job' = [job EXCEPT ![h].doomed = {f \in flows : f.at = Hop(h).at /\ f # Hop(h)}]
    /\ GoTo(h, "delete")
    /\ UNCHANGED <<network, events, flows, bounds, excused>>

Delete(h) ==
    /\ pc[h] = "delete"
    /\ \E f \in job[h].doomed :
          /\ flows' = {g \in flows : ~SameSelector(f, g)}
          /\ job' = [job EXCEPT ![h].doomed = @ \ {f}]
    /\ UNCHANGED <<network, events, pc, bounds, excused>>

DeleteFails(h) ==
    /\ pc[h] = "delete"
    /\ \E f \in job[h].doomed : job' = [job EXCEPT ![h].doomed = @ \ {f}]
    /\ Fault
    /\ UNCHANGED <<network, events, flows, pc, requests>>

Deleted(h) ==
    /\ pc[h] = "delete" /\ job[h].doomed = {}
    /\ Forward(h, "clean", job' = [job EXCEPT ![h].at = 1] /\ GoTo(h, "look"))
    /\ UNCHANGED <<network, events, flows, bounds, excused>>

AlreadyPresent(h) ==
    /\ pc[h] = "look" /\ Hop(h) \in flows
    /\ Forward(h, "look", Ended(h))
    /\ UNCHANGED <<network, events, flows, bounds, excused>>

Missing(h) ==
    /\ pc[h] = "look" /\ Hop(h) \notin flows
    /\ GoTo(h, "install")
    /\ UNCHANGED <<network, events, flows, job, bounds, excused>>

Install(h) ==
    /\ pc[h] = "install"
    /\ flows' = Replaced(Hop(h))
    /\ Forward(h, "look", Ended(h))
    /\ UNCHANGED <<network, events, bounds, excused>>

\* ONOS does not answer, and may have installed it.
InstallFails(h) ==
    /\ pc[h] = "install"
    /\ flows' \in {flows, Replaced(Hop(h))}
    /\ Forward(h, "look", Ended(h))
    /\ Fault
    /\ UNCHANGED <<network, events, requests>>

Next ==
    \/ \E l \in Wires \cap Frail : LinkFails(l)
    \/ \E d \in Switches \cap Frail : DeviceFails(d)
    \/ Returns \/ EventLost
    \/ \E h \in Handlers :
          \/ Post(h) \/ Ensure(h) \/ Restart(h)
          \/ PlanStatic(h) \/ PlanDynamic(h) \/ LinksUnread(h)
          \/ Conflicts(h) \/ Delete(h) \/ DeleteFails(h) \/ Deleted(h)
          \/ AlreadyPresent(h) \/ Missing(h) \/ Install(h) \/ InstallFails(h)

Spec == Init /\ [][Next]_vars

-----------------------------------------------------------------------------
(***************************************************************************)
(* Properties                                                              *)
(***************************************************************************)
Connected == Path({l \in up : l[1] \notin away /\ l[2] \notin away}, Source, Egress) # <<>>

\* Once M6 has dealt with the failures it was told of, the mirrored packets arrive when
\* there is any way for them (procesar_failover_event, 4168).  Excused is a tunnel that
\* was being installed when its route failed, or that was put back on the fixed route
\* while a link of it was still broken since an earlier failure (1824), or over a switch
\* that has gone but whose links are listed; one left broken because the only way is one
\* the failure has named and that carries again (1712); one that nothing was told of
\* (what comes back, an event that is lost); one ONOS has failed for; and one M6 was
\* moving when it ended, if it does not ensure the tunnel when it starts (6038).
TunnelStands == Settled /\ ~excused /\ Connected => Reaches

\* "GRE se reaseguro solo si era necesario por la topologia actual" (4108): dealing with
\* a failure never moves the tunnel from a route that works to one that does not.  The
\* code does not ensure it, and no run checks it: of two failures the second moves the
\* tunnel back onto the first.
MovedIfNeeded ==
    [][\A h \in Handlers : PlanStatic(h) /\ Reaches =>
          \A i \in 1..Len(BaseRoute) - 1 : Carries(BaseRoute[i], BaseRoute[i + 1])]_vars
=============================================================================
