------------------------------- MODULE Failover -------------------------------
(***************************************************************************)
(* The ways of the sessions through the network: installed on a packet-in, *)
(* shared by the sessions that use the same stretch, and installed again   *)
(* by M6 when the topology-events application in ONOS tells it of a link   *)
(* or a switch that failed.                                                *)
(*                                                                         *)
(* M6's handlers are threads and talk to ONOS between two uses of the      *)
(* lock.  The application posts one event at a time.                       *)
(***************************************************************************)
EXTENDS Topology

CONSTANTS
    Wires,          \* the links there are when nothing has failed
    Sessions,       \* active sessions, each with one permission
    Handlers,       \* M6's request handlers at work at the same time
    Nobody,         \* no handler
    QueueCap,       \* EVENT_QUEUE_CAPACITY
    DedupWindow,    \* PACKET_IN_DEDUP_WINDOW, in ticks
    Limits,         \* the values that FAILOVER_RECOVERY_MAX_SESSIONS may have
    Overlap,        \* whether a packet-in may come while one like it is served
    Frail,          \* bound: the links and switches that may fail
    Losses,         \* bound: what becomes of a link that fails
    Changes,        \* bound: how often the topology changes or M6 starts again
    Faults          \* bound: how often something else goes wrong

\* The host's switch and the server's; T2 permissions of the same VLAN, server and
\* port are of the same resource, T3 permissions are a session's own.  A host has one
\* session.
ASSUME FailoverConstants ==
    /\ Wires \subseteq Links /\ Sessions # {}
    /\ \A s \in Sessions : /\ s.entry \in Switches /\ s.exit \in Switches \ {s.entry}
                           /\ s.table \in {"T2", "T3"}
                           /\ \A t \in Sessions : s.host = t.host => s = t
    /\ Nobody \notin Handlers
    /\ QueueCap \in Nat \ {0} /\ DedupWindow \in Nat
    /\ Limits \subseteq Nat \ {0} /\ Limits # {}
    /\ Overlap \in BOOLEAN
    /\ Frail \subseteq Wires \cup Switches /\ Losses \subseteq {"inactive", "gone"}
    /\ Changes \in Nat /\ Faults \in Nat

VARIABLES
    link,           \* what ONOS knows of each link
    away,           \* the switches that are not available
    told,           \* recentlySent: the events sent so far
    queue,          \* events that wait to be posted
    posting,        \* the handler whose answer the application waits for
    flows,          \* the flows in ONOS
    shared,         \* flows_t0_shared
    cached,         \* flows_por_sesion, and session_gates
    records,        \* path_records
    handled,        \* _failover_event_seen
    cooling,        \* _failover_recovery_seen
    seen,           \* _packet_in_seen: the ticks left of the window
    pc, job,        \* where each handler is, and what it works on
    changes, faults,
    excused,        \* history: sessions that something has gone wrong with
    promised,       \* history: sessions a path was installed for
    forgotten       \* history: flows that a restart of M6 left behind unknown

network == <<link, away, changes>>
application == <<told, queue, posting>>
dictionaries == <<shared, cached, records>>
marks == <<handled, cooling, seen>>
bounds == <<faults>>
history == <<excused, promised, forgotten>>
vars == <<network, application, flows, dictionaries, marks, pc, job, bounds, history>>

\* One failure per event: of a link, or of a switch.
Event == [devices : SUBSET Switches, links : SUBSET Links]
NoEvent == [devices |-> {}, links |-> {}]

Listed == {l \in Links : link[l] # "gone"}
Active == {l \in Links : link[l] = "active"}

-----------------------------------------------------------------------------
(***************************************************************************)
(* FlowBuilder.  A flow is told apart by its switch and its selector; out  *)
(* stands for its treatment.  Where the selector has no port, in is Outside*)
(* as it is for the ports of hosts and servers.                            *)
(***************************************************************************)
Flow(at, in, sel, out) == [at |-> at, in |-> in, sel |-> sel, out |-> out]
SameSelector(f, g) == f.at = g.at /\ f.in = g.in /\ f.sel = g.sel

GateFlow(s) == Flow(s.entry, Outside, <<"gate", s.host>>, Outside)

\* The flow that lets the session's packets out of its switch.
EdgeFlow(s, out) ==
    IF s.table = "T2" THEN Flow(s.entry, Outside, <<"edge", s.resource>>, out)
                      ELSE Flow(s.entry, Outside, <<"allow", s.host>>, out)

\* The flows of the way there and of the way back.
There(s, path) ==
    {EdgeFlow(s, OutPort(path, 1))} \cup
    {IF i = Len(path)
     THEN Flow(path[i], InPort(path, i), <<"deliver", s.host>>, Outside)
     ELSE Flow(path[i], InPort(path, i), <<"to", s.server>>, OutPort(path, i))
       : i \in 2..Len(path)}

Answer(s) == Flow(s.exit, Outside, <<"answer", s.host>>, Outside)

Back(s, path) ==
    {Answer(s)} \cup
    {IF i \in {1, Len(path)}
     THEN Flow(path[i], InPort(path, i), <<"return", s.host>>, OutPort(path, i))
     ELSE Flow(path[i], InPort(path, i), <<"from", s.server>>, OutPort(path, i))
       : i \in 1..Len(path)}

\* What all sessions use is in flows_t0_shared, with a key that has the output too.
IsShared(f) == f.sel[1] \in {"edge", "to", "from"}

Installed(f) == \E g \in flows : SameSelector(f, g)

\* Mutated form of Replaced: the flow comes on top of the others.
ReplacedAdd(f) == flows \cup {f}

\* ONOS keeps one flow for a selector.
Replaced(f) == {g \in flows : ~SameSelector(f, g)} \cup {f}

-----------------------------------------------------------------------------
(***************************************************************************)
(* Where a session's packets get to, there or back: at each switch by the  *)
(* flow that matches, over links that carry.                               *)
(***************************************************************************)
Carries(a, b) == <<a, b>> \in Active /\ {a, b} \cap away = {}

Selector(s, way, at) ==
    CASE way = "there" /\ at = s.entry -> EdgeFlow(s, Outside).sel
      [] way = "there" /\ at # s.entry -> <<"to", s.server>>
      [] way = "back" /\ at = s.exit   -> <<"return", s.host>>
      [] way = "back" /\ at # s.exit   -> <<"from", s.server>>

\* A place is a switch and the port the packet came in by.
Dropped == <<Outside, Outside>>
NextHop(s, way, place) ==
    LET onward == {f \in flows : /\ f.at = place[1] /\ f.in = place[2]
                                 /\ f.sel = Selector(s, way, place[1])
                                 /\ f.out # Outside /\ Carries(f.at, f.out)}
    IN IF onward = {} THEN Dropped
       ELSE <<(CHOOSE f \in onward : TRUE).out, place[1]>>

Arrives(s, way, src, dst, last) ==
    LET hop[n \in Nat] == IF n = 0 THEN <<src, Outside>> ELSE NextHop(s, way, hop[n - 1])
    IN \E n \in 1..Cardinality(Switches) :
          \E f \in flows : f.at = dst /\ hop[n] = <<dst, f.in>> /\ f.sel = last

Whole(s) ==
    /\ Installed(GateFlow(s)) /\ Installed(Answer(s))
    /\ Arrives(s, "there", s.entry, s.exit, <<"deliver", s.host>>)
    /\ Arrives(s, "back", s.exit, s.entry, <<"return", s.host>>)

\* The first switch lets nothing out: the packets become packet-ins.
Shut(s) == ~Installed(GateFlow(s)) \/ ~Installed(EdgeFlow(s, Outside))

-----------------------------------------------------------------------------
(***************************************************************************)
(* Handlers and history                                                    *)
(***************************************************************************)
NoPath == [there |-> <<>>, back |-> <<>>]
Idle == [event |-> NoEvent, plan |-> {}, who |-> CHOOSE s \in Sessions : TRUE,
         planned |-> TRUE, path |-> NoPath, todo |-> {}, doomed |-> {}]

Init ==
    /\ link = [l \in Links |-> IF l \in Wires THEN "active" ELSE "gone"]
    /\ away = {} /\ told = {} /\ queue = <<>> /\ posting = Nobody
    /\ flows = {} /\ shared = {} /\ cached = {}
    /\ records = [s \in Sessions |-> NoPath]
    /\ handled = {} /\ cooling = {} /\ seen = [s \in Sessions |-> 0]
    /\ pc = [h \in Handlers |-> "idle"] /\ job = [h \in Handlers |-> Idle]
    /\ changes = 0 /\ faults = 0 /\ excused = {} /\ promised = {}
    /\ forgotten = {}

GoTo(h, there) == pc' = [pc EXCEPT ![h] = there]

Fault(S) == faults < Faults /\ faults' = faults + 1 /\ excused' = excused \cup S
NoFault == UNCHANGED <<faults, excused>>
Excuse(S) == excused' = excused \cup S

\* A failure, of switches and links.
Touches(path, e) ==
    UsesFailure(path.there, e.devices, e.links) \/ UsesFailure(path.back, e.devices, e.links)

\* Sessions whose path is being installed, and whose path has a failure in it.
Late(e) == {job[h].who : h \in {k \in Handlers : Touches(job[k].path, e)}}
Hit(e) == {s \in Sessions : Touches(records[s], e)} \cup Late(e)

\* Sessions whose path, recorded or in the hands of another handler, loses a flow in F;
\* those in again are about to have theirs recorded anew.
PathFlows(s, path) ==
    IF path = NoPath THEN {} ELSE There(s, path.there) \cup Back(s, path.back)
Robbed(h, again, F) ==
    {s \in Sessions \ again : \E f \in F : f \in PathFlows(s, records[s])} \cup
    {job[k].who : k \in {i \in Handlers \ {h} :
                           \E f \in F : f \in PathFlows(job[i].who, job[i].path)}}

-----------------------------------------------------------------------------
(***************************************************************************)
(* ONOS and its topology-events application                                *)
(***************************************************************************)
\* submit: an event is suppressed when it was sent less than 15 s ago, and dropped
\* when the queue has no room.
Notice(e) ==
    /\ told' = told \cup {e}
    /\ \/ /\ e \in told \/ Len(queue) = QueueCap
          /\ UNCHANGED queue /\ Excuse(Hit(e))
       \/ /\ Len(queue) < QueueCap
          /\ queue' = Append(queue, e) /\ Excuse(Late(e))

Change == changes < Changes /\ changes' = changes + 1

\* LINK_REMOVED, and LINK_UPDATED to a state that is not ACTIVE.
LinkFails(l) ==
    /\ Change /\ link[l] # "gone"
    /\ \E state \in Losses \ {link[l]} : link' = [link EXCEPT ![l] = state]
    /\ Notice([NoEvent EXCEPT !.links = {l}])
    /\ UNCHANGED <<away, posting, flows, dictionaries, marks, pc, job, bounds,
                   promised, forgotten>>

\* DEVICE_AVAILABILITY_CHANGED; its links are reported one by one.
DeviceFails(d) ==
    /\ Change /\ d \notin away
    /\ away' = away \cup {d}
    /\ Notice([NoEvent EXCEPT !.devices = {d}])
    /\ UNCHANGED <<link, posting, flows, dictionaries, marks, pc, job, bounds,
                   promised, forgotten>>

\* What comes back is not reported to M6.
LinkReturns(l) ==
    /\ Change /\ l \in Wires /\ link[l] # "active"
    /\ link' = [link EXCEPT ![l] = "active"]
    /\ UNCHANGED <<away, application, flows, dictionaries, marks, pc, job, bounds, history>>

DeviceReturns(d) ==
    /\ Change /\ d \in away
    /\ away' = away \ {d}
    /\ UNCHANGED <<link, application, flows, dictionaries, marks, pc, job, bounds, history>>

\* postToM6, by the one thread of the application.
Post(h) ==
    /\ posting = Nobody /\ queue # <<>> /\ pc[h] = "idle"
    /\ posting' = h /\ queue' = Tail(queue)
    /\ job' = [job EXCEPT ![h] = [Idle EXCEPT !.event = Head(queue)]]
    /\ GoTo(h, "event")
    /\ UNCHANGED <<network, told, flows, dictionaries, marks, bounds, history>>

\* It is not posted again.
PostFails ==
    /\ posting = Nobody /\ queue # <<>>
    /\ queue' = Tail(queue)
    /\ Fault(Hit(Head(queue)))
    /\ UNCHANGED <<network, told, posting, flows, dictionaries, marks, pc, job,
                   promised, forgotten>>

\* After 15 s the application goes on with the next event, and M6 with this one.
PostTimesOut ==
    /\ posting # Nobody
    /\ posting' = Nobody
    /\ Fault({})
    /\ UNCHANGED <<network, told, queue, flows, dictionaries, marks, pc, job,
                   promised, forgotten>>

Finish(h) ==
    /\ GoTo(h, "idle")
    /\ job' = [job EXCEPT ![h] = Idle]
    /\ posting' = IF posting = h THEN Nobody ELSE posting

-----------------------------------------------------------------------------
(***************************************************************************)
(* procesar_packet_in, for a session that is active and permitted          *)
(***************************************************************************)
Serves(h, s) == pc[h] # "idle" /\ job[h].who = s /\ job[h].event = NoEvent

PacketIn(h, s) ==
    /\ pc[h] = "idle" /\ seen[s] = 0
    /\ Overlap \/ \A k \in Handlers : ~Serves(k, s)
    /\ s.entry \notin away /\ Shut(s)
    /\ seen' = [seen EXCEPT ![s] = DedupWindow]
    /\ job' = [job EXCEPT ![h] = [Idle EXCEPT !.who = s]]
    /\ GoTo(h, "gate")
    /\ UNCHANGED <<network, application, flows, dictionaries, handled, cooling,
                   bounds, history>>

\* Mutated form of AfterDuplicate: a duplicate renews the mark.
AfterDuplicateRenewed(s) == [seen EXCEPT ![s] = DedupWindow]

\* A duplicate leaves the mark as it is.
AfterDuplicate(s) == seen

DuplicatePacketIn(s) ==
    /\ seen[s] > 0 /\ s.entry \notin away /\ Shut(s)
    /\ seen' = AfterDuplicate(s)
    /\ UNCHANGED <<network, application, flows, dictionaries, handled, cooling, pc, job,
                   bounds, history>>

\* ONOS has not learned the server, or does not answer: it is marked nevertheless.
Deferred(s) ==
    /\ Fault({})
    /\ seen[s] = 0 /\ s.entry \notin away /\ Shut(s)
    /\ seen' = [seen EXCEPT ![s] = DedupWindow]
    /\ UNCHANGED <<network, application, flows, dictionaries, handled, cooling, pc, job,
                   promised, forgotten>>

Tick(s) ==
    /\ seen[s] > 0
    /\ seen' = [seen EXCEPT ![s] = @ - 1]
    /\ UNCHANGED <<network, application, flows, dictionaries, handled, cooling, pc, job,
                   bounds, history>>

-----------------------------------------------------------------------------
(***************************************************************************)
(* _instalar_session_gate and _instalar_camino_tcp                         *)
(*                                                                         *)
(* The flows no other session uses are installed, and then noted, in one   *)
(* step each: they do not meet what other handlers do.  Sessions has the   *)
(* gate in detail.                                                         *)
(***************************************************************************)
\* Mutated form of Leave: the sessions that remain to be recovered are forgotten.
LeaveAll(h) == Finish(h)

\* The path of the session is done with.
Leave(h) ==
    IF job[h].event = NoEvent THEN Finish(h)
    ELSE /\ GoTo(h, "plan")
         /\ job' = [job EXCEPT ![h] = [Idle EXCEPT !.event = job[h].event, !.plan = job[h].plan]]
         /\ UNCHANGED posting

InstallGate(h) ==
    /\ pc[h] = "gate"
    /\ flows' = Replaced(GateFlow(job[h].who))
    /\ cached' = cached \cup {GateFlow(job[h].who)}
    /\ forgotten' = {f \in forgotten : ~SameSelector(f, GateFlow(job[h].who))}
    /\ GoTo(h, "route")
    /\ UNCHANGED <<network, application, shared, records, marks, job, bounds,
                   excused, promised>>

\* Whether a link of the path does not carry, though ONOS lists it.
Blind(path) == \E i \in 1..Len(path) - 1 : ~Carries(path[i], path[i + 1])

\* calcular_pasos, there and back, which does not look at the state of the links.
Route(h) ==
    LET s == job[h].who
        there == Path(Listed, s.entry, s.exit)
        back == Path(Listed, s.exit, s.entry)
    IN /\ pc[h] = "route" /\ job[h].planned
       /\ there # <<>> /\ back # <<>>
       /\ job' = [job EXCEPT ![h].path = [there |-> there, back |-> back],
                             ![h].todo = There(s, there) \cup Back(s, back)]
       /\ GoTo(h, "put")
       /\ Excuse(IF Blind(there) \/ Blind(back) THEN {s} ELSE {})
       /\ UNCHANGED <<network, application, flows, dictionaries, marks, bounds,
                      promised, forgotten>>

\* There is no path, or nothing to recover but the gate.
NoRoute(h) ==
    LET s == job[h].who
    IN /\ pc[h] = "route"
       /\ \/ ~job[h].planned
          \/ <<>> \in {Path(Listed, s.entry, s.exit), Path(Listed, s.exit, s.entry)}
       /\ Leave(h)
       /\ Excuse({s})
       /\ UNCHANGED <<network, told, queue, flows, dictionaries, marks, bounds,
                      promised, forgotten>>

\* ONOS does not answer, or has not learned the server.
RouteFails(h) ==
    /\ pc[h] = "route"
    /\ Fault({job[h].who})
    /\ Leave(h)
    /\ UNCHANGED <<network, told, queue, flows, dictionaries, marks, promised, forgotten>>

\* The shared flows one after the other, and then the others.
Common(h) == {f \in job[h].todo : IsShared(f)}
Item(h) == CHOOSE f \in Common(h) : TRUE
Renewed(h) == job[h].plan \cup {job[h].who}
Done(h, F) == job' = [job EXCEPT ![h].todo = @ \ F]

\* _instalar_t0_compartido, under the lock: ONOS is asked for the flow by its name,
\* whatever its treatment is by now.
Reuse(h) ==
    /\ pc[h] = "put" /\ Common(h) # {}
    /\ Item(h) \in shared /\ Installed(Item(h))
    /\ Done(h, {Item(h)})
    /\ Excuse(IF Item(h) \in flows THEN {} ELSE {job[h].who})
    /\ UNCHANGED <<network, application, flows, dictionaries, marks, pc, bounds,
                   promised, forgotten>>

\* The key is there and the flow is not, or ONOS does not answer.
Stale(h) ==
    /\ pc[h] = "put" /\ Common(h) # {}
    /\ Item(h) \in shared
    /\ IF Installed(Item(h)) THEN Fault({}) ELSE NoFault
    /\ shared' = shared \ {Item(h)}
    /\ GoTo(h, "drop")
    /\ UNCHANGED <<network, application, flows, cached, records, marks, job,
                   promised, forgotten>>

Drop(h) ==
    /\ pc[h] = "drop"
    /\ flows' = {f \in flows : ~SameSelector(f, Item(h))}
    /\ GoTo(h, "install")
    /\ Excuse(Robbed(h, Renewed(h), flows \ flows'))
    /\ UNCHANGED <<network, application, dictionaries, marks, job, bounds, promised, forgotten>>

Miss(h) ==
    /\ pc[h] = "put" /\ Common(h) # {}
    /\ Item(h) \notin shared
    /\ GoTo(h, "install")
    /\ UNCHANGED <<network, application, flows, dictionaries, marks, job, bounds, history>>

\* A flow of the same selector is replaced, and with it the way of other sessions.
Install(h) ==
    /\ pc[h] = "install"
    /\ flows' = Replaced(Item(h))
    /\ GoTo(h, "note")
    /\ Excuse(Robbed(h, Renewed(h), flows \ flows'))
    /\ UNCHANGED <<network, application, dictionaries, marks, job, bounds, promised, forgotten>>

InstallFails(h) ==
    /\ pc[h] = "install"
    /\ flows' \in {flows, Replaced(Item(h))}
    /\ GoTo(h, "put") /\ Done(h, {Item(h)})
    /\ Fault(Robbed(h, {}, flows \ flows') \cup {job[h].who})
    /\ UNCHANGED <<network, application, dictionaries, marks, promised, forgotten>>

\* Under the lock.
Note(h) ==
    /\ pc[h] = "note"
    /\ shared' = shared \cup {Item(h)}
    /\ GoTo(h, "put") /\ Done(h, {Item(h)})
    /\ UNCHANGED <<network, application, flows, cached, records, marks, bounds, history>>

\* _instalar_y_cachear, for the flows of the session alone.  Another handler that has a
\* different path for the session may be about to record it.
InstallOwn(h) ==
    /\ pc[h] = "put" /\ Common(h) = {}
    /\ flows' = {f \in flows : \A g \in job[h].todo : ~SameSelector(f, g)} \cup job[h].todo
    /\ forgotten' = {f \in forgotten : \A g \in job[h].todo : ~SameSelector(f, g)}
    /\ GoTo(h, "record")
    /\ Excuse({job[h].who : k \in {i \in Handlers : /\ pc[i] = "record" /\ job[i].who = job[h].who
                                                  /\ job[i].path # job[h].path}})
    /\ UNCHANGED <<network, application, dictionaries, marks, job, bounds, promised>>

OwnFails(h) ==
    /\ pc[h] = "put" /\ Common(h) = {}
    /\ Fault({job[h].who})
    /\ \E f \in job[h].todo : Done(h, {f})
    /\ UNCHANGED <<network, application, flows, dictionaries, marks, pc, promised, forgotten>>

\* They are noted under the lock, and so is the path.
Record(h) ==
    /\ pc[h] = "record"
    /\ cached' = cached \cup job[h].todo
    /\ records' = [records EXCEPT ![job[h].who] = job[h].path]
    /\ promised' = promised \cup {job[h].who}
    /\ Leave(h)
    /\ UNCHANGED <<network, told, queue, flows, shared, marks, bounds, excused, forgotten>>

-----------------------------------------------------------------------------
(***************************************************************************)
(* procesar_failover_event                                                 *)
(***************************************************************************)
DuplicateEvent(h) ==
    /\ pc[h] = "event" /\ job[h].event \in handled
    /\ Finish(h)
    /\ Excuse(Hit(job[h].event))
    /\ UNCHANGED <<network, told, queue, flows, dictionaries, marks, bounds,
                   promised, forgotten>>

MarkEvent(h) ==
    /\ pc[h] = "event"
    /\ handled' = handled \cup {job[h].event}
    /\ GoTo(h, "analyse")
    /\ UNCHANGED <<network, application, flows, dictionaries, cooling, seen, job,
                   bounds, history>>

\* analizar_failover: the path installed for the session, or else the one that would
\* be installed, and whether there is another without the failure.  Of the sessions that
\* can be recovered recuperar_failover takes as many as the limit allows and leaves the
\* others as they are.
Current(s) ==
    IF records[s] # NoPath THEN records[s]
    ELSE [there |-> Path(Listed, s.entry, s.exit), back |-> Path(Listed, s.exit, s.entry)]

Alternative(s, e) ==
    /\ {s.entry, s.exit} \cap e.devices = {}
    /\ Path(Remaining(Active, e.devices, e.links), s.entry, s.exit) # <<>>
    /\ Path(Remaining(Active, e.devices, e.links), s.exit, s.entry) # <<>>

Analyse(h) ==
    LET e == job[h].event
        affected == {s \in Sessions : Touches(Current(s), e)}
        recoverable == {s \in affected : Alternative(s, e)}
    IN /\ pc[h] = "analyse"
       /\ \E limit \in Limits, plan \in SUBSET recoverable :
             /\ \/ plan = recoverable /\ Cardinality(plan) <= limit
                \/ Cardinality(plan) = limit
             /\ IF plan = {} THEN Finish(h)
                ELSE /\ job' = [job EXCEPT ![h].plan = plan]
                     /\ GoTo(h, "cleanup") /\ UNCHANGED posting
             /\ Excuse(affected \ plan)
       /\ UNCHANGED <<network, told, queue, flows, dictionaries, marks, bounds,
                      promised, forgotten>>

\* No links or no sessions can be read.
AnalysisFails(h) ==
    /\ pc[h] = "analyse"
    /\ Fault(Hit(job[h].event))
    /\ Finish(h)
    /\ UNCHANGED <<network, told, queue, flows, dictionaries, marks, promised, forgotten>>

UsesEnd(f, e) == <<f.at, f.in>> \in Ends(e.links) \/ <<f.at, f.out>> \in Ends(e.links)

\* _shared_key_usa_falla
KeysHit(e) == {f \in shared : f.at \in e.devices \/ UsesEnd(f, e)}

\* _limpiar_flows_compartidos_por_falla, under the lock; nothing is deleted of a
\* switch that failed.
Cleanup(h) ==
    LET e == job[h].event
    IN /\ pc[h] = "cleanup"
       /\ shared' = shared \ KeysHit(e)
       /\ job' = [job EXCEPT ![h].doomed = {f \in KeysHit(e) : f.at \notin e.devices}]
       /\ GoTo(h, "cleaning")
       /\ UNCHANGED <<network, application, flows, cached, records, marks, bounds, history>>

\* All flows of sessions at the ends of the failed link.
Scan(h) ==
    LET e == job[h].event
    IN /\ pc[h] = "scan"
       /\ job' = [job EXCEPT ![h].doomed =
                     {f \in flows : f.sel[1] # "gate" /\ UsesEnd(f, e) /\ f.at \notin e.devices}]
       /\ GoTo(h, "scanning")
       /\ UNCHANGED <<network, application, flows, dictionaries, marks, bounds, history>>

AfterDeletes == [cleaning |-> "scan", scanning |-> "plan", clearing |-> "gate"]

\* One after the other, by the name of the selector: so are flows of sessions that came to
\* use the link after the analysis, or whose flow has since taken the selector over.
Delete(h) ==
    /\ pc[h] \in DOMAIN AfterDeletes
    /\ flows' = {g \in flows : \A f \in job[h].doomed : ~SameSelector(f, g)}
    /\ job' = [job EXCEPT ![h].doomed = {}]
    /\ GoTo(h, AfterDeletes[pc[h]])
    /\ Excuse(IF pc[h] = "clearing" THEN {} ELSE Robbed(h, job[h].plan, flows \ flows'))
    /\ UNCHANGED <<network, application, dictionaries, marks, bounds, promised, forgotten>>

Owners(f) == IF IsShared(f) THEN Sessions ELSE {s \in Sessions : s.host = f.sel[2]}

DeleteFails(h) ==
    /\ pc[h] \in DOMAIN AfterDeletes
    /\ \E f \in job[h].doomed :
          /\ Fault(Owners(f))
          /\ job' = [job EXCEPT ![h].doomed = @ \ {f}]
    /\ UNCHANGED <<network, application, flows, dictionaries, marks, pc, promised, forgotten>>

-----------------------------------------------------------------------------
(***************************************************************************)
(* recuperar_failover: the recoverable sessions, one after the other       *)
(***************************************************************************)
\* A session that was recovered a moment ago is skipped.
Skip(h) ==
    /\ pc[h] = "plan"
    /\ \E s \in job[h].plan \cap cooling :
          /\ job' = [job EXCEPT ![h].plan = @ \ {s}]
          /\ Excuse({s})
    /\ UNCHANGED <<network, application, flows, dictionaries, marks, pc, bounds,
                   promised, forgotten>>

\* Mutated form of Known: what M6 knows of the session is left in ONOS.
KnownNone(s) == {}

\* What M6 knows of the session.
Known(s) == {f \in cached : s \in Owners(f)}

\* A T3 permission is only planned when its path was recorded.  What is known of the
\* session is forgotten, under the lock, and then deleted.
Plan(h) ==
    /\ pc[h] = "plan"
    /\ \E s \in job[h].plan :
          /\ cooling' = cooling \cup {s}
          /\ cached' = {f \in cached : s \notin Owners(f)}
          /\ records' = [records EXCEPT ![s] = NoPath]
          /\ job' = [job EXCEPT ![h].plan = @ \ {s}, ![h].who = s, ![h].doomed = Known(s),
                                ![h].planned = s.table = "T2" \/ records[s] # NoPath]
    /\ GoTo(h, "clearing")
    /\ UNCHANGED <<network, application, flows, shared, handled, seen, bounds, history>>

Planned(h) ==
    /\ pc[h] = "plan" /\ job[h].plan = {}
    /\ Finish(h)
    /\ UNCHANGED <<network, told, queue, flows, dictionaries, marks, bounds, history>>

-----------------------------------------------------------------------------
(***************************************************************************)
(* Time                                                                    *)
(***************************************************************************)
\* A flow that no packet uses for a while.
Expire ==
    /\ \E f \in flows : Fault(Owners(f)) /\ flows' = flows \ {f}
    /\ UNCHANGED <<network, application, dictionaries, marks, pc, job, promised, forgotten>>

\* M6 stops between two steps and starts again.  Its dictionaries are in memory; at the
\* start it adopts the gates of active sessions (cleanup_session_gates_huerfanos), if ONOS
\* answers.  Which paths it installed it does not know any more: no path is promised.
Restart ==
    /\ Change
    /\ pc' = [h \in Handlers |-> "idle"] /\ job' = [h \in Handlers |-> Idle]
    /\ posting' = Nobody
    /\ shared' = {} /\ records' = [s \in Sessions |-> NoPath]
    /\ \/ cached' = {f \in flows : f.sel[1] = "gate"} /\ NoFault
       \/ cached' = {} /\ Fault({})
    /\ handled' = {} /\ cooling' = {} /\ seen' = [s \in Sessions |-> 0]
    /\ promised' = {}
    /\ forgotten' = {f \in flows : ~IsShared(f) /\ f \notin cached'}
    /\ UNCHANGED <<link, away, told, queue, flows>>

M6Step(h) ==
    \/ InstallGate(h) \/ Route(h) \/ NoRoute(h) \/ Reuse(h) \/ Stale(h) \/ Drop(h) \/ Miss(h)
    \/ Install(h) \/ Note(h) \/ InstallOwn(h) \/ Record(h)
    \/ DuplicateEvent(h) \/ MarkEvent(h) \/ Analyse(h) \/ Cleanup(h)
    \/ Scan(h) \/ Delete(h) \/ Skip(h) \/ Plan(h) \/ Planned(h)

M6Fault(h) == RouteFails(h) \/ InstallFails(h) \/ OwnFails(h) \/ AnalysisFails(h) \/ DeleteFails(h)

Next ==
    \/ \E l \in Wires \cap Frail : LinkFails(l) \/ LinkReturns(l)
    \/ \E d \in Switches \cap Frail : DeviceFails(d) \/ DeviceReturns(d)
    \/ PostFails \/ PostTimesOut
    \/ \E h \in Handlers : Post(h) \/ M6Step(h) \/ M6Fault(h)
    \/ \E s \in Sessions : \/ \E h \in Handlers : PacketIn(h, s)
                           \/ DuplicatePacketIn(s) \/ Deferred(s) \/ Tick(s)
    \/ Expire \/ Restart

\* M6's threads go on, its time goes by, and a host that gets nowhere keeps trying.
Fairness ==
    /\ \A h \in Handlers : WF_vars(M6Step(h))
    /\ \A s \in Sessions :
          /\ WF_vars(Tick(s))
          /\ WF_vars(\E h \in Handlers : PacketIn(h, s))

Spec == Init /\ [][Next]_vars /\ Fairness

-----------------------------------------------------------------------------
(***************************************************************************)
(* Properties                                                              *)
(***************************************************************************)
Selectors ==
    {<<k, v>> : k \in {"gate", "edge", "allow", "deliver", "to", "answer", "return", "from"},
                v \in UNION {{s.host, s.server, s.resource} : s \in Sessions}}
Ports == Switches \cup {Outside}
FlowSet == [at : Switches, in : Ports, sel : Selectors, out : Ports]
FlowsAt(d) == {f \in flows : f.at = d}
IsEvent(e) == e.devices \in SUBSET Switches /\ e.links \in SUBSET Links
IsRecord(r) == Members(r.there) \cup Members(r.back) \subseteq Switches

\* Every variable has its type, ONOS has one flow for a selector, and no more events
\* wait than ArrayBlockingQueue has room for.
TypeOK ==
    /\ link \in [Links -> {"active", "inactive", "gone"}] /\ away \subseteq Switches
    /\ \A e \in told \cup handled \cup Members(queue) : IsEvent(e)
    /\ Len(queue) <= QueueCap /\ posting \in Handlers \cup {Nobody}
    /\ flows \subseteq FlowSet /\ shared \subseteq FlowSet
    /\ cached \subseteq FlowSet /\ forgotten \subseteq FlowSet
    /\ \A d \in Switches : \A f, g \in FlowsAt(d) : SameSelector(f, g) => f = g
    /\ \A f \in shared : IsShared(f)
    /\ \A s \in Sessions : IsRecord(records[s]) /\ seen[s] \in 0..DedupWindow
    /\ cooling \cup excused \cup promised \subseteq Sessions
    /\ \A h \in Handlers :
          /\ pc[h] \in {"idle", "gate", "route", "put", "drop", "install", "note", "record",
                        "event", "analyse", "cleanup", "cleaning", "scan", "scanning",
                        "plan", "clearing"}
          /\ IsEvent(job[h].event) /\ job[h].plan \subseteq Sessions
          /\ job[h].who \in Sessions /\ job[h].planned \in BOOLEAN
          /\ IsRecord(job[h].path)
          /\ job[h].todo \subseteq FlowSet /\ job[h].doomed \subseteq FlowSet
    /\ changes \in 0..Changes /\ faults \in 0..Faults

Settled ==
    /\ queue = <<>> /\ posting = Nobody
    /\ \A h \in Handlers : pc[h] = "idle"

\* Once M6 has dealt with what it was told, a session that a path was installed for, since
\* M6 last started, has a path that works, there and back.  Excused are the sessions
\* something has happened to that M6 does not make good (see Excuse and Fault):
\* the event was suppressed (TopologyEventComponent.java:186) or never arrived, it came
\* while the path was being installed (m6_traductor.py:2337), the path of another session
\* replaced a shared flow of theirs (2226), there is no other path, more sessions were to
\* be recovered than M6 recovers for an event (4000-4002), the cooldown (3925), the path
\* was computed over a link ONOS lists as inactive (1208), a recovery deleted flows that
\* were installed after its analysis (3563), two handlers installed different paths for
\* the session, ONOS failed.  A restart forgets the paths (1539-1553): one in the middle
\* of a recovery leaves sessions without any, and the sessions count again when a path is
\* installed anew.
NoBlackHole == Settled => \A s \in promised \ excused : Whole(s)

\* The path a session is given (calcular_pasos, 1208) is the shortest there is, and the
\* first in the order of the names among those: so the way back and the next session use
\* the same switches, as the shared flows need.
RoutesAreBest ==
    \A h \in Handlers : pc[h] = "route" =>
        LET s == job[h].who
        IN /\ Best(Listed, s.entry, s.exit, Path(Listed, s.entry, s.exit))
           /\ Best(Listed, s.exit, s.entry, Path(Listed, s.exit, s.entry))

\* M6 knows every flow that is a session's own, so that a logout and a recovery find it
\* (_limpiar_flows_sesion_para_recovery, 3911): a handler has yet to delete it or to note
\* it, or else it is in flows_por_sesion.  Not so where ONOS, or another handler, has
\* got in the way of the session (it is excused), nor for the flows ONOS had when M6 started
\* again, of which only gates are adopted (6041): they stay unknown until they are
\* installed anew.
OwnFlowsKnown ==
    \A f \in flows : \/ IsShared(f)
                     \/ \E g \in cached : SameSelector(f, g)
                     \/ \E h \in Handlers : \/ \E g \in job[h].doomed : SameSelector(f, g)
                                            \/ \E g \in job[h].todo : SameSelector(f, g)
                     \/ Owners(f) \cap excused # {} \/ f \in forgotten

\* A session's flows are its own (docs/METRICAS_IMPLEMENTACION_R3.md:79): a packet-in of
\* another does not take a path away that works.  The code does not ensure it, and no
\* run checks it: after a link has returned, the shared flow of a selector is replaced.
OthersUntouched ==
    [][\A h \in Handlers : Install(h) /\ job[h].event = NoEvent =>
          \A s \in Sessions \ {job[h].who} : Whole(s) => Whole(s)']_vars

\* A host whose packets miss at its switch is let in (procesar_packet_in, 2726): the mark
\* of an earlier packet-in, which a failed installation leaves behind (2103), never keeps
\* it out for good.
LetIn == \A s \in Sessions : Shut(s) ~> ~Shut(s)
=============================================================================
