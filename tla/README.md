# Formal models of the PUCP SDN core

TLA+ modules, TLC runs and TLAPS proofs about the campus SDN in this repository:
authentication (M1), policies (M2), intrusion detection (M3), the security
correlator (M4), audit and infrastructure monitoring (M5) and the translator to
ONOS (M6). `PROJECT.json` holds the exact correspondence: for every definition
the lines of code it stands for, for every property the run that checks it, the
hazards of the code with the properties that watch them, and the theorems.

Run a model with `tlc -config IncidentMemory.cfg MCIncidentService`, a proof with
`tlapm IncidentServiceProofs.tla`.

## Inventory

Paths are relative to `src/app/`. *Hard* names what a unit test hardly reaches;
*correct* is what makes the part correct.

| Component | State | Operations | Hard | Correct |
|---|---|---|---|---|
| **M4 security correlator** `security/m4/app` | incidents with their `action_history`, idempotency keys, actions, window of events | `process(event)`, `mark_incident_expired` | the await in the middle of `process`; expire handler on another thread; MySQL copies; restarts | the state shown is explained by the history; one action of a kind at a time; MITIGATING ends |
| **M6 mitigations** `m6_traductor/m6_traductor.py` | `mitigaciones`; DROP flows in ONOS | alert, directive, unblock, list, notice to M4 | handlers interleave, lock only around the dictionary; ONOS fails, or answers late | every DROP can be listed and undone |
| **M6 rate limits** | `rate_limits`; meters and flows in ONOS | firing, resolved, remove, list, purge | the same, with two objects per limit and a flow shared by alerts | no flow without its meter, no foreign deletion, no lost meter |
| **M6 sessions** | `flows_por_sesion`, `session_gates` | role token, logout, flow expired, cleanup | login racing logout, M1 and M6 disagreeing | a session has its flows, a closed one has none |
| **M6 paths and packet-in** | shared T0 flows, `path_records`, seen packets | packet-in, search for a path, installation switch by switch, portal flows | partial paths, stale caches, suppressed packets | a permitted flow gets a whole path, the best there is, or none |
| **M6 failover** | recovery and event marks, `path_records`, the GRE tunnel's flows | topology event, recovery, tunnel | recovery racing packet-ins, flapping links, several failures | paths and the tunnel avoid failed links |
| **M1 authentication** `m1_auth/m1_auth.py` | MySQL: attempts, sessions, bindings, JP requests | login, visitor login, logout, JP requests | check-then-act over rows, lost updates, undelivered tokens, transactions that part | one session per MAC, lockout, one live request, grants that match the requests |
| **M2 policies** `m2_policies` | resources and exceptions in OPA | synchronisation, decision | stale data in OPA, rules that conflict | deny wins, expired exceptions have no effect |
| **M3 Suricata** `m3_monitoring` | `eve.json` | third party | lines written in parts | - |
| **Event forwarder** `security/event_forwarder` | offset and queue files | forwarding pass, retry | crashes, overlapping runs, full queue | no event lost behind the offset |
| **Flow collector** `security/flow_collector` | window per source | datagram | eviction, bursts | - |
| **Telemetry manager** `security/telemetry_manager` | mirror records | create, remove, reconcile | failed and expired mirrors | one live mirror per incident |
| **M5 infrastructure monitoring** `m5_audit/infra-monitoring` | previous and current snapshot | poll | first polls, errors after the state moved | every change is reported once |
| **ONOS topology events** `onos_topology_events` | last event per key, bounded queue | device and link events | suppression, full queue, lost POST | M6 hears of every failure |

Interaction: Suricata writes `eve.json`, the forwarder posts its events to M4, the
flow collector and M6 post theirs; M4 asks M6 for blocks and the Telemetry Manager
for mirrors; M6 asks ONOS for flows and tells M4 when a block is undone; M1 sends
role tokens to M6 at login and asks it to close sessions at logout; M2 decides which
resources a role reaches; the ONOS application tells M6 of failed links; M5 polls
ONOS and posts alerts to M6's rate limits.

Every service is a process of its own. M4 is an asyncio loop (its plain handlers run
on a thread pool), M6 a threaded Flask server with one lock that is held for each
access to a dictionary and never during a call to ONOS, and the forwarder a command
that runs and ends.

## Modules

| Module | Models | Runs | Proofs |
|---|---|---|---|
| `IncidentService` | M4: `service.py`, `incident_manager.py`, the clients and repositories | `IncidentMemory` | `IncidentServiceProofs` |
| `Mitigations` | M6: `procesar_alerta_seguridad`, `procesar_mitigacion`, `deshacer_mitigacion` | `MitigationRace` | `MitigationsProofs` |
| `BlockLoop` | `IncidentService` (extended) with `Mitigations` (instantiated): a block from M4's request to M6's notice | `BlockLoop` | `IncidentServiceProofs` |
| `RateLimits` | M6: `procesar_rate_limit_event`, `remover_rate_limit`, `listar_rate_limits`, the purge | `RateLimitRace`, `RateLimitSerial` | `RateLimitsProofs` |
| `AlertDelivery` | what the forwarder promises: the abstract specification of `EventForwarder` | `ForwarderCrashes` | `EventForwarderProofs` |
| `EventForwarder` | `forwarder.py`: `process_file`, `_enqueue`, `retry_queue` | `ForwarderCrashes` | `EventForwarderProofs` |
| `Logins` | M1: `autenticar`, `autenticar_visitante`, `cerrar_sesion` of `m1_auth.py`, the tables of `radius_db_pucp_sdn.sql` | `LoginRace` | `SessionsProofs` |
| `Sessions` | `Logins` (extended) with M6: `procesar_token_rol`, `cerrar_sesion`, `procesar_flow_expired`, `cleanup_session_gates_huerfanos` | `SessionFlows` | `SessionsProofs` |
| `Permissions` | M1's JP requests, M2's `sync.py` and `policy.rego`, M6's `PolicyEngine` and `_ttl_permiso` | `Permissions` | `PermissionsProofs` |
| `Topology` | M6: `calcular_pasos`, `calcular_pasos_con_fallas`, `_path_usa_falla`, and what a path must be | (through the next two) | `FailoverProofs` |
| `Failover` | M6: `procesar_packet_in`, `_instalar_camino_tcp`, `procesar_failover_event`, `recuperar_failover`; the ONOS application | `FailoverPaths`, `PacketIns` | `FailoverProofs` |
| `MonitoringTunnel` | M6: `asegurar_monitoring_gre`, `_monitoring_gre_plan` and the conflicts they clean | `GreTunnel` | `MonitoringTunnelProofs` |

`MC*` modules give the constants of these modules values for TLC, and `*Proofs` modules
hold the theorems.

### IncidentService

One event is one call of `process()`, with a program counter: `Receive` runs to the
decision, `Decide*` to the end of the handler or to the await, `Complete` or `Raise`
after it. Between awaits the loop runs one handler at a time (`LoopFree`). The risk
engine is abstracted to the action it recommends, any of five. With the memory
repository all callers share one object per incident; with MySQL each works on the
copy it read (`Held`), and saving replaces the row. The expire handler is cut in two
(`MarkBegin`, `MarkEnd`), because it runs on a thread beside the loop: in memory its
first assignment is visible at once. `action_history` is a sequence of
`ActionResult`s, newest first, cut to `HistoryCap` entries (50 in the code).
`Restart` drops calls, and with the memory repository everything else. Times are
ticks; `Never` is the missing `expires_at` of a mirror.

What is left out: the evidence kept with an incident, the fingerprint (written, never
read), wording and logging.

### RateLimits

A handler is a thread with a program counter; each critical section and each call to
ONOS is one step. `limits` is the dictionary, `rules` and `meters` are ONOS's. A
flow's identity is its selector, (port, target): the alert is not in it, which is why
two alerts of one port share a flow. Installing replaces the flow with the same
selector; deleting works by the identity. A call that fails may have been carried out
(`InstallFails`, `MeterRefused`). `doomed` holds what a handler has still to delete, a
flow and its meter per entry, taken pair by pair as in the code.

A meter's identifier is the one ONOS answers; the search by rate that the code falls
back to when ONOS names none (`crear_meter_rate_limit`) is not modelled.

### Mitigations

The same shape. A mitigation is the set of flows asked for: one for an alert, one per
device for a directive. `current` tells whether the record that an undo fetched is
still the one in the dictionary: the undo closes the object it fetched, which the
dictionary shows only then. `failed` remembers the incidents for which ONOS has
failed a call; it is a history variable, for the property only, and so is `forgotten`:
the DROP flows that M6 does not know any more. There are two ways to it. `Restart`
empties the dictionary, which is in memory, and ends handlers and notices, while ONOS
keeps the flows: M6 adopts session gates as it starts and no DROPs. And a request for
other flows takes the place of the incident's record (`Dropped`). A flow leaves
`forgotten` when it is installed again or gone.

A request has its own lifetime (`ttl`), which its thread keeps until it has recorded
the end of the block.

### BlockLoop

The two modules above, with one clock. Most steps are theirs; the new ones are the calls
between them, which `mail` follows for each event: `Send` (M4 saves MITIGATING and
asks), `Accept` and `Refuse` (M6 starts, or answers at once that there is no session or
no policy), `Answer` (M6 records the mitigation and answers with its end), `Answered`
and `GiveUp` (M4 records the result, or a failure after its 3 s while M6 goes on),
`Stop` and `StopM6` (either of them starts again), `Told` and `NoticeLost` (the only
notice of an unblocking). M4's action ends when M6 says so, so `Answered` takes the end
from the answer.

`BlockAgreed` compares the end of the block M4 takes for running with the end of the
flow in ONOS, whenever nothing is under way for the host. `strayed` is a history
variable: hosts to which something happened that the code does not make good, until
the two agree again by themselves. Its causes are listed with the property; each is
the answer to "what if this call is lost", found by model-checking without it, or, for
two requests that overlap and for M4 stopping, by the proof. `Stop` excuses every host: a
restart drops the calls of all of them. `StopM6` ends the requests in its hands with an
error and excuses the hosts a handler was at work on or M4 was about to be told of.

A host has one flow: the alerts about it name one signature and one destination.

### EventForwarder and AlertDelivery

A line of `eve.json` is a number; an event is its line, with a key that copies share.
A forwarding pass reads, skips, forwards or queues one line per step and saves its
position at the end, when it resumes from the offset; a retry walks through what the
queue held at its start and rewrites the file. Suricata may write a line in two
parts. A crash may come between any two steps, and within the rewriting of a file,
which leaves an empty queue or an unreadable offset, read as 0; a file cut in the
middle of a line is not modelled. `gone` collects the lines the code gives up: pushed
out of a full queue, read in parts, in a file that was cut.

`AlertDelivery` is what remains when files, passes and retries are forgotten: alerts
are delivered, wait in a buffer, or are lost by name, and only then does the forwarder
commit to not reading them again. `Delivered` says that `EventForwarder` implements it,
the offset being the commitment, the queue the buffer and `gone` what is lost.

### Logins

A request is a Flask thread with a program counter. Every method of `UserManager` and
`SessionManager` opens a connection of its own and is one transaction, so it is one
step; `increment_failed_attempt` and `close_session` read first and write later
without a lock and are two. `rows` is `sesiones_activas`, with its unique MAC,
`bindings` is `ip_mac_binding`, with its unique address, its unique MAC and its foreign
key: `Register` and `Bound` are the two `INSERT ... ON DUPLICATE KEY UPDATE`, and
closing a session cascades to its bindings. The role and the VLAN go with the user. A
visitor has the user id 0 in common with all others (`Guest`) and credentials in
`radcheck`, which many exits of the code have to remove (`Forget`). A client names the
session it closes and who it is; one that was started again asks M1 for the session of
its host and gets no name for a visitor, whose session it then closes as nobody's.

A connection may fail `Outages` times. Most checks then pass; `UnlessDown` counts an
outage only where it changes the outcome. `failures`, `raced`, `excused` and
`stranded` are history variables for the properties: rejections since the last good
login, accounts whose attempts were counted on a stale value, pairs of sessions the
later of which was validated before the earlier one was registered (a pair of a session
and itself is one that was taken over), and visitors whose session was closed without
their name. `who` in a row is history too: the table has only the user's id.

What is left out: accounting, the history of sessions and the events for M5 (written,
never read), the catalogue of resources, the mode without M6.

### Sessions

`Sessions` extends `Logins` with the calls M1 makes to M6 and with M6's side: `Next` is
a step of M1 alone, a step of M1 that sends or stops waiting for a call, or a step of
M6 or ONOS. A call is in `calls` until a handler accepts it; M1 may stop waiting (12 s,
3 s) while the call is on its way or being handled, and a call may be lost. Each
handler of M6 takes the critical sections and the calls to ONOS of its function one by
one. `cache` is `flows_por_sesion`, `gates` is `session_gates`, `flows` is what ONOS
has, with the user whose VLAN a flow carries. The permissions of a session stand for
one flow. `path_records`, which these functions only write, is left to `Failover`; the
scan of a sweep reads ONOS and adopts gates in one step. That ONOS reports a gate that is
gone is modelled from the endpoint that receives it, and may or may not happen: the
reporting application is not in the repository.

M1 has no endpoint for an expired session; M6 takes the 404 for an answer and deletes
the flows of a session that the database goes on calling active (`Lookup`). `trouble`
remembers the MACs something of that kind has happened to: a call that was lost or given
up, a call to ONOS that failed, a restart while a handler was at work on the MAC. A MAC
leaves it when a login of its own finds nothing left, anywhere, of the sessions it had
before (`Clean`).

### Permissions

One student, whose applications to assist (JP) go from M1's portal through MySQL, the
synchronizer and OPA to a flow of M6. `Ask`/`Insert` are the two halves of
`solicitar_jp`; `Read`, `Previous`, `Drop`, `Grant`, `Mark` are the helpers of
`resolver_solicitud_jp`, each a connection of its own whose error is printed and passed
over; `GiveUp` is an error, or the end of the process, in between. `rows` is
`politicas_temporales`, with the application behind a row (`by`), which the table does
not have: deletion goes by user and resource. `opa` is the copy the synchronizer pushed;
`Conflict` is an evaluation in which a complete rule of `policy.rego` has two values.
`Query` asks OPA, then MySQL, then the table in M6's code. What M6 does with a
permission is in parts: `Check` looks at its date and works out what is left
(`_ttl_permiso`), `Install` is one of the POSTs to ONOS, after the search for the paths
and the calls it takes, so at any later time, `NotInstalled` that none is made. `flows`
holds one flow of the permission, with the time of its last packet (`Used`); ONOS
removes it when no packet has come for its `Timeout`, at most `DataTimeout`, and M6 when
the session is closed (`FlowDeleted`). `overlapped` and `disturbed` are history
variables: two calls overlapped; another resolution, a fault, a second live application
or a login came between a resolution and the next one.

What is left out: bandwidth and priority, the events for M5, http and https apart. `Asked`
bounds the resources the student opens: the role's own permissions never expire, and a
run may leave them out.

### Topology

The breadth-first search of the code, as a recursive function over rounds, and
`Best`, its reference definition: over links that are there, as short as any, the
first in the order of names. A port is the neighbour it leads to.

### Failover

`link` is what ONOS knows of each link, `away` the switches that are gone. The ONOS
application suppresses a repeated event (`told`), drops one that finds the queue full,
and posts one at a time with a timeout; M6 goes on when it stops waiting. A handler of
M6 serves a packet-in (gate, route, the shared flows one by one with the lookup, the
deletion, the installation and the note each a step, the session's own flows, the
record) or an event (mark, analysis, clean-up of the dictionary, scan of ONOS, then
session by session: forget, delete, gate, route, ...). `flows` are ONOS's: a switch, a
selector and an output, and a flow replaces one of the same selector. `Whole` follows a
session's packets from flow to flow there and back; `Shut` says that they are stopped at
the session's own switch, where they become packet-ins again.

`Analyse` puts into the plan as many sessions as `FAILOVER_RECOVERY_MAX_SESSIONS` allows
(`Limits` are the values it may have); the others are not recovered, and are excused.
`Restart` may come between any two steps of the handlers: M6 loses `shared`, `records`,
`cached` and all marks, ONOS keeps the flows, and of these M6 adopts the gates as it
starts, or none if ONOS does not answer. Restarts count among the `Changes`. After one
no path is `promised`, and the own flows that ONOS still has are `forgotten`, a history
variable, until they are installed anew or gone.

`excused` is a history variable with one `Excuse` per step the code does not make good:
among others a step that deletes or replaces a flow excuses the sessions whose path,
recorded or in the hands of another handler, loses it (`Robbed`), unless it is about to
be recorded anew. `promised` are the sessions a path was installed for. A host has one
session (`FailoverConstants`). The decision of M2 is left to `Permissions`, the gate in
detail to `Sessions`.

### MonitoringTunnel

The flows of the tunnel from the users' switch to the monitoring machine: of the fixed
route or, when the failure at hand touches it, of a route around. A handler plans,
deletes the conflicting flows switch by switch, and installs what is missing; the
administrator's request does so without a failure and deletes nothing. Several failures
may be handled at once: the ONOS application waits 15 s for an answer and then posts the
next event, while M6 goes on with the first. `Restart` ends what is being done; as it
starts, M6 ensures the tunnel if it is configured to, and if not, a recovery that was
broken off leaves the tunnel excused. A recovery that finds sessions to recover ensures
the tunnel twice (`again`). The fixed route is assumed to be a path over the wires that
passes no switch twice (`TunnelConstants`), as the one in the code is.

`Reaches` says when packets arrive without counting their hops: every set of flows that
holds the flow at the entry and, with a flow, the one its packets meet next (`Followed`)
holds one that delivers. `LeftOut` are the links that a plan around a failure leaves out
though they are back.

## What the runs show

| Run | Bounds | Shows |
|---|---|---|
| `IncidentMemory` | 1 host, 3 events, 2 overlapping calls, memory repository, history of 2, 3 ticks, long blocks simulated | states are explained by the history, expired incidents have nothing running, a finished action never runs again, MITIGATING ends unless its call died |
| `BlockLoop` | 1 host, 2 events one after the other, MySQL repository, 1 handler of M6, both blocks switched on (1 and 2 ticks), 1 tick, ONOS fails, M4 and M6 start again | no second action of a kind; M4 and ONOS agree until when the host is blocked, but for the causes listed with the property |
| `RateLimitRace` | 2 handlers, 1 port, 2 alerts, 3 meters, 1 tick | no flow without its meter, no deletion of what another handler or entry holds |
| `RateLimitSerial` | 1 handler, 2 ports, 2 targets, 2 meters, 2 ticks, ONOS fails | a limit listed as active is in force |
| `MitigationRace` | 2 handlers, 2 incidents sharing a flow, one of them asked for by a directive and by an alert, 1 tick, ONOS fails in calls for that one, M6 starts again | a DROP that M6 cannot list and undo goes back to a failed call, a restart, a record replaced by a request for other flows, or a handler at work |
| `ForwarderCrashes` | 4 lines (one of no interest, one a copy), queue of 2, 2 attempts, 2 crashes | no event behind the offset is lost unless the code gives it up; the queue is bounded; `AlertDelivery` is implemented |
| `LoginRace` | 2 requests, a user, a visitor, 2 machines, the visitor on the second with the address of the first, 2 sessions, lockout after 2 of 2 rejections, 1 outage | duplicates, takeovers, disagreeing bindings, late lockouts and leftover credentials each go back to an overlap, a client started again, or the outage |
| `SessionFlows` | 1 request of M1, 2 handlers of M6, 2 users of one machine, 2 sessions, 1 fault, 1 sweep or restart | a flow has its session and a session its gate, but for the faults listed with the properties |
| `Permissions` | 2 applicants' calls, 1 administrator, 2 careers, 2 requests, a denial by hand, questions about the resources applied for, 1 tick, 1 fault | an application has its rows exactly while approved, one is live, OPA can answer, OPA catches up: but for overlaps and disturbed resolutions; a flow outlives its last packet by no more than what its permission had left |
| `FailoverPaths` | 4 switches, 2 sessions of one role, 2 handlers, 1 link that fails or returns, 2 changes or restarts, recoveries of one session or of both, queue of 1 | in the end a session that a path was installed for has one that works, every session's own flow can be found |
| `PacketIns` | 5 switches with a longer way around, 1 session with an exception, 1 handler, a link and a switch, 2 changes or restarts, window of 2, 1 fault | paths are the best there are; a host whose packets miss gets in |
| `GreTunnel` | the 5 switches of the deployment, 2 handlers, 3 links and 2 switches that may fail, 3 changes, 1 request or restart, 1 fault, events that are handled at once | the mirrored packets arrive when there is a way, but for the causes listed with the property |

Why the bounds are enough: the races are between two handlers (or a handler and the
expire thread) over one key, and every property speaks of one host, port, incident,
student or session at a time, so one or two of each bring every case about; three events
are one more than a history of two holds; the clock goes past the end of every block and
limit (in `BlockLoop` of the temporary one). Two incidents are needed only where they
share a flow, two sessions where they share a path. In `BlockLoop` one handler is
enough, because an unblocking that overlaps with a request excuses the host: with one
handler the request, its abandonment, a second request and the unblocking come in every
order. In `GreTunnel` the plan knows one failure at a time and a change beyond the third
repeats what the first three do, but for one cause of a broken tunnel that takes four:
it was found in the proof, which holds for any number, and is excused (`LeftOut`). In
`LoginRace` two rejections lock an account, one less than in the code, and both may be
counted on the same value, so that the lockout comes late. The user comes from two
machines of different addresses and the visitor (`Reach`) from the first, or from the
second when it has the address of the first, which brings every kind of conflict about;
what M6 keeps is kept by MAC, so `SessionFlows` has one. In `MitigationRace` the calls
of one of the two incidents fail (`Failing`): the excuse is for the incident whose call
failed, and the other shows that it does not reach further. Handlers, meters and the two
sessions of `FailoverPaths` are interchangeable and TLC uses that symmetry; no run with
symmetry checks liveness. `FailoverPaths` serves one packet-in of a session at a time
(`Overlap = FALSE`): two of them with the same content fall into the suppression window
of the code.

The clock, events, changes and lines are finite, so `IncidentService`, `BlockLoop`,
`EventForwarder`, `Logins`, `Sessions`, `Failover` and `MonitoringTunnel` come to a
natural stop and are run without the deadlock check; `RateLimits`, `Mitigations` and
`Permissions` are run with it, since a handler can always take another request and the
student always log in or out.

Fairness. `IncidentMemory`: a call that was received is decided (the loop runs), a
request that left is answered or raises (`httpx` has a timeout), the expire handler
finishes (no blocking call but MySQL). `PacketIns`: M6's threads go on, the window of
suppression passes, and a host whose packets miss keeps sending (TCP repeats itself); no
fault, change or event is fair. `Permissions`: the synchronizer's loop runs. Nothing is
assumed of event sources, callbacks, administrators or restarts.

## Departures from the docs

What a document or comment says and the code does not do. The modules state the
properties; no run checks those that fail, and a run of the named property shows the
counterexample in seconds.

| Said | Where | What happens | Property and how to see it |
|---|---|---|---|
| "M4 evita repetir acciones si ya hay una accion activa del mismo tipo" | `src/app/security/m4/README.md:331` | two events that overlap at the await both start the action | `OneLivePerKind` of `IncidentService`, in `IncidentMemory.cfg` (it holds for one event after the other: `BlockLoop`) |
| "M6 ya es idempotente por device + port + event" | `src/docs/entregas/GUIA_M5_USO_ENDPOINT_RATE_LIMIT_M6.md:222` | two firing alerts of one key that overlap leave a meter nobody knows | `NoOrphanMeter` of `RateLimits`, in `RateLimitRace.cfg` |
| "M6 elimina las flows asociadas a ese incidente" | `src/docs/entregas/ARQUITECTURA_SEGURIDAD_M3_M4_M6_M5_DPDK.md:199` | a second mitigation of the incident takes the first one's record | `UndoneIsGone` of `Mitigations`, in `MitigationRace.cfg` with `Failing = {}` |
| the TTL of a flow: "capea por expiración OPA" | `src/app/m6_traductor/m6_traductor.py:2166` | the TTL is ONOS's idle timeout: a flow in use stays past the date, and one may be installed after it | `\A f \in flows : now < f.expires` of `Permissions`, in `Permissions.cfg` |
| the sweep deletes gates that "ya no existen como sesiones activas en M6/DB" | `src/app/m6_traductor/m6_traductor.py:3289` | the sessions are read before the gates: that of a login in between goes | `SweepSparesSessions` of `Sessions`, in `SessionFlows.cfg` |
| "cada sesión tiene su propio conjunto de flows T1/T2" | `src/docs/METRICAS_IMPLEMENTACION_R3.md:79` | a stretch is shared: a new path replaces the output of the flow others use (`m6_traductor.py:2226`) | `OthersUntouched` of `Failover`, in `FailoverPaths.cfg` |
| "GRE se reaseguro solo si era necesario por la topologia actual" | `src/app/m6_traductor/m6_traductor.py:4108` | the plan looks at the failure at hand (1824): a second failure elsewhere moves the tunnel back onto the first | `MovedIfNeeded` of `MonitoringTunnel`, in `GreTunnel.cfg` |
| "Un usuario solo tiene una solicitud viva" | `src/app/m1_auth/m1_auth.py:1342`, `src/db/radius_db_pucp_sdn.sql:327` | two applications at once, or one beside an approval, both live | `OneLiveExplained` without its excuse |
| "JP de la propia carrera -> T3 solo notas" | `src/app/m1_auth/m1_auth.py:1340` | the career is that of the session: approved after a logout, the courses too | `ResourcesFor` of `Permissions` |

Further behaviour worth knowing, found while stating the properties and excused there:

- A TEMP_BLOCK asked for while a BLOCK runs replaces its flow, which then ends with the
  shorter block while M4 goes on taking the BLOCK for running
  (`incident_manager.py:92`, `Shortens` in `BlockLoop`).
- `action_fingerprint` is stored and never compared (`incident_manager.py:91-103`): while
  a block runs, an alert about the same host and another destination starts nothing,
  though the flow blocks the first destination only. `BlockLoop` has one destination.
- A mitigation whose flow could not be installed still replaces the record of the running
  one, by a record without flows: unblocking then deletes nothing and M4 is told that the
  block has ended (`m6_traductor.py:4640-4659`, `Unblocked` in `BlockLoop`).
- A terminal client that is started again learns its session from M1, which answers
  "VISITANTE" for any visitor (`m1_auth.py:469`): closing it (`cli.py:533`) removes the
  session and leaves the visitor's credentials in `radcheck` (`stranded` in `Logins`).
- When one session is taken over by another login of its MAC, its bindings may pass on to
  a third session with an address that is not that session's, which is why
  `BindingsAgree` gives up on all sessions after a takeover.
- A restart of M6 leaves DROPs in ONOS that no undo finds and that only their own timeout
  ends (`m6_traductor.py:6036-6049`, `forgotten` in `Mitigations`); paths and the flows of
  sessions but for their gates are forgotten the same way (`forgotten` in `Failover`).
- With `max_queue_size` 1 the forwarder's queue is not bounded: `lines[-0:]` is the whole
  file (`forwarder.py:112-118`).
- When OPA and MySQL are both out of reach, M6's table grants informatics the grades
  (`Hardcoded` in `Permissions`).
- The plan for a failure leaves its link out even when the link has come back by then
  (`m6_traductor.py:1712`). If there is no other way and an earlier failure had already
  left the tunnel broken, it stays broken though it could be had: nothing asks for it
  again (`LeftOut` in `MonitoringTunnel`).
- Two alerts about one host whose requests overlap are served by M6 in any order, while M4
  keeps them in the order of their answers (`BlockLoop`).
- The clean-up of a recovery deletes flows by what their selectors are called
  (`m6_traductor.py:3563`), whatever path they have come to be part of: a session whose
  path was installed after the analysis may lose a flow and is not in the plan (`Robbed`
  in `Failover`).
- Two handlers that serve one session may install different paths for it; the one that
  records last need not be the one whose flows ONOS has (`InstallOwn` in `Failover`).
- A packet-in computes its path over links that ONOS lists as inactive
  (`calcular_pasos`, 1208), and so does the reinstallation of a recovery, though its
  analysis leaves such links out (1299).

## What is proved

All for every value of the constants, by TLAPS, from the named assumptions of the
modules. A theorem with a further hypothesis names it after `ASSUME`; what the
hypothesis excludes is said below, and why it cannot go. Hardly any of the safety
properties is inductive by itself; a proof has a strengthening whose parts are what the
code relies on without saying so.

**`IncidentServiceProofs`.** `TypeOK`, `StateBacked`, `ExpiredIsLifted`,
`MitigatingExplained` and the action property `ActiveMeansRunning`. `BackedInv` adds the
copies that calls hold with MySQL, since saving one makes it the incident;
`ExpiredLifted` drops the excuse of a busy expire handler for MySQL, where that handler
shows nothing before it saves and a restart may take it away; `ExplainedInv` adds that a
call being decided has its key recorded, and that a copy it read in MITIGATING is
explained like the incident. `ActiveMeansRunning` follows from `StateBacked` and from
what the refresh does before the decision.

`OneLivePerKind` for `MaxInFlight = 1`, with either repository: `SerialInv` says of the
incident and of every copy that a live entry is the newest of its kind (`NewestOnly`),
so that what `has_active_action` finds is all there is, and that the call being waited
for has none of its kind. With two events at the await the property is false, as the
departures above tell. The action property `LiftIsFinal` for the memory repository:
`OnceInv` says that an event has one entry in the history, written when it is done, so
that an entry is known by its event from one state to the next. With MySQL it is false:
a call may save a copy it read before the lift.

Of M4 and M6 together, `BlockAgreedHolds`, that is `BlockAgreed` without a hypothesis:
`LoopInv` says that histories have room and what runs in them ends in time, and of every
host that has not strayed (`Together`) that it has one request at a time, which the
handler at work on it serves (`AskedOnce`), that calls work on copies with the running
blocks of the incident (`CopiesHold`), that M4 hears of an unblocking when the flow is
gone (`LiftedFirst`), that what a request has brought so far is in ONOS and outlasts
what M4 believes in (`Due`), and that the two agree unless an answer is on its way or an
unblocking has begun. A step then has to show this for the hosts it does not lead astray
(`Kept`). The proof needed two more causes of disagreement than model-checking had found
within its bounds: two requests for the host that overlap, and a restart of M4, for
every host. After a restart of M6 the two still agree on a block that was in force:
`Due` speaks of flows in ONOS and not of M6's records (`StopsM6`). `LoopRunsM6`: with M4
at the other end, M6 does only what `Mitigations` allows it alone (but that the common
clock starts at 1). So `LoopNoHiddenDrop`, `NoHiddenDrop` for M6 with M4, restarts of M6
included; and `LoopOneLive`, `OneLivePerKind` for `MaxInFlight = 1` with M6's own
answers.

**`RateLimitsProofs`.** `TypeOK`, `DeletionIsOwn`, and `NoDanglingFlow` for an ONOS that
does not fail. Every meter has one owner (`OInv`): an entry, the handler that created
it, or a deletion to be done; the owners' meters exist in ONOS, which is why ONOS does
not hand one out twice. `NoDanglingFlow` adds `FlowsFollow`: the flows of a meter are
the one its owner knows, and none is left when a deletion has come to the meter.

`ListedIsInForce` for one thread and one alert, whatever ONOS fails: `ForceInv` adds to
the owners that a handler about to store an entry has its flow in ONOS until the end it
is going to write, and that a deletion takes no flow an entry in force needs. Both
hypotheses are needed: two alerts of one port and target share a flow (the second takes
its meter out of force), and of two requests at once one may delete what the other has
just put in. The code keeps neither from happening; `RateLimitSerial`, which checks the
property, has the same two bounds.

**`MitigationsProofs`.** `TypeOK`, and `NoHiddenDrop` without a hypothesis, whatever
flows and lifetimes the requests of an incident ask for and however often M6 starts
again. The invariant `IInv` says of every flow in ONOS that is not forgotten, and whose
incident ONOS has not failed, that a handler at work on the incident has just installed
it or the record names it (`Accounted`), and that an undo whose record is still current
has it on its list unless a handler has just installed it (`UndoCovers`).

**`EventForwarderProofs`.** `TypeOK` and `QueueBounded` with runs that overlap as they
like; `NoEventLost` and `Delivered`, that is the refinement of `AlertDelivery`, while no
two runs coincide (`~Overlap`). `IInv` follows a line on its way: what the offset on disk
or the pass in hand has left behind is forwarded, queued or given up
(`CommittedIsKnown`, `PassedIsKnown`), a line read in parts is given up (`HalfIsKnown`),
and what a retry has in hand together with what M4 received is what the file holds
(`RetryIsKnown`); with it every step of the forwarder is one of `AlertDelivery` or none.
Nothing in the code keeps two runs apart: it is a command that an operator or a timer
starts. Two at once can lose events, since each writes the whole queue file from what it
read before. `QueueBounded` needs `Within`, which bounds what a retry writes back, and
`MaxQueue # 1` (see above).

**`SessionsProofs`.** First M1 alone: `LoginTypeOK` with the keys and the foreign key of
the tables, and the five other properties of the module, for any number of requests at
once, people, machines, addresses, sessions and outages. The tables need that ids are
given out once (`TablesOK`). `DuplicatesExplained` and `TakeoverExplained` rest on
`ConflictsSeen`: between its validation and its registration a login knows every session
in conflict with it that it could not see, since `Register` adds the new session to what
the other validated logins have missed; no check of the database stands between the two
steps. `LockedInTime` rests on `Counted`, a sum: unless two requests counted on one
value, the rejections of a user are at most those in the counter and those a request is
about to add. `BindingsAgree` rests on `Agreeing`: without a takeover the address and
the MAC of a binding are those of some session, and one of the two is that of its own.
`CredentialsUsed` rests on `Minding`: whoever has credentials has a request that will
come to an exit that removes them, a session of his, or a session that was closed
without his name.

Then M1 with M6 and a network around it: `LoginsImplemented`, `Spec => LoginSpec`, says
that it does only what `Logins` allows it alone, so that the theorems about M1 hold here
too, and the rest can use them. After that `TypeOK`, and for one request of M1 at a time
(`OneRequest`) `NoOrphanFlow` and `SessionsServed`, for any number of handlers of M6,
hosts, users, sessions, calls that arrive late or never, calls to ONOS that fail, flows
that time out, sweeps and restarts. `FInv` says that every flow has a cause (a session,
or a handler or a call that will deal with it), that M6 knows every flow in its
dictionary or has it in hand, that every session has its gate or something that stands
for it until then, that a call in the network or in M6 is one some request waits for
unless its MAC is in trouble, and which calls a handler's program counter allows
(`JobsFit`). With two requests at once both properties are false: the close request of
one may overtake the token of the other, and M6 has no way to tell. `m6_traductor.py`
orders nothing by session, and M1 is a threaded server; `SessionFlows` has one request
for the same reason.

**`PermissionsProofs`.** `TypeOK`, `OneLiveExplained`, `GrantsMatch`, and `RunsOut`,
without a hypothesis; and `OpaAnswers`. That administrators are not applicants is an
assumption of the module (two accounts, two menus). `OneInv`: as long as no two calls
overlapped, one application at most is live, and a call works alone. `MatchInv` follows
a resolution through its transactions: the application it resolves, and the previous one
it revokes on the way, are the only ones whose rows and state may differ
(`ResolvedAlone`, `NoThird`, `Settled`). `OpaAnswers` says that `policy.rego` never has
two values before a resolution was disturbed: by `OpaInv` the rows that approvals wrote
come from one application and permit. Its hypothesis `DenialsByHand` is about rows an
operator writes into the table by hand, which the code does not check: denials, one of a
resource at most. A permission by hand with another date contradicts what an approval
writes, and two rows of a resource contradict each other. `RunsOut` is part of `DueInv`,
which adds that what M6 is about to install had something left when it looked; that a
flow in use, or installed late, outlives the date is among the departures.

**`FailoverProofs`.** First the search of `Topology`, for any switches, order of names
and links: `PathIsBest`, the path found is `Best`, and there is none only when there is
no way. The invariant of the search (`Searching`) says that the paths in its queue are
the best to their last switches, stand in the order of length and names, and that the
neighbours of every switch visited and no longer in the queue have been visited
(`Closed`). It is carried over the rounds, a recursive function of their number, by the
least round at which it would fail: no induction theorem is needed. `RoutesBest` is its
consequence for a packet-in, `RoutesAreBest`.

`OwnFlowsAreKnown`, `OwnFlowsKnown` without a hypothesis, for any topology, sessions,
handlers, failures and returns, of links and of calls, and restarts, which make every own
flow but the gates a forgotten one: `KInv` gives every program counter
what a handler has in hand there (`Holds`: flows still to put in, flows still to take
out, the session), and says that a flow in ONOS is shared or some session's.
`TypeCorrect`, `TypeOK`: that ONOS has one flow for a selector needs that no path passes
a switch twice, so that the flows a handler has in hand never share a selector either
(`Apart`), and that comes from `PathIsBest`. The module assumes that there is a session
and that the order of names is a sequence of the switches.

`NoBlackHoleHolds`, `NoBlackHole` without a hypothesis. `TidyInv` says what handlers
have in their hands whatever goes wrong: a path from one switch of the session to the
other that passes none twice, and flows of that path only. `Claims` says of a handler
that installs a path for a session that is not excused that the path carries and that
each of its flows is in ONOS or still to be installed (the shared ones: `SharedStand`;
the session's own and the gate may also be left to another handler at work for the
session: `OwnStand`, `GateStands`). `Cares` says of a session that a path was installed
for that it is excused, or its recorded path is in ONOS and carries (`Firm`), or a
failure of that path is in an event on its way to the analysis (`Warned`), or the
session is in a plan, or a handler is at work for it. Then each step has to show only
what it spares (`Spares`) and whom it robs. After a restart nothing is promised, and
nobody claims anything. When M6 has settled nothing but `Firm` is left, and a packet
goes from switch to switch of the path by the one flow there is for it at each
(`Follows`, `FirmIsWhole`). The proof found two causes that model-checking had not
within its bounds: the clean-up that deletes what was installed after the analysis, and
the two handlers with different paths for one session (see the departures).

**`MonitoringTunnelProofs`.** `TunnelHolds`, that is `TunnelStands` without a
hypothesis, for any network, handlers, failures that are handled at once or not,
requests, restarts and faults. `TunnelInv` says that, as long as nothing has happened
that excuses it, every handler at work has a route that carries (`OnTheWay`, from
`PathIsBest`), and that an event waits or is being planned, or the tunnel stands, or
there is no way (`Promised`). It stands (`Standing`) when packets get to where they are
let out, or to the switch a handler has come to in its route. Instead of following
packets hop by hop this speaks of sets of places: every set that holds the entry and is
closed under the flows (`Guided`) holds such a place (`Goal`). When the handler's flow
for a switch is there, packets that got to the switch get to the next one of the route
(`StandsFurther`), so no induction over the hops is needed. The proof found
`TunnelStands` false for four changes or more, for the reason given above (`LeftOut`).

**Model-checked only.** Liveness (`MitigatingEnds`, `LetIn`, `OpaCatchesUp`), which is out
of the prover's reach, as everything under fairness.

## What is not modelled, and why

- Adapters, the identity repository and M4's M2 client: conversions field by field,
  without state; `process()` does not use the last two.
- The sum of the risk scores and the window of events in the correlator: the decision is
  any the engine can recommend, so nothing about the evidence can be said. An event that
  arrives late may be counted longer than the window (`correlator.py:18`).
- The flows of the captive portal and the detection of scans in M6's packet-in
  (`m6_traductor.py:2352-2574`): fixed flows to one machine, deleted with the gate.
- Accounting and the history of sessions in M1: only written.
- The groups of RBAC in M2, bandwidth and priority: the data of a decision, not its
  control.
- The Telemetry Manager's own records: mirrors are "deliberately unavailable in the
  offline phase", so that only its answers matter to M4.
- M5's infrastructure monitoring: one loop that compares two snapshots and reports;
  nothing reads its state. Dashboards, pipelines and Suricata itself are third-party
  services with configuration.
- The flow collector: binary parsers and sums over a window, in one thread that never
  waits.
- The portal's forms, the terminal client, M6's dashboard, the observability copies and
  the demonstration servers: interfaces and wrappers without state of their own.
