------------------------------ MODULE RateLimits ------------------------------
(***************************************************************************)
(* M6's temporary rate limits: an ONOS meter and a T0 flow per (port,      *)
(* alert), put in by a firing alert and taken out when it is resolved or   *)
(* when a later request finds the record expired.                          *)
(*                                                                         *)
(* Requests are handled by Flask threads.  The dictionary rate_limits is   *)
(* locked for each access, never across the calls to ONOS between them, so *)
(* every access and every call to ONOS is a step of its own.               *)
(***************************************************************************)
EXTENDS Naturals, FiniteSets

CONSTANTS
    Threads,        \* request handlers at work at the same time
    Ports,          \* (device, port) pairs
    Alerts,         \* names of the alerts that may fire for a port
    Targets,        \* what a port may resolve to: a session, a host, the port
    Meters,         \* meter identifiers ONOS has to give
    Ttl,            \* RATE_LIMIT_DEFAULT_TTL
    OnosFails,      \* whether calls to ONOS may fail
    MaxTime         \* bound: the clock stops here

ASSUME ConstantsAssumption ==
    Ttl \in Nat \ {0} /\ OnosFails \in BOOLEAN /\ MaxTime \in Nat

\* _rate_limit_key, and the identity ONOS gives a flow: table, priority and
\* selector.  The selector has the port and the target, not the alert.
Key  == Ports \X Alerts
Flow == Ports \X Targets

Limit    == [key : Key, flow : Flow, meter : Meters, until : Nat]
Rule     == [flow : Flow, meter : Meters, until : Nat]
Deletion == [flow : Flow, meter : Meters, stage : {"flow", "meter"}]
Kind     == {"firing", "resolved", "remove", "list"}

VARIABLES
    limits,         \* the dictionary rate_limits, as a set of entries
    rules,          \* the rate-limit flows in ONOS
    meters,         \* the meters in ONOS
    pc,             \* where each thread is
    kind,           \* the request it handles
    key,            \* and the key of that request
    now,            \* the time read before the lookup
    meter,          \* the meter it has created, as a set of at most one
    placed,         \* the flow it has installed, likewise
    doomed,         \* the flows and meters it still has to delete
    clock

request == <<kind, key>>
work == <<now, meter, placed>>
vars == <<limits, rules, meters, pc, request, work, doomed, clock>>

Init ==
    /\ limits = {} /\ rules = {} /\ meters = {}
    /\ pc = [t \in Threads |-> "idle"]
    /\ kind = [t \in Threads |-> "list"]
    /\ key \in [Threads -> Key] /\ \A t, u \in Threads : key[t] = key[u]
    /\ now = [t \in Threads |-> 0]
    /\ meter = [t \in Threads |-> {}]
    /\ placed = [t \in Threads |-> {}]
    /\ doomed = [t \in Threads |-> {}]
    /\ clock = 0

Go(t, there) == pc' = [pc EXCEPT ![t] = there]
Drained(t) == doomed[t] = {}
LimitsOf(k) == {r \in limits : r.key = k}
Doom(r) == [flow |-> r.flow, meter |-> r.meter, stage |-> "flow"]

-----------------------------------------------------------------------------
(***************************************************************************)
(* The requests, and the purge each of them starts with                    *)
(***************************************************************************)
Request(t, what, k) ==
    /\ pc[t] = "idle"
    /\ kind' = [kind EXCEPT ![t] = what]
    /\ key' = [key EXCEPT ![t] = k]
    /\ Go(t, "start")
    /\ UNCHANGED <<limits, rules, meters, work, doomed, clock>>

\* Under the lock: the expired entries leave the dictionary.
Purge(t) ==
    /\ pc[t] = "start"
    /\ LET expired == {r \in limits : r.until <= clock}
       IN /\ limits' = limits \ expired
          /\ doomed' = [doomed EXCEPT ![t] = {Doom(r) : r \in expired}]
    /\ Go(t, "purged")
    /\ UNCHANGED <<rules, meters, request, work, clock>>

\* eliminar_flow: the answer is not looked at before the meter is deleted.
DeleteFlow(t) ==
    \E d \in doomed[t] :
        /\ d.stage = "flow"
        /\ \A c \in doomed[t] : c.stage = "flow"
        /\ \/ rules' = {r \in rules : r.flow # d.flow}
           \/ OnosFails /\ UNCHANGED rules
        /\ doomed' = [doomed EXCEPT ![t] =
                        (@ \ {d}) \cup {[d EXCEPT !.stage = "meter"]}]
        /\ UNCHANGED <<limits, meters, pc, request, work, clock>>

\* Mutated form of DeleteMeter: it does not wait for the flow to be gone.
DeleteMeterFirst(t) ==
    \E d \in doomed[t] :
        /\ meters' = meters \ {d.meter}
        /\ doomed' = [doomed EXCEPT ![t] = @ \ {d}]
        /\ UNCHANGED <<limits, rules, pc, request, work, clock>>

\* eliminar_meter: whatever it answers, nobody tries again.
DeleteMeter(t) ==
    \E d \in doomed[t] :
        /\ d.stage = "meter"
        /\ \/ meters' = meters \ {d.meter}
           \/ OnosFails /\ UNCHANGED meters
        /\ doomed' = [doomed EXCEPT ![t] = @ \ {d}]
        /\ UNCHANGED <<limits, rules, pc, request, work, clock>>

-----------------------------------------------------------------------------
(***************************************************************************)
(* remover_rate_limit and listar_rate_limits                               *)
(***************************************************************************)
\* A "resolved" alert is handed to remover_rate_limit, which purges again.
Resolved(t) ==
    /\ pc[t] = "purged" /\ Drained(t) /\ kind[t] = "resolved"
    /\ kind' = [kind EXCEPT ![t] = "remove"]
    /\ Go(t, "start")
    /\ UNCHANGED <<limits, rules, meters, key, work, doomed, clock>>

\* Mutated form of Remove: the entry is read and stays in the dictionary.
RemoveKeeps(t) ==
    /\ pc[t] = "purged" /\ Drained(t) /\ kind[t] = "remove"
    /\ doomed' = [doomed EXCEPT ![t] = {Doom(r) : r \in LimitsOf(key[t])}]
    /\ Go(t, "ending")
    /\ UNCHANGED <<limits, rules, meters, request, work, clock>>

\* Under the lock: the entry is popped; without one there is nothing to delete.
Remove(t) ==
    /\ pc[t] = "purged" /\ Drained(t) /\ kind[t] = "remove"
    /\ limits' = limits \ LimitsOf(key[t])
    /\ doomed' = [doomed EXCEPT ![t] = {Doom(r) : r \in LimitsOf(key[t])}]
    /\ Go(t, "ending")
    /\ UNCHANGED <<rules, meters, request, work, clock>>

Listed(t) ==
    /\ pc[t] = "purged" /\ Drained(t) /\ kind[t] = "list"
    /\ Go(t, "idle")
    /\ UNCHANGED <<limits, rules, meters, request, work, doomed, clock>>

\* The handler returns, with its local variables.
End(t) ==
    /\ pc[t] = "ending" /\ Drained(t)
    /\ meter' = [meter EXCEPT ![t] = {}]
    /\ placed' = [placed EXCEPT ![t] = {}]
    /\ now' = [now EXCEPT ![t] = 0]
    /\ Go(t, "idle")
    /\ UNCHANGED <<limits, rules, meters, request, doomed, clock>>

-----------------------------------------------------------------------------
(***************************************************************************)
(* procesar_rate_limit_event, status "firing"                              *)
(***************************************************************************)
\* Under the lock: an entry that has not expired ends the request.
AlreadyActive(t) ==
    /\ pc[t] = "purged" /\ Drained(t) /\ kind[t] = "firing"
    /\ \E r \in LimitsOf(key[t]) : r.until > clock
    /\ Go(t, "idle")
    /\ UNCHANGED <<limits, rules, meters, request, work, doomed, clock>>

Look(t) ==
    /\ pc[t] = "purged" /\ Drained(t) /\ kind[t] = "firing"
    /\ \A r \in LimitsOf(key[t]) : r.until <= clock
    /\ now' = [now EXCEPT ![t] = clock]
    /\ Go(t, "creating")
    /\ UNCHANGED <<limits, rules, meters, request, meter, placed, doomed, clock>>

CreateMeter(t) ==
    /\ pc[t] = "creating"
    /\ \E m \in Meters \ meters :
          /\ meters' = meters \cup {m}
          /\ meter' = [meter EXCEPT ![t] = {m}]
    /\ Go(t, "installing")
    /\ UNCHANGED <<limits, rules, request, now, placed, doomed, clock>>

\* No meter: ONOS has none left or fails, perhaps after having created it.
MeterRefused(t) ==
    /\ pc[t] = "creating"
    /\ \/ meters = Meters /\ UNCHANGED meters
       \/ OnosFails /\ \E M \in SUBSET (Meters \ meters) :
             Cardinality(M) <= 1 /\ meters' = meters \cup M
    /\ Go(t, "ending")
    /\ UNCHANGED <<limits, rules, request, work, doomed, clock>>

\* The flow replaces the one ONOS has for the same selector.
Put(f, m) ==
    rules' = {r \in rules : r.flow # f}
             \cup {[flow |-> f, meter |-> m, until |-> clock + Ttl]}

InstallFlow(t) ==
    /\ pc[t] = "installing"
    /\ \E target \in Targets, m \in meter[t] :
          LET f == <<key[t][1], target>>
          IN Put(f, m) /\ placed' = [placed EXCEPT ![t] = {f}]
    /\ Go(t, "storing")
    /\ UNCHANGED <<limits, meters, request, now, meter, doomed, clock>>

\* The flow was refused, or installed and the answer lost; the meter goes.
InstallFails(t) ==
    /\ OnosFails
    /\ pc[t] = "installing"
    /\ \E target \in Targets, m \in meter[t] :
          LET f == <<key[t][1], target>>
          IN /\ UNCHANGED rules \/ Put(f, m)
             /\ doomed' = [doomed EXCEPT ![t] =
                             {[flow |-> f, meter |-> m, stage |-> "meter"]}]
    /\ meter' = [meter EXCEPT ![t] = {}]
    /\ Go(t, "ending")
    /\ UNCHANGED <<limits, meters, request, now, placed, clock>>

\* Mutated forms of Until: the lifetime counts from the end of the work, or
\* is subtracted.
UntilLate(t) == clock + Ttl

UntilBackwards(t) == now[t] - Ttl

\* expires_at counts from the time read before the lookup.
Until(t) == now[t] + Ttl

\* Under the lock: the entry of the key is written, whatever was there.
Store(t) ==
    /\ pc[t] = "storing"
    /\ limits' = (limits \ LimitsOf(key[t])) \cup
                 {[key |-> key[t], flow |-> f, meter |-> m, until |-> Until(t)] :
                    f \in placed[t], m \in meter[t]}
    /\ meter' = [meter EXCEPT ![t] = {}]
    /\ placed' = [placed EXCEPT ![t] = {}]
    /\ Go(t, "ending")
    /\ UNCHANGED <<rules, meters, request, now, doomed, clock>>

-----------------------------------------------------------------------------
\* ONOS removes a flow some time after its timeout.
RuleTimesOut ==
    \E r \in rules :
        /\ r.until <= clock
        /\ rules' = rules \ {r}
        /\ UNCHANGED <<limits, meters, pc, request, work, doomed, clock>>

Tick ==
    /\ clock < MaxTime
    /\ clock' = clock + 1
    /\ UNCHANGED <<limits, rules, meters, pc, request, work, doomed>>

Step(t) ==
    \/ Purge(t) \/ DeleteFlow(t) \/ DeleteMeter(t)
    \/ Resolved(t) \/ Remove(t) \/ Listed(t) \/ End(t)
    \/ AlreadyActive(t) \/ Look(t) \/ CreateMeter(t) \/ MeterRefused(t)
    \/ InstallFlow(t) \/ InstallFails(t) \/ Store(t)

Next ==
    \/ \E t \in Threads : Step(t)
    \/ \E t \in Threads, what \in Kind, k \in Key : Request(t, what, k)
    \/ RuleTimesOut
    \/ Tick

Spec == Init /\ [][Next]_vars

-----------------------------------------------------------------------------
(***************************************************************************)
(* Properties                                                              *)
(***************************************************************************)
\* Every variable keeps its shape.
TypeOK ==
    /\ limits \subseteq Limit /\ rules \subseteq Rule /\ meters \subseteq Meters
    /\ pc \in [Threads -> {"idle", "start", "purged", "creating", "installing",
                           "storing", "ending"}]
    /\ kind \in [Threads -> Kind] /\ key \in [Threads -> Key]
    /\ now \in [Threads -> Nat] /\ clock \in Nat
    /\ meter \in [Threads -> SUBSET Meters] /\ placed \in [Threads -> SUBSET Flow]
    /\ doomed \in [Threads -> SUBSET Deletion]

\* A flow in ONOS never points to a meter that has been deleted, as long as
\* ONOS carries out what it is asked, however the handlers interleave
\* (m6_traductor.py:4339-4341, 4438-4440, 4510-4511).
NoDanglingFlow == \A r \in rules : r.meter \in meters

\* What a handler is going to delete is its own: no entry and no other handler
\* has the same meter, which ONOS may by then have given to another limit
\* (m6_traductor.py:4334-4341, 4506-4511).
DeletionIsOwn ==
    \A t \in Threads : \A d \in doomed[t] :
        /\ \A r \in limits : r.meter # d.meter
        /\ \A u \in Threads : d.meter \notin meter[u]
        /\ \A u \in Threads : \A c \in doomed[u] :
              c.meter = d.meter => u = t /\ c = d

AllIdle == \A t \in Threads : pc[t] = "idle"

\* A limit listed as active is in force: its flow is in ONOS and sends the
\* traffic to its meter (m6_traductor.py:4449-4480, 4519-4533).
ListedIsInForce ==
    \A r \in limits :
        AllIdle /\ r.until > clock =>
            \E f \in rules : f.flow = r.flow /\ f.meter = r.meter

\* No meter is left that neither an entry nor a handler knows.  The guide for M5
\* says that M6 is idempotent by device, port and event
\* (docs/entregas/GUIA_M5_USO_ENDPOINT_RATE_LIMIT_M6.md:222).  The code does not ensure
\* it, and no run checks it: two firing alerts of one key that overlap leave a meter.
NoOrphanMeter ==
    \A m \in meters :
        \/ \E r \in limits : r.meter = m
        \/ \E t \in Threads : m \in meter[t] \/ \E d \in doomed[t] : d.meter = m

=============================================================================
