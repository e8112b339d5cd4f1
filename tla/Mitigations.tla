------------------------------ MODULE Mitigations ------------------------------
(***************************************************************************)
(* M6's mitigations: the DROP flows M4 or an operator asks for, recorded   *)
(* under their incident in the dictionary mitigaciones, and their removal. *)
(*                                                                         *)
(* Requests are handled by Flask threads.  The dictionary is locked for    *)
(* each access, never across the calls to ONOS between them.  The context  *)
(* of an alert (the session of its source address) and the policy of its   *)
(* signature only choose which flows are asked for: a request without      *)
(* either is answered with an error and changes nothing.                   *)
(***************************************************************************)
EXTENDS Naturals

CONSTANTS
    Threads,        \* request handlers at work at the same time
    Incidents,      \* incident identifiers
    Flows,          \* DROP flows, by device and selector: ONOS's identity of a flow
    Requests,       \* per incident, the sets of flows a request may ask for
    Ttls,           \* the values ttl_segundos may have
    Failing,        \* bound: the incidents for which calls to ONOS may fail
    MaxTime         \* bound: the clock stops here

ASSUME ConstantsAssumption ==
    /\ Requests \in [Incidents -> SUBSET SUBSET Flows]
    /\ Ttls \subseteq Nat \ {0} /\ Failing \subseteq Incidents /\ MaxTime \in Nat

Record == [flows : SUBSET Flows, active : BOOLEAN, until : Nat]
Rule   == [flow : Flows, owner : Incidents, until : Nat]

VARIABLES
    mitigaciones,   \* the dictionary: a set of at most one record per incident
    rules,          \* the DROP flows in ONOS, with the incident that asked last
    notices,        \* incidents of which M4 is about to be told that they expired
    pc,             \* where each thread is
    incident,       \* the incident it works on
    ttl,            \* how long its flows are to last
    todo,           \* the flows it still has to install or delete
    got,            \* the flows it has installed
    current,        \* whether the record it fetched is still the dictionary's
    failed,         \* history: incidents for which a call to ONOS has failed
    forgotten,      \* history: flows in ONOS that M6 has dropped its record of
    clock

work == <<pc, incident, ttl, todo, got, current>>
vars == <<mitigaciones, rules, notices, work, failed, forgotten, clock>>

\* M6 as it starts.
Empty ==
    /\ mitigaciones = [i \in Incidents |-> {}]
    /\ rules = {} /\ notices = {} /\ failed = {} /\ forgotten = {}
    /\ pc = [t \in Threads |-> "idle"]
    /\ incident \in [Threads -> Incidents]
    /\ \A t, u \in Threads : incident[t] = incident[u]
    /\ ttl = [t \in Threads |-> 0]
    /\ todo = [t \in Threads |-> {}]
    /\ got = [t \in Threads |-> {}]
    /\ current = [t \in Threads |-> FALSE]

Init == Empty /\ clock = 0

-----------------------------------------------------------------------------
(***************************************************************************)
(* procesar_alerta_seguridad, with one flow, and procesar_mitigacion, with *)
(* one flow per device                                                     *)
(***************************************************************************)
Mitigate(t, i, F, d) ==
    /\ pc[t] = "idle"
    /\ pc' = [pc EXCEPT ![t] = "installing"]
    /\ incident' = [incident EXCEPT ![t] = i]
    /\ ttl' = [ttl EXCEPT ![t] = d]
    /\ todo' = [todo EXCEPT ![t] = F]
    /\ got' = [got EXCEPT ![t] = {}]
    /\ UNCHANGED <<mitigaciones, rules, notices, current, failed, forgotten, clock>>

\* A flow replaces the one ONOS has for the same selector.
Put(f, i, d) ==
    /\ rules' = {r \in rules : r.flow # f}
                \cup {[flow |-> f, owner |-> i, until |-> clock + d]}
    /\ forgotten' = forgotten \ {f}

Install(t) ==
    /\ pc[t] = "installing"
    /\ \E f \in todo[t] :
          /\ Put(f, incident[t], ttl[t])
          /\ todo' = [todo EXCEPT ![t] = @ \ {f}]
          /\ got' = [got EXCEPT ![t] = @ \cup {f}]
    /\ UNCHANGED <<mitigaciones, notices, pc, incident, ttl, current, failed, clock>>

\* Every attempt failed, though one of them may have installed the flow.
InstallFails(t) ==
    /\ incident[t] \in Failing
    /\ pc[t] = "installing"
    /\ \E f \in todo[t] :
          /\ UNCHANGED <<rules, forgotten>> \/ Put(f, incident[t], ttl[t])
          /\ todo' = [todo EXCEPT ![t] = @ \ {f}]
    /\ failed' = failed \cup {incident[t]}
    /\ UNCHANGED <<mitigaciones, notices, pc, incident, ttl, got, current, clock>>

\* Mutated form of Entry: the end of the block is subtracted.
EntryBackwards(t) ==
    [flows |-> got[t], active |-> TRUE, until |-> clock - ttl[t]]

\* The record, active even when no flow could be installed.
Entry(t) == [flows |-> got[t], active |-> TRUE, until |-> clock + ttl[t]]

\* The flows of the incident that the record about to go has and the new one has not:
\* no one undoes them any more.
Dropped(t) ==
    {r.flow : r \in {q \in rules :
        /\ q.owner = incident[t] /\ q.flow \notin got[t]
        /\ \E m \in mitigaciones[incident[t]] : q.flow \in m.flows}}

\* Under the lock: a new object takes the incident's place in the dictionary.
Store(t) ==
    /\ pc[t] = "installing" /\ todo[t] = {}
    /\ mitigaciones' = [mitigaciones EXCEPT ![incident[t]] = {Entry(t)}]
    /\ current' = [u \in Threads |-> current[u] /\ incident[u] # incident[t]]
    /\ pc' = [pc EXCEPT ![t] = "idle"]
    /\ got' = [got EXCEPT ![t] = {}]
    /\ ttl' = [ttl EXCEPT ![t] = 0]
    /\ forgotten' = forgotten \cup Dropped(t)
    /\ UNCHANGED <<rules, notices, incident, todo, failed, clock>>

-----------------------------------------------------------------------------
(***************************************************************************)
(* deshacer_mitigacion                                                     *)
(***************************************************************************)
\* Under the lock: the record is fetched.  An unknown incident is an error.
Undo(t, i) ==
    /\ pc[t] = "idle"
    /\ \E r \in mitigaciones[i] : todo' = [todo EXCEPT ![t] = r.flows]
    /\ pc' = [pc EXCEPT ![t] = "deleting"]
    /\ incident' = [incident EXCEPT ![t] = i]
    /\ current' = [current EXCEPT ![t] = TRUE]
    /\ UNCHANGED <<mitigaciones, rules, notices, ttl, got, failed, forgotten, clock>>

Delete(t) ==
    /\ pc[t] = "deleting"
    /\ \E f \in todo[t] :
          /\ rules' = {r \in rules : r.flow # f}
          /\ todo' = [todo EXCEPT ![t] = @ \ {f}]
    /\ UNCHANGED <<mitigaciones, notices, pc, incident, ttl, got, current, failed,
                   forgotten, clock>>

\* The deletion failed, or was carried out and its answer lost.
DeleteFails(t) ==
    /\ incident[t] \in Failing
    /\ pc[t] = "deleting"
    /\ \E f \in todo[t] :
          /\ UNCHANGED rules \/ rules' = {r \in rules : r.flow # f}
          /\ todo' = [todo EXCEPT ![t] = @ \ {f}]
    /\ failed' = failed \cup {incident[t]}
    /\ UNCHANGED <<mitigaciones, notices, pc, incident, ttl, got, current, forgotten,
                   clock>>

Closed(i) == {[r EXCEPT !.active = FALSE] : r \in mitigaciones[i]}

\* Mutated form of Marked: what the dictionary holds by now is closed.
MarkedByName(t) == Closed(incident[t])

\* Under the lock: the object fetched is closed, which the dictionary shows
\* only while that object is still in it.
Marked(t) ==
    IF current[t] THEN Closed(incident[t]) ELSE mitigaciones[incident[t]]

\* Whatever the deletions answered, the record is closed and a thread is
\* started that tells M4.
Mark(t) ==
    /\ pc[t] = "deleting" /\ todo[t] = {}
    /\ mitigaciones' = [mitigaciones EXCEPT ![incident[t]] = Marked(t)]
    /\ notices' = notices \cup {incident[t]}
    /\ current' = [current EXCEPT ![t] = FALSE]
    /\ pc' = [pc EXCEPT ![t] = "idle"]
    /\ UNCHANGED <<rules, incident, ttl, todo, got, failed, forgotten, clock>>

\* _marcar_incidente_m4_expirado: M4 is told, or the error is swallowed.
Notify(i) ==
    /\ i \in notices
    /\ notices' = notices \ {i}
    /\ UNCHANGED <<mitigaciones, rules, work, failed, forgotten, clock>>

-----------------------------------------------------------------------------
\* ONOS removes a flow some time after its timeout.
RuleTimesOut ==
    \E r \in rules :
        /\ r.until <= clock
        /\ rules' = rules \ {r}
        /\ UNCHANGED <<mitigaciones, notices, work, failed, forgotten, clock>>

Tick ==
    /\ clock < MaxTime
    /\ clock' = clock + 1
    /\ UNCHANGED <<mitigaciones, rules, notices, work, failed, forgotten>>

\* M6 is restarted.  The dictionary was in memory, and so were the handlers and the
\* notices; the DROP flows stay in ONOS, where M6 looks only for session gates and
\* mirror tunnels as it starts.
Restart ==
    /\ mitigaciones' = [i \in Incidents |-> {}]
    /\ notices' = {}
    /\ pc' = [t \in Threads |-> "idle"]
    /\ ttl' = [t \in Threads |-> 0]
    /\ todo' = [t \in Threads |-> {}] /\ got' = [t \in Threads |-> {}]
    /\ current' = [t \in Threads |-> FALSE]
    /\ forgotten' = {r.flow : r \in rules}
    /\ UNCHANGED <<rules, incident, failed, clock>>

Step(t) ==
    \/ Install(t) \/ InstallFails(t) \/ Store(t)
    \/ Delete(t) \/ DeleteFails(t) \/ Mark(t)

Next ==
    \/ \E t \in Threads : Step(t)
    \/ \E t \in Threads, i \in Incidents : Undo(t, i)
    \/ \E t \in Threads, i \in Incidents : \E F \in Requests[i], d \in Ttls : Mitigate(t, i, F, d)
    \/ \E i \in Incidents : Notify(i)
    \/ RuleTimesOut
    \/ Tick
    \/ Restart

Spec == Init /\ [][Next]_vars

-----------------------------------------------------------------------------
(***************************************************************************)
(* Properties                                                              *)
(***************************************************************************)
\* Every variable keeps its shape, and an incident has at most one record.
TypeOK ==
    /\ mitigaciones \in [Incidents -> SUBSET Record]
    /\ \A i \in Incidents : \A m, n \in mitigaciones[i] : m = n
    /\ rules \subseteq Rule
    /\ notices \subseteq Incidents /\ failed \subseteq Incidents /\ forgotten \subseteq Flows
    /\ pc \in [Threads -> {"idle", "installing", "deleting"}]
    /\ incident \in [Threads -> Incidents]
    /\ ttl \in [Threads -> Nat]
    /\ todo \in [Threads -> SUBSET Flows] /\ got \in [Threads -> SUBSET Flows]
    /\ current \in [Threads -> BOOLEAN]
    /\ clock \in Nat

AtWork(i) == \E t \in Threads : pc[t] # "idle" /\ incident[t] = i

\* No DROP is left in ONOS behind the back of M6: the record of the incident that asked
\* for the flow is active and names it, so that it is listed and can be undone
\* (m6_traductor.py:4634-4659, 4744-4763).  Unless a handler is at work on the incident,
\* ONOS has failed a call for it, or M6 has forgotten the flow and not asked for it
\* since: it was restarted, with the dictionary in memory (1549, 6037-6049), or a request
\* for other flows has taken the place of the incident's record (4658, 4731).
NoHiddenDrop ==
    \A r \in rules :
        \/ AtWork(r.owner)
        \/ r.owner \in failed
        \/ r.flow \in forgotten
        \/ \E m \in mitigaciones[r.owner] : m.active /\ r.flow \in m.flows

\* An incident that has been undone has no DROP left.  The architecture document
\* says that M6 removes the flows associated with the incident
\* (docs/entregas/ARQUITECTURA_SEGURIDAD_M3_M4_M6_M5_DPDK.md:199).  The code does not
\* ensure it, and no run checks it: a second request for other flows takes the record of
\* the first one's.
UndoneIsGone ==
    \A i \in Incidents :
        /\ \A m \in mitigaciones[i] : ~m.active
        /\ ~AtWork(i)
        => \A r \in rules : r.owner # i

=============================================================================
