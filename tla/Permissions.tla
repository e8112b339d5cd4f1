------------------------------ MODULE Permissions ------------------------------
(***************************************************************************)
(* The way of a permission: a student applies to assist in the courses of  *)
(* a career (a "JP", app/m1_auth/m1_auth.py from line 1336 on), an         *)
(* administrator approves, rejects or revokes the application, approval    *)
(* writes rows of politicas_temporales, the synchronizer of M2             *)
(* (m2_policies/sync/sync.py) copies the rows in force into OPA,           *)
(* policy.rego answers from the copy, and M6 (PolicyEngine, _ttl_permiso)  *)
(* turns an answer into a flow.                                            *)
(*                                                                         *)
(* Nothing on this way is one transaction: each helper of M1 opens its own *)
(* connection, an error of MySQL is printed and passed over, the           *)
(* synchronizer fetches and then pushes, OPA keeps the copy in memory, M6  *)
(* looks at the date of what it asked for a moment ago, and installs it    *)
(* once it has found a path and ONOS has answered.                         *)
(*                                                                         *)
(* The module follows one student, whose own role is the career Own. http  *)
(* and https of a server are one resource, bandwidth and priority are left *)
(* out, and the interval of a synchronization is any time at all.          *)
(***************************************************************************)
EXTENDS Naturals, Sequences, FiniteSets

CONSTANTS
    Applicants,     \* threads of the portal with an application of the student
    Admins,         \* threads of the portal with a resolution
    Careers,        \* careers that take assistants
    Own,            \* the career of the student
    Grades,         \* the resource of the grades server
    Hardcoded,      \* what M6 grants the student's VLAN without any opa
    DataTimeout,    \* DATA_FLOW_TIMEOUT, in ticks
    ByHand,         \* rows of politicas_temporales an operator wrote
    Expirations,    \* the dates an administrator writes
    Faults,         \* bound: calls to MySQL or OPA that fail, restarts of OPA
    MaxRequests,    \* bound on applications
    Asked,          \* bound: the resources the student opens
    MaxTime         \* bound on the clock

Courses == Careers              \* the resource of a career's courses
Resources == Courses \cup {Grades}
Never == MaxTime + 1            \* no expiration: expires_at null
NoRequest == 0

Row == [res : Resources, allow : BOOLEAN, expires : Nat, by : Nat]
Exception == [res : Resources, allow : BOOLEAN, expires : Nat]

ASSUME PermissionsAssumption ==
    /\ Applicants \cap Admins = {}
    /\ Own \in Careers /\ Grades \notin Careers
    /\ Hardcoded \subseteq Resources /\ Asked \subseteq Resources
    /\ ByHand \subseteq [res : Resources, allow : BOOLEAN, expires : Nat, by : {NoRequest}]
    /\ Expirations \subseteq Nat
    /\ DataTimeout \in Nat \ {0}
    /\ Faults \in Nat /\ MaxRequests \in Nat /\ MaxTime \in Nat

VARIABLES
    requests,       \* solicitudes_jp, in the order of their ids
    rows,           \* politicas_temporales; "by" is the application behind a row
    loggedIn,       \* whether sesiones_activas holds a session of the student
    calls,          \* what each thread of the portal is in the middle of
    opa,            \* data.pool of OPA
    packet,         \* the permission M6 is about to install, if any
    flows,          \* a flow of that permission: one at a time is followed
    now,
    faults,         \* failures so far
    overlapped,     \* history: two calls overlapped, or a look for a live one failed
    disturbed       \* history: applications whose resolution was not left alone

vars == <<requests, rows, loggedIn, calls, opa, packet, flows, now,
          faults, overlapped, disturbed>>
portal == <<requests, rows, calls, overlapped, disturbed>>
network == <<packet, flows>>

Ids == 1..Len(requests)
Live == {"PENDIENTE", "APROBADA"}
LiveIds == {r \in Ids : requests[r].state \in Live}

\* Mutated form of Outcome: the state does not agree with the ENUM of solicitudes_jp.
OutcomeMisnamed == [APROBAR |-> "APROBADO", RECHAZAR |-> "RECHAZADA", REVOCAR |-> "REVOCADA"]
Outcome == [APROBAR |-> "APROBADA", RECHAZAR |-> "RECHAZADA", REVOCAR |-> "REVOCADA"]
Needed == [APROBAR |-> "PENDIENTE", RECHAZAR |-> "PENDIENTE", REVOCAR |-> "APROBADA"]

Idle == [step |-> "idle", request |-> NoRequest,
         action |-> "none", target |-> NoRequest]
Steps == {"idle", "insert", "previous", "drop", "grant", "mark"}
Call == [step : Steps, request : Nat,
         action : {"none"} \cup DOMAIN Outcome, target : Nat]

\* checked is when M6 looked at the date, or Never before it does.
Nothing == [res |-> Grades, table |-> "none", expires |-> 0, checked |-> Never]
Permission == [res : Resources, table : {"none", "T2", "T3"}, expires : Nat, checked : Nat]
Flow == [expires : Nat, checked : Nat, last : Nat]

TypeOK ==
    /\ requests \in Seq([career : Careers, state : {"RECHAZADA", "REVOCADA"} \cup Live])
    /\ rows \subseteq Row /\ loggedIn \in BOOLEAN
    /\ calls \in [Applicants \cup Admins -> Call]
    /\ opa \in [resources : BOOLEAN, exceptions : SUBSET Exception]
    /\ packet \in Permission /\ flows \subseteq Flow
    /\ now \in 0..MaxTime /\ faults \in 0..Faults
    /\ overlapped \in BOOLEAN /\ disturbed \subseteq Ids

Init ==
    /\ requests = <<>> /\ rows = ByHand /\ loggedIn = FALSE
    /\ calls = [t \in Applicants \cup Admins |-> Idle]
    /\ opa = [resources |-> FALSE, exceptions |-> {}]
    /\ packet = Nothing /\ flows = {}
    /\ now = 0 /\ faults = 0
    /\ overlapped = FALSE /\ disturbed = {}

-----------------------------------------------------------------------------
(* The portal: applications and their resolution.                            *)

\* _jp_recursos_para: an assistant of the own career gets the grades alone;
\* the own career is the role of the session, so nobody's without one.
ResourcesFor(career) ==
    IF loggedIn /\ career = Own THEN {Grades} ELSE {career, Grades}

Fault == faults < Faults /\ faults' = faults + 1
Step(t, c) == calls' = [calls EXCEPT ![t] = c]
Resolving == {calls[t].request : t \in {u \in Admins : calls[u].step # "idle"}}
                \cup {calls[t].target : t \in {u \in Admins : calls[u].step # "idle"}}

\* What _jp_solicitud_viva_existente selects.
BlockingPending == {r \in LiveIds : requests[r].state = "PENDIENTE"}
Blocking == LiveIds

\* solicitar_jp up to the look for a live application, which ends the call;
\* without a connection the look finds nothing.
Ask(t) ==
    /\ calls[t].step = "idle" /\ loggedIn
    /\ Len(requests) + Cardinality({u \in Applicants : calls[u].step = "insert"})
           < MaxRequests
    /\ (Blocking = {} /\ UNCHANGED faults) \/ Fault
    /\ Step(t, [Idle EXCEPT !.step = "insert"])
    /\ overlapped' = \/ overlapped \/ faults' > faults
                     \/ \E u \in Applicants \ {t} : calls[u].step = "insert"
    /\ UNCHANGED <<requests, rows, loggedIn, opa, network, now, disturbed>>

\* The rest of solicitar_jp, on a connection of its own.
Insert(t, career) ==
    /\ calls[t].step = "insert"
    /\ requests' = Append(requests, [career |-> career, state |-> "PENDIENTE"])
    /\ disturbed' = IF LiveIds = {} THEN disturbed
                    ELSE disturbed \cup LiveIds \cup {Len(requests) + 1}
    /\ Step(t, Idle)
    /\ UNCHANGED <<rows, loggedIn, opa, network, now, faults, overlapped>>

\* resolver_solicitud_jp reads the application once and goes by what it read.
Read(t, r, action) ==
    /\ calls[t].step = "idle" /\ requests[r].state = Needed[action]
    /\ Step(t, [Idle EXCEPT !.request = r, !.action = action, !.target = r,
                    !.step = CASE action = "APROBAR"  -> "previous"
                               [] action = "RECHAZAR" -> "mark"
                               [] action = "REVOCAR"  -> "drop"])
    /\ overlapped' = (overlapped \/ Resolving # {})
    /\ disturbed' = IF Resolving = {} THEN disturbed
                    ELSE disturbed \cup Resolving \cup {r}
    /\ UNCHANGED <<requests, rows, loggedIn, opa, network, now, faults>>

\* An approval looks for the approved application it replaces. Of two live ones
\* the newest by a date of whole seconds: either may be.
Previous(t) ==
    /\ calls[t].step = "previous"
    /\ \/ /\ \E p \in Blocking :
                IF requests[p].state = "APROBADA" /\ p # calls[t].request
                    THEN /\ Step(t, [calls[t] EXCEPT !.step = "drop", !.target = p])
                         /\ disturbed' = disturbed \cup {p}
                    ELSE /\ Step(t, [calls[t] EXCEPT !.step = "grant"])
                         /\ UNCHANGED disturbed
          /\ UNCHANGED faults
       \/ /\ (Blocking = {} /\ UNCHANGED faults) \/ Fault
          /\ Step(t, [calls[t] EXCEPT !.step = "grant"])
          /\ UNCHANGED disturbed
    /\ UNCHANGED <<requests, rows, loggedIn, opa, network, now, overlapped>>

\* _jp_eliminar_t3 names the user and the resources, not the application; its
\* errors are printed, and the call goes on. Without a connection to look up the
\* session, _jp_recursos_para answers with the grades alone.
DeletedCoursesOnly(career) ==
    {x \in rows : x.by # NoRequest /\ x.res \in ResourcesFor(career) \ {Grades}}
Deleted(career) == {x \in rows : x.by # NoRequest /\ x.res \in ResourcesFor(career)}

Drop(t) ==
    /\ calls[t].step = "drop"
    /\ \/ /\ rows' = rows \ Deleted(requests[calls[t].target].career)
          /\ UNCHANGED <<faults, disturbed>>
       \/ /\ Fault /\ disturbed' = disturbed \cup {calls[t].target}
          /\ rows' \in {rows, rows \ {x \in rows : x.by # NoRequest /\ x.res = Grades}}
    /\ Step(t, [calls[t] EXCEPT !.step = "mark"])
    /\ UNCHANGED <<requests, loggedIn, opa, network, now, overlapped>>

\* _jp_insertar_t3 writes all rows in one transaction.
Grant(t, expires) ==
    LET c == calls[t]
        New(R) == {[res |-> x, allow |-> TRUE, expires |-> expires, by |-> c.request]
                     : x \in R}
    IN
    /\ c.step = "grant"
    /\ \/ /\ rows' = rows \cup New(ResourcesFor(requests[c.request].career))
          /\ UNCHANGED <<faults, disturbed>>
       \/ /\ rows' = rows \cup New({Grades})
          /\ Fault /\ disturbed' = disturbed \cup {c.request}
    /\ Step(t, [c EXCEPT !.step = "mark", !.target = c.request])
    /\ UNCHANGED <<requests, loggedIn, opa, network, now, overlapped>>

\* _jp_set_estado writes the state whatever it is by now, or fails unseen.
Mark(t) ==
    LET c == calls[t]
        state == IF c.target = c.request THEN Outcome[c.action] ELSE "REVOCADA" IN
    /\ c.step = "mark"
    /\ \/ /\ requests' = [requests EXCEPT ![c.target].state = state]
          /\ disturbed' = IF state \in Live /\ LiveIds \ {c.target} # {}
                          THEN disturbed \cup LiveIds \cup {c.target}
                          ELSE disturbed
          /\ UNCHANGED faults
       \/ /\ Fault /\ disturbed' = disturbed \cup {c.target}
          /\ UNCHANGED requests
    /\ Step(t, IF c.target = c.request THEN Idle ELSE [c EXCEPT !.step = "grant"])
    /\ UNCHANGED <<rows, loggedIn, opa, network, now, overlapped>>

\* An error that ends the call, or the end of the portal's process: what was
\* committed stays.
GiveUp(t) ==
    /\ calls[t].step # "idle" /\ Fault
    /\ Step(t, Idle)
    /\ disturbed' = IF calls[t].step = "mark" THEN disturbed \cup {calls[t].target}
                    ELSE disturbed
    /\ UNCHANGED <<requests, rows, loggedIn, opa, network, now, overlapped>>

\* A login or a logout of the student changes what ResourcesFor his own career are.
Session ==
    /\ loggedIn' = ~loggedIn
    /\ disturbed' = disturbed \cup
           {r \in Ids : /\ requests[r].career = Own
                        /\ requests[r].state = "APROBADA" \/ r \in Resolving}
    /\ UNCHANGED <<requests, rows, calls, opa, network, now, faults, overlapped>>

-----------------------------------------------------------------------------
(* The synchronizer of M2 and OPA.                                           *)

Entry(x) == [res |-> x.res, allow |-> x.allow, expires |-> x.expires]
AllEntries == {Entry(x) : x \in rows}
Fetched == {Entry(x) : x \in {y \in rows : y.expires > now}}

\* fetch_resources and push_resources: politicas_rbac does not change here. A
\* synchronization that fails changes nothing and is due again in the next round
\* of the loop, since only a success moves last_resources_sync.
SyncResources ==
    /\ ~opa.resources
    /\ opa' = [opa EXCEPT !.resources = TRUE]
    /\ UNCHANGED <<portal, loggedIn, network, now, faults>>

\* fetch_exceptions and push_exceptions. One step stands for both: nobody else
\* writes to OPA, so a row that changes in between might as well change after.
SyncExceptions ==
    /\ opa.exceptions # Fetched
    /\ opa' = [opa EXCEPT !.exceptions = Fetched]
    /\ UNCHANGED <<portal, loggedIn, network, now, faults>>

\* OPA holds its data in memory.
OpaRestarts ==
    /\ Fault
    /\ opa' = [resources |-> FALSE, exceptions |-> {}]
    /\ UNCHANGED <<portal, loggedIn, network, now>>

-----------------------------------------------------------------------------
(* policy.rego and M6.                                                       *)

\* A denial has no look at its date (_denied_rids), a permission has.
Denied == {x.res : x \in {y \in opa.exceptions : ~y.allow}}
AllowMap == {x \in opa.exceptions : x.allow /\ x.expires > now /\ x.res \notin Denied}
DenyMap == {x \in opa.exceptions : ~x.allow}

\* Two different values of one key of user_allow_map or user_deny_map are an
\* error of the evaluation, and OPA answers the query with it.
Conflict ==
    \E x, y \in AllowMap \cup DenyMap :
        x.res = y.res /\ x.allow = y.allow /\ x # y

Rbac == {Own}
Granted(res) ==
    [res |-> res, table |-> "T2", expires |-> Never, checked |-> Never]
\* construir_permiso: an exception first, the role's permission if there is none.
Permits ==
    IF ~opa.resources THEN {}
    ELSE {[res |-> x.res, table |-> "T3", expires |-> x.expires, checked |-> Never]
            : x \in AllowMap}
         \cup {Granted(r) : r \in Rbac \ (Denied \cup {x.res : x \in AllowMap})}

\* get_policies for a packet-in of the student: OPA, else MySQL, else the table
\* of the code. An empty answer of OPA is an answer, an error is none; a fault
\* here takes OPA away, and MySQL with it or not.
Query(res) ==
    /\ loggedIn /\ packet = Nothing /\ flows = {}
    /\ \/ /\ ~Conflict /\ UNCHANGED faults
          /\ packet' \in {p \in Permits : p.res = res}
       \/ /\ (Conflict /\ UNCHANGED faults) \/ Fault
          /\ res \in Rbac \/ (faults' > faults /\ res \in Hardcoded)
          /\ packet' = Granted(res)
    /\ UNCHANGED <<portal, loggedIn, opa, flows, now>>

\* _ttl_permiso, before the paths are looked for: what has expired goes no further.
Check ==
    /\ packet # Nothing /\ packet.checked = Never
    /\ packet' = IF packet.expires > now THEN [packet EXCEPT !.checked = now] ELSE Nothing
    /\ UNCHANGED <<portal, loggedIn, opa, flows, now, faults>>

\* Mutated form of Timeout: the date of the permission is not looked at.
TimeoutUncapped(p) == DataTimeout

\* The timeout _ttl_permiso gives every flow of the path, from what was left then.
Timeout(p) ==
    IF p.expires = Never \/ DataTimeout < p.expires - p.checked
    THEN DataTimeout ELSE p.expires - p.checked

\* One of the POSTs to ONOS, after calcular_pasos has asked it for the paths: the date
\* may be over by now.
Install ==
    /\ packet.checked # Never
    /\ flows' = {[expires |-> packet.expires, checked |-> packet.checked, last |-> now]}
    /\ packet' = Nothing
    /\ UNCHANGED <<portal, loggedIn, opa, now, faults>>

\* There is no path, or ONOS does not take the flow.
NotInstalled ==
    /\ packet.checked # Never
    /\ packet' = Nothing
    /\ UNCHANGED <<portal, loggedIn, opa, flows, now, faults>>

\* A packet of the student matches the flow.
Used(f) ==
    /\ flows' = (flows \ {f}) \cup {[f EXCEPT !.last = now]}
    /\ UNCHANGED <<portal, loggedIn, opa, packet, now, faults>>

\* The session is closed, or its path recovered.
FlowDeleted(f) ==
    /\ flows' = flows \ {f}
    /\ UNCHANGED <<portal, loggedIn, opa, packet, now, faults>>

\* Time passes, and ONOS removes a flow that no packet has used for its timeout.
Tick ==
    /\ now < MaxTime /\ now' = now + 1
    /\ flows' = {f \in flows : now' < f.last + Timeout(f)}
    /\ UNCHANGED <<portal, loggedIn, opa, packet, faults>>

Next ==
    \/ \E t \in Applicants : Ask(t) \/ \E c \in Careers : Insert(t, c)
    \/ \E t \in Admins :
        \/ \E r \in Ids, a \in DOMAIN Outcome : Read(t, r, a)
        \/ Previous(t) \/ Drop(t) \/ Mark(t)
        \/ \E e \in Expirations : Grant(t, e)
    \/ \E t \in Applicants \cup Admins : GiveUp(t)
    \/ Session \/ SyncResources \/ SyncExceptions \/ OpaRestarts
    \/ \E r \in Asked : Query(r)
    \/ Check \/ Install \/ NotInstalled
    \/ \E f \in flows : Used(f) \/ FlowDeleted(f)
    \/ Tick

Spec == Init /\ [][Next]_vars
FairSpec == Spec /\ WF_vars(SyncResources) /\ WF_vars(SyncExceptions)

-----------------------------------------------------------------------------
(* Properties                                                                *)

RowsOf(r) == {x.res : x \in {y \in rows : y.by = r}}

\* GrantsMatch: the rows of politicas_temporales and the states of the
\* applications are written by separate transactions of different calls, and
\* resolver_solicitud_jp deletes by resource and not by application. Still an
\* application has its rows exactly while it is approved, unless its own
\* resolution was disturbed: by another resolution, a failing call to MySQL, a
\* second live application, or a login or logout before its revocation.
GrantsMatch ==
    \A r \in Ids \ (disturbed \cup Resolving) :
        RowsOf(r) = IF requests[r].state = "APROBADA"
                    THEN ResourcesFor(requests[r].career) ELSE {}

\* OneLiveExplained: "un usuario solo puede tener una solicitud en estado
\* PENDIENTE o APROBADA a la vez" is a rule of the code and not of the table
\* (radius_db_pucp_sdn.sql:327). It takes overlapping calls, or a look that failed
\* and let the application through, to break it.
OneLiveExplained == Cardinality(LiveIds) > 1 => overlapped

\* OpaAnswers: two exceptions of one resource with different dates make
\* policy.rego fail for every resource of the user, and M6 falls back to the
\* permissions of the role. No history of applications leads there without a
\* disturbed resolution, however old the copy in OPA is.
OpaAnswers == Conflict => disturbed # {}

\* RunsOut: M6 looks at the date of a permission before it looks for the paths, and
\* gives the flows what is left then as their timeout; ONOS gets them later, and counts
\* the timeout from the last packet (m6_traductor.py:2165-2178, 2198-2336). A flow
\* outlives its last packet by no more than what was left at that look, so an unused one
\* outlives the date by no more than its installation took. One in use stays past the
\* date: nothing deletes it.
RunsOut ==
    \A f \in flows : f.expires # Never => now < f.last + (f.expires - f.checked)

\* OpaCatchesUp: once MySQL and OPA stop failing and nobody resolves anything,
\* the copy in OPA is what the tables say: what was revoked or has expired is
\* gone, and what was approved is there, after a restart of OPA too.
OpaCatchesUp ==
    <>[](/\ opa.resources
         /\ opa.exceptions = {Entry(x) : x \in {y \in rows : y.expires > now}})
=============================================================================
