-------------------------------- MODULE Logins --------------------------------
(***************************************************************************)
(* M1's portal: login of users and of visitors, logout, and the tables     *)
(* they work on.                                                           *)
(*                                                                         *)
(* Requests are handled by Flask threads.  Every method of UserManager and *)
(* SessionManager opens a connection of its own, so each is a transaction  *)
(* and a step of its own, and what one of them has checked may have        *)
(* changed before the next one writes.  A method that gets no connection   *)
(* mostly answers as if nothing stood in the way.                          *)
(***************************************************************************)
EXTENDS Naturals, FiniteSets

CONSTANTS
    Threads,        \* request handlers at work at the same time
    Users,          \* registered users
    Visitors,       \* visitors, who have no row in "usuarios"
    Guest,          \* id_usuario 0, which all visitors share
    Macs, Ips, Ports,
    Hosts,          \* what M6 may resolve an address to
    Reach,          \* bound: the hosts that each person logs in from
    MaxAttempts,    \* MAX_INTENTOS
    Outages,        \* bound: how often a connection to MySQL fails
    MaxSessions,    \* bound: sessions ever registered
    MaxFailures     \* bound: rejections of a user that are counted

ASSUME LoginConstants ==
    /\ Hosts \subseteq [mac : Macs, ip : Ips, port : Ports] /\ Hosts # {}
    /\ Users \cap Visitors = {} /\ Users \cup Visitors # {}
    /\ Reach \in [Users \cup Visitors -> SUBSET Hosts]
    /\ Guest \notin Users \cup Visitors
    /\ MaxAttempts \in Nat \ {0} /\ Outages \in Nat
    /\ MaxSessions \in Nat /\ MaxFailures \in Nat

People == Users \cup Visitors
Id(p) == IF p \in Users THEN p ELSE Guest
Sids == 1 .. MaxSessions

\* who is history: the table has id_usuario 0 for all visitors.
Row     == [id : Sids, user : Users \cup {Guest}, who : People \cup {Guest},
            mac : Macs, ip : Ips, port : Ports]
Binding == [sid : Sids, mac : Macs, ip : Ips, port : Ports]

VARIABLES
    attempts,       \* usuarios.intentos_fallidos
    blocked,        \* usuarios.estado_cuenta = 'BLOQUEADO', as a set
    credentials,    \* visitors with credentials in radcheck
    rows,           \* sesiones_activas
    bindings,       \* ip_mac_binding
    next,           \* the next id_sesion
    pc,             \* where each thread is
    req,            \* the request it handles
    failures,       \* history: rejections since the last good login
    raced,          \* history: users two of whose attempts were counted at once
    excused,        \* history: pairs of sessions that could not see each other
    stranded,       \* history: visitors whose session was closed without their name
    outages         \* how often a connection has failed

accounts == <<attempts, blocked, credentials>>
tables == <<rows, bindings, next>>
history == <<failures, raced, excused, stranded>>
loginVars == <<accounts, tables, pc, req, history, outages>>

Blank == [who |-> CHOOSE p \in People : TRUE, host |-> CHOOSE h \in Hosts : TRUE,
          sid |-> 0, seen |-> 0, unseen |-> {}]

LoginInit ==
    /\ attempts = [u \in Users |-> 0] /\ blocked = {} /\ credentials = {}
    /\ rows = {} /\ bindings = {} /\ next = 1
    /\ pc = [t \in Threads |-> "idle"] /\ req = [t \in Threads |-> Blank]
    /\ failures = [u \in Users |-> 0] /\ raced = {} /\ excused = {} /\ stranded = {}
    /\ outages = 0

Go(t, there, r) ==
    /\ pc' = [pc EXCEPT ![t] = there]
    /\ req' = [req EXCEPT ![t] = r]
Leave(t) == Go(t, "idle", Blank)

\* The database answers, or there is no connection to it.
Up == UNCHANGED outages
Down == outages < Outages /\ outages' = outages + 1

\* A check that stands in the way only of a request that reaches the database.
\* An outage that makes no difference is not counted.
UnlessDown(passes) == IF passes THEN Up ELSE Down

-----------------------------------------------------------------------------
(***************************************************************************)
(* Who is there: accounts, RADIUS, the host                                *)
(***************************************************************************)
\* is_blocked: without a connection nobody is.
BeginLogin(t, u) ==
    /\ pc[t] = "idle" /\ u \in Users
    /\ UnlessDown(u \notin blocked)
    /\ Go(t, "radius", [Blank EXCEPT !.who = u])
    /\ UNCHANGED <<accounts, tables, history>>

\* registrar_visitante; when it fails the request ends and nothing has changed.
BeginVisit(t, v) ==
    /\ pc[t] = "idle" /\ v \in Visitors
    /\ credentials' = credentials \cup {v}
    /\ Go(t, "radius", [Blank EXCEPT !.who = v])
    /\ UNCHANGED <<attempts, blocked, tables, history, outages>>

\* Access-Accept, a known role, an id, and a host that M6 resolves.  FreeRADIUS
\* knows a visitor by the credentials only.
Accepted(t, h) ==
    /\ pc[t] = "radius" /\ h \in Reach[req[t].who]
    /\ req[t].who \in Visitors => req[t].who \in credentials
    /\ Go(t, "located", [req[t] EXCEPT !.host = h])
    /\ UNCHANGED <<accounts, tables, history, outages>>

\* Access-Reject, or no answer from FreeRADIUS, which counts just the same.
Rejected(t) ==
    /\ pc[t] = "radius" /\ req[t].who \in Users
    /\ failures[req[t].who] < MaxFailures /\ attempts[req[t].who] < MaxFailures
    /\ failures' = [failures EXCEPT ![req[t].who] = @ + 1]
    /\ Go(t, "rejected", req[t])
    /\ UNCHANGED <<accounts, tables, raced, excused, stranded, outages>>

\* increment_failed_attempt: the row is read, not locked, ...
ReadAttempts(t) ==
    /\ pc[t] = "rejected"
    /\ Go(t, "counting", [req[t] EXCEPT !.seen = attempts[req[t].who]])
    /\ UNCHANGED <<accounts, tables, history, outages>>

\* Mutated form of CountAttempt: the account is locked one rejection later.
CountAttemptLate(t) ==
    LET u == req[t].who
        n == req[t].seen + 1
    IN /\ pc[t] = "counting"
       /\ attempts' = [attempts EXCEPT ![u] = n]
       /\ blocked' = IF n > MaxAttempts THEN blocked \cup {u} ELSE blocked
       /\ raced' = IF attempts[u] = req[t].seen THEN raced ELSE raced \cup {u}
       /\ Leave(t)
       /\ UNCHANGED <<credentials, tables, failures, excused, stranded, outages>>

\* ... and written with what was read, plus one.
CountAttempt(t) ==
    LET u == req[t].who
        n == req[t].seen + 1
    IN /\ pc[t] = "counting"
       /\ attempts' = [attempts EXCEPT ![u] = n]
       /\ blocked' = IF n >= MaxAttempts THEN blocked \cup {u} ELSE blocked
       /\ raced' = IF attempts[u] = req[t].seen THEN raced ELSE raced \cup {u}
       /\ Leave(t)
       /\ UNCHANGED <<credentials, tables, failures, excused, stranded, outages>>

\* Without a connection the attempt is not counted.
AttemptLost(t) ==
    /\ Down
    /\ pc[t] \in {"rejected", "counting"}
    /\ raced' = raced \cup {req[t].who}
    /\ Leave(t)
    /\ UNCHANGED <<accounts, tables, failures, excused, stranded>>

-----------------------------------------------------------------------------
(***************************************************************************)
(* A login that was accepted: the checks and the tables                    *)
(***************************************************************************)
\* Two rows a login may not have beside each other: of one user, or of one host.
HostAt(r) == [mac |-> r.mac, ip |-> r.ip, port |-> r.port]
SameHost(r, h) == r.ip = h.ip \/ r.mac = h.mac \/ r.port = h.port
Conflict(r, id, h) == (id # Guest /\ r.user = id) \/ SameHost(r, h)

\* verify_antispoofing: an address and a MAC are bound to each other or free.
\* Any failure of the database counts as free.
AntiSpoofing(h) == \A b \in bindings : b.ip = h.ip <=> b.mac = h.mac

PassAntiSpoofing(t) ==
    /\ pc[t] = "located"
    /\ UnlessDown(AntiSpoofing(req[t].host))
    /\ Go(t, "checked", req[t])
    /\ UNCHANGED <<accounts, tables, history>>

\* Mutated form of LoginBinding: the user is not looked for.
LoginBindingByHost(id, h) == \A r \in rows : ~SameHost(r, h)

\* Mutated form of LoginBinding: only the user is looked for.
LoginBindingByUser(id, h) == \A r \in rows : id = Guest \/ r.user # id

\* validate_login_binding: no active session of the user, the address, the MAC
\* or the port.
LoginBinding(id, h) == \A r \in rows : ~Conflict(r, id, h)

\* The check passes, or there is no connection to make it with.
PassValidation(t) ==
    /\ pc[t] = "checked"
    /\ \/ /\ LoginBinding(Id(req[t].who), req[t].host)
          /\ Go(t, "validated", [req[t] EXCEPT !.unseen = {}])
          /\ Up
       \/ /\ ~LoginBinding(Id(req[t].who), req[t].host)
          /\ Go(t, "validated", [req[t] EXCEPT !.unseen = Sids])
          /\ Down
    /\ UNCHANGED <<accounts, tables, history>>

\* Mutated form of Forget: the credentials stay.
ForgetNot(p) == UNCHANGED <<credentials, stranded, outages>>

\* eliminar_visitante takes the credentials of a visitor out of radcheck, if it can.
Forget(p) ==
    \/ credentials' = credentials \ {p} /\ stranded' = stranded \ {p} /\ Up
    \/ p \in credentials /\ UNCHANGED <<credentials, stranded>> /\ Down

\* FreeRADIUS refuses a visitor, the host is not resolved, a check fails, or there
\* is an error in the middle of one or of the registration: the request ends, and
\* the credentials of a visitor go.
Refused(t) ==
    LET h == req[t].host
        p == req[t].who
    IN /\ \/ /\ \/ pc[t] = "radius"
                \/ pc[t] = "located" /\ ~AntiSpoofing(h)
                \/ pc[t] = "checked" /\ ~LoginBinding(Id(p), h)
             /\ Forget(p)
          \/ /\ pc[t] \in {"checked", "validated"} /\ Down
             /\ credentials' \in {credentials, credentials \ {p}}
             /\ stranded' = stranded \cap credentials'
       /\ Leave(t)
       /\ UNCHANGED <<attempts, blocked, tables, failures, raced, excused>>

\* The id of the row that has the MAC, or a new one.
SidFor(mac) ==
    IF \E r \in rows : r.mac = mac THEN (CHOOSE r \in rows : r.mac = mac).id ELSE next

\* Those who have validated already do not see this session.
Overlook(t, sid, there, r) ==
    /\ pc' = [pc EXCEPT ![t] = there]
    /\ req' = [u \in Threads |->
                 IF u = t THEN r
                 ELSE IF pc[u] = "validated"
                   THEN [req[u] EXCEPT !.unseen = @ \cup {sid}]
                   ELSE req[u]]

\* register_session: INSERT ... ON DUPLICATE KEY UPDATE, the key being the MAC.
Register(t) ==
    LET h == req[t].host
        sid == SidFor(h.mac)
    IN /\ pc[t] = "validated"
       /\ sid <= MaxSessions
       /\ rows' = {r \in rows : r.mac # h.mac}
                  \cup {[id |-> sid, user |-> Id(req[t].who), who |-> req[t].who,
                         mac |-> h.mac, ip |-> h.ip, port |-> h.port]}
       /\ next' = IF sid = next THEN next + 1 ELSE next
       /\ excused' = excused \cup {{sid, s} : s \in req[t].unseen}
       /\ Overlook(t, sid, "registered", [req[t] EXCEPT !.sid = sid, !.unseen = {}])
       /\ UNCHANGED <<accounts, bindings, failures, raced, stranded, outages>>

\* create_binding: INSERT ... ON DUPLICATE KEY UPDATE, the keys being the address
\* and the MAC; of a row that is there only the port and the session change.  A
\* session that is gone by now fails the foreign key, and nothing is written.
Bound(t) ==
    LET h == req[t].host
        clash == {b \in bindings : b.ip = h.ip \/ b.mac = h.mac}
    IN IF \A r \in rows : r.id # req[t].sid
       THEN {bindings}
       ELSE IF clash = {}
       THEN {bindings \cup {[sid |-> req[t].sid, mac |-> h.mac, ip |-> h.ip,
                             port |-> h.port]}}
       ELSE {(bindings \ {b}) \cup {[b EXCEPT !.sid = req[t].sid, !.port = h.port]} :
                b \in clash}

\* Mutated form of Bind: the binding is put there without a session.
BindBlindly(t) ==
    LET h == req[t].host
    IN /\ pc[t] = "registered"
       /\ bindings' = {b \in bindings : b.ip # h.ip /\ b.mac # h.mac}
                      \cup {[sid |-> req[t].sid, mac |-> h.mac, ip |-> h.ip,
                             port |-> h.port]}
       /\ Go(t, "bound", req[t])
       /\ UNCHANGED <<accounts, rows, next, history, outages>>

Bind(t) ==
    /\ pc[t] = "registered"
    /\ (bindings' \in Bound(t) /\ Up) \/ (UNCHANGED bindings /\ Down)
    /\ Go(t, "bound", req[t])
    /\ UNCHANGED <<accounts, rows, next, history>>

\* reset_failed_attempts: the counter, not the state of the account.
ResetAttempts(u) == attempts' = [attempts EXCEPT ![u] = 0]

\* After reset_failed_attempts, emitir_token: the request waits for M6.
Welcome(t) ==
    LET p == req[t].who
    IN /\ pc[t] = "bound"
       /\ IF p \in Users
          THEN /\ failures' = [failures EXCEPT ![p] = 0]
               /\ \/ ResetAttempts(p) /\ raced' = raced \ {p} /\ Up
                  \/ UNCHANGED attempts /\ raced' = raced \cup {p} /\ Down
          ELSE UNCHANGED <<attempts, failures, raced, outages>>
       /\ Go(t, "token", req[t])
       /\ UNCHANGED <<blocked, credentials, tables, excused, stranded>>

\* Whatever M6 answers, or when it does not, the login has succeeded.
LoggedIn(t) ==
    /\ pc[t] = "token"
    /\ Leave(t)
    /\ UNCHANGED <<accounts, tables, history, outages>>

-----------------------------------------------------------------------------
(***************************************************************************)
(* Logout                                                                  *)
(***************************************************************************)
\* close_session finds the row by MAC and user; the client names both, and whoever
\* logged in there.  A client that was started again asks M1 for the session of its
\* host and goes by that: a visitor is nobody then (get_active_session).
BeginLogout(t, p) ==
    /\ pc[t] = "idle"
    /\ \E r \in rows :
          /\ r.user = Id(p)
          /\ Go(t, "leaving", [Blank EXCEPT !.who = p, !.host = HostAt(r), !.sid = r.id])
    /\ UNCHANGED <<accounts, tables, history, outages>>

\* Mutated form of Unbind: the bindings are left to themselves.
UnbindNothing(mac, sid) == bindings

\* The bindings of the MAC are deleted, and those of the session with it.
Unbind(mac, sid) == {b \in bindings : b.mac # mac /\ b.sid # sid}

\* The rest of the transaction: history, bindings, and the row by its id.
CloseSession(t) ==
    LET sid == req[t].sid
    IN /\ pc[t] = "leaving"
       /\ rows' = {r \in rows : r.id # sid}
       /\ bindings' = Unbind(req[t].host.mac, sid)
       /\ stranded' = stranded \cup
              {v \in credentials \ {req[t].who} : \E r \in rows : r.id = sid /\ r.who = v}
       /\ Go(t, "notifying", req[t])
       /\ UNCHANGED <<accounts, next, failures, raced, excused, outages>>

CloseFails(t) ==
    /\ Down
    /\ pc[t] = "leaving"
    /\ Leave(t)
    /\ UNCHANGED <<accounts, tables, history>>

\* M6 has been told, or could not be; then the credentials of a visitor go.
LoggedOut(t) ==
    /\ pc[t] = "notifying"
    /\ Forget(req[t].who)
    /\ Leave(t)
    /\ UNCHANGED <<attempts, blocked, tables, failures, raced, excused>>

-----------------------------------------------------------------------------
\* What M1 does on its own; Welcome and CloseSession also call M6, and LoggedIn
\* and LoggedOut come after its answer.
AloneStep(t) ==
    \/ \E p \in People : BeginLogin(t, p) \/ BeginVisit(t, p)
    \/ \E p \in People \cup {Guest} : BeginLogout(t, p)
    \/ \E h \in Hosts : Accepted(t, h)
    \/ Rejected(t) \/ ReadAttempts(t) \/ CountAttempt(t) \/ AttemptLost(t)
    \/ PassAntiSpoofing(t) \/ PassValidation(t) \/ Refused(t)
    \/ Register(t) \/ Bind(t) \/ CloseFails(t)

LoginNext ==
    \E t \in Threads :
        AloneStep(t) \/ Welcome(t) \/ LoggedIn(t) \/ CloseSession(t) \/ LoggedOut(t)

LoginSpec == LoginInit /\ [][LoginNext]_loginVars

-----------------------------------------------------------------------------
(***************************************************************************)
(* Properties                                                              *)
(***************************************************************************)
Place == {"idle", "radius", "rejected", "counting", "located", "checked", "validated",
          "registered", "bound", "token", "leaving", "notifying"}
Request == [who : People \cup {Guest}, host : Hosts, sid : Sids \cup {0}, seen : Nat,
            unseen : SUBSET Sids]

\* Every variable keeps its shape; rows and bindings respect the keys of their
\* tables and the reference of a binding to its session.
LoginTypeOK ==
    /\ attempts \in [Users -> Nat] /\ blocked \subseteq Users
    /\ credentials \subseteq Visitors
    /\ rows \subseteq Row /\ bindings \subseteq Binding
    /\ next \in 1 .. MaxSessions + 1
    /\ \A r, s \in rows : r.id = s.id \/ r.mac = s.mac => r = s
    /\ \A b, c \in bindings : b.ip = c.ip \/ b.mac = c.mac => b = c
    /\ \A b \in bindings : \E r \in rows : r.id = b.sid
    /\ pc \in [Threads -> Place] /\ req \in [Threads -> Request]
    /\ failures \in [Users -> Nat] /\ raced \subseteq Users
    /\ outages \in 0 .. Outages
    /\ excused \subseteq SUBSET Sids /\ stranded \subseteq Visitors

\* No user has two active sessions, and no address, MAC or port is in two,
\* unless one of the two logins had been validated before the other session was
\* registered, or could not reach the database to be validated
\* (m1_auth.py:512-597 before 430-467).
DuplicatesExplained ==
    \A r, s \in rows :
        r # s /\ Conflict(r, s.user, s) => {r.id, s.id} \in excused

\* A session passes from one user to another only to a login that had been
\* validated before the session was there: register_session updates the row it
\* finds for the MAC (m1_auth.py:430-467).
TakeoverExplained ==
    [][\A r \in rows, s \in rows' :
          r.id = s.id /\ r.user # s.user =>
            \E t \in Threads :
                pc[t] = "validated" /\ pc'[t] = "registered" /\ r.id \in req[t].unseen
      ]_loginVars

\* The address and the MAC of a binding are those of its session, unless that
\* session came to be beside another, or any session was taken over: what
\* anti-spoofing relies on, since create_binding updates the session of a binding
\* but not its addresses (m1_auth.py:404-428, 599-620).
BindingsAgree ==
    (\A s \in Sids : {s} \notin excused) =>
        \A b \in bindings : \A r \in rows :
            r.id = b.sid /\ (\A p \in excused : r.id \notin p) =>
                b.ip = r.ip /\ b.mac = r.mac

\* An account whose logins were rejected MAX_INTENTOS times since the last good
\* one is locked once they are counted, unless one of them could not be counted
\* or was counted on top of a stale value (m1_auth.py:251-344, 925-953).
LockedInTime ==
    \A u \in Users :
        failures[u] >= MaxAttempts =>
            \/ u \in blocked \cup raced
            \/ \E t \in Threads :
                  pc[t] \in {"rejected", "counting"} /\ req[t].who = u

\* A visitor keeps credentials only while a request or a session of his is there
\* to remove them, unless some session was taken over, which may have been his, or
\* a client closed his without his name, or the database has failed
\* (m1_auth.py:1089-1266, 1293-1294).
CredentialsUsed ==
    \A v \in credentials :
        \/ \E t \in Threads : pc[t] # "idle" /\ req[t].who = v
        \/ \E r \in rows : r.who = v
        \/ v \in stranded
        \/ \E s \in Sids : {s} \in excused
        \/ outages > 0

=============================================================================
