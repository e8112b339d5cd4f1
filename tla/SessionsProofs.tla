---------------------------- MODULE SessionsProofs ----------------------------
(***************************************************************************)
(* Theorems about Logins, for any requests, people, hosts, lockout limit   *)
(* and number of outages; and about Sessions: that M1 behaves with M6 as   *)
(* Logins says it does alone, and what M6 knows of the flows in ONOS.      *)
(***************************************************************************)
EXTENDS Sessions, FiniteSetTheorems, TLAPS

-----------------------------------------------------------------------------
(***************************************************************************)
(* M1 alone: the invariant, in the parts a step disturbs together          *)
(***************************************************************************)
AccountsOK ==
    /\ attempts \in [Users -> Nat] /\ blocked \subseteq Users
    /\ credentials \subseteq Visitors
    /\ failures \in [Users -> Nat] /\ raced \subseteq Users
    /\ outages \in 0 .. Outages

\* Besides the keys and the reference: ids are given out once, and a session is
\* of a host that M6 has resolved.
TablesOK ==
    /\ rows \subseteq Row /\ bindings \subseteq Binding
    /\ next \in 1 .. MaxSessions + 1
    /\ \A r, s \in rows : r.id = s.id \/ r.mac = s.mac => r = s
    /\ \A b, c \in bindings : b.ip = c.ip \/ b.mac = c.mac => b = c
    /\ \A b \in bindings : \E r \in rows : r.id = b.sid
    /\ \A r \in rows : r.id < next /\ HostAt(r) \in Hosts

\* Only the rejections of users are counted.
RequestsOK ==
    /\ pc \in [Threads -> Place] /\ req \in [Threads -> Request]
    /\ \A t \in Threads : pc[t] \in {"rejected", "counting"} => req[t].who \in Users

\* A login that was validated knows of every session in conflict with it that it
\* could not see.
ConflictsSeen ==
    \A t \in Threads : pc[t] = "validated" =>
        \A r \in rows :
            Conflict(r, Id(req[t].who), req[t].host) => r.id \in req[t].unseen

Shapes ==
    /\ AccountsOK /\ TablesOK /\ RequestsOK
    /\ excused \subseteq SUBSET Sids /\ stranded \subseteq Visitors

LEMMA ShapesAreType == Shapes => LoginTypeOK
BY DEF Shapes, AccountsOK, TablesOK, RequestsOK, LoginTypeOK

LEMMA BlankFact == Blank \in Request
<1>1. (CHOOSE p \in People : TRUE) \in People /\ (CHOOSE h \in Hosts : TRUE) \in Hosts
    BY LoginConstants DEF People
<1> QED BY <1>1 DEF Blank, Request

LEMMA IdFact == \A p \in People \cup {Guest} : Id(p) \in Users \cup {Guest}
BY DEF Id

LEMMA HostFact ==
    ASSUME NEW h \in Hosts
    PROVE  /\ h.mac \in Macs /\ h.ip \in Ips /\ h.port \in Ports
           /\ h = [mac |-> h.mac, ip |-> h.ip, port |-> h.port]
BY LoginConstants

\* A step of a request that only moves on.
LEMMA GoFact ==
    ASSUME RequestsOK, NEW t \in Threads, NEW there \in Place, NEW r \in Request,
           there \in {"rejected", "counting"} => r.who \in Users,
           Go(t, there, r)
    PROVE  RequestsOK'
BY DEF RequestsOK, Go

LEMMA LeaveFact ==
    ASSUME RequestsOK, NEW t \in Threads, Leave(t)
    PROVE  RequestsOK'
<1>1. "idle" \in Place
    BY DEF Place
<1> QED BY <1>1, BlankFact, GoFact DEF Leave

-----------------------------------------------------------------------------
\* Accounts, attempts and credentials keep their shape.
LEMMA AccountsStep == Shapes /\ LoginNext => AccountsOK'
<1> SUFFICES ASSUME Shapes, NEW t \in Threads,
                    AloneStep(t) \/ Welcome(t) \/ LoggedIn(t)
                      \/ CloseSession(t) \/ LoggedOut(t)
             PROVE  AccountsOK'
    BY DEF LoginNext
<1> USE LoginConstants DEF AccountsOK
<1>a. AccountsOK /\ req[t] \in Request
    BY DEF Shapes, RequestsOK
<1>b. (pc[t] \in {"rejected", "counting"} => req[t].who \in Users) /\ req[t].seen \in Nat
    BY DEF Shapes, RequestsOK, Request
<1>u. ASSUME Up PROVE outages' \in 0 .. Outages
    BY <1>u, <1>a DEF Up
<1>d. ASSUME Down PROVE outages' \in 0 .. Outages
    BY <1>d, <1>a DEF Down
<1>1. ASSUME NEW p \in People, BeginLogin(t, p) PROVE AccountsOK'
    BY <1>1, <1>a, <1>u, <1>d DEF BeginLogin, UnlessDown, accounts, history
<1>2. ASSUME NEW p \in People, BeginVisit(t, p) PROVE AccountsOK'
    BY <1>2, <1>a DEF BeginVisit, history
<1>3. ASSUME NEW p \in People \cup {Guest}, BeginLogout(t, p) PROVE AccountsOK'
    BY <1>3, <1>a DEF BeginLogout, accounts, history
<1>4. ASSUME NEW h \in Hosts, Accepted(t, h) PROVE AccountsOK'
    BY <1>4, <1>a DEF Accepted, accounts, history
<1>5. CASE Rejected(t)
    BY <1>5, <1>a DEF Rejected, accounts
<1>6. CASE ReadAttempts(t)
    BY <1>6, <1>a DEF ReadAttempts, accounts, history
<1>7. CASE CountAttempt(t)
    BY <1>7, <1>a, <1>b DEF CountAttempt
<1>8. CASE AttemptLost(t)
    BY <1>8, <1>a, <1>b, <1>d DEF AttemptLost, accounts
<1>9. CASE PassAntiSpoofing(t)
    BY <1>9, <1>a, <1>u, <1>d DEF PassAntiSpoofing, UnlessDown, accounts, history
<1>10. CASE PassValidation(t)
    BY <1>10, <1>a, <1>u, <1>d DEF PassValidation, accounts, history
<1>11. CASE Refused(t)
    BY <1>11, <1>a, <1>u, <1>d DEF Refused, Forget, history
<1>12. CASE Register(t)
    BY <1>12, <1>a DEF Register, accounts
<1>13. CASE Bind(t)
    BY <1>13, <1>a, <1>u, <1>d DEF Bind, accounts, history
<1>14. CASE CloseFails(t)
    BY <1>14, <1>a, <1>d DEF CloseFails, accounts, history
<1>15. CASE Welcome(t)
    <2>1. CASE req[t].who \in Users
        BY <1>15, <2>1, <1>a, <1>u, <1>d DEF Welcome, ResetAttempts
    <2>2. CASE req[t].who \notin Users
        BY <1>15, <2>2, <1>a DEF Welcome
    <2> QED BY <2>1, <2>2
<1>16. CASE LoggedIn(t)
    BY <1>16, <1>a DEF LoggedIn, accounts, history
<1>17. CASE CloseSession(t)
    BY <1>17, <1>a DEF CloseSession, accounts, history
<1>18. CASE LoggedOut(t)
    BY <1>18, <1>a, <1>u, <1>d DEF LoggedOut, Forget, history
<1> QED
    BY <1>1, <1>2, <1>3, <1>4, <1>5, <1>6, <1>7, <1>8, <1>9, <1>10, <1>11, <1>12, <1>13,
       <1>14, <1>15, <1>16, <1>17, <1>18 DEF AloneStep

\* Every request is at one of the places, with a request of the right shape.
LEMMA RequestsStep == Shapes /\ LoginNext => RequestsOK'
<1> SUFFICES ASSUME Shapes, NEW t \in Threads,
                    AloneStep(t) \/ Welcome(t) \/ LoggedIn(t)
                      \/ CloseSession(t) \/ LoggedOut(t)
             PROVE  RequestsOK'
    BY DEF LoginNext
<1>a. RequestsOK /\ req[t] \in Request /\ TablesOK /\ AccountsOK
    BY DEF Shapes, RequestsOK
<1>b. /\ "radius" \in Place /\ "rejected" \in Place /\ "counting" \in Place
      /\ "located" \in Place /\ "checked" \in Place /\ "validated" \in Place
      /\ "registered" \in Place /\ "bound" \in Place /\ "token" \in Place
      /\ "leaving" \in Place /\ "notifying" \in Place
    BY DEF Place
<1>c. \A p \in People \cup {Guest} : [Blank EXCEPT !.who = p] \in Request
    BY BlankFact DEF Request
<1>1. ASSUME NEW p \in People, BeginLogin(t, p) PROVE RequestsOK'
    BY <1>1, <1>a, <1>b, <1>c, GoFact DEF BeginLogin
<1>2. ASSUME NEW p \in People, BeginVisit(t, p) PROVE RequestsOK'
    BY <1>2, <1>a, <1>b, <1>c, GoFact DEF BeginVisit
<1>3. ASSUME NEW p \in People \cup {Guest}, BeginLogout(t, p) PROVE RequestsOK'
    <2>1. PICK r \in rows :
             Go(t, "leaving", [Blank EXCEPT !.who = p, !.host = HostAt(r), !.sid = r.id])
        BY <1>3 DEF BeginLogout
    <2>2. HostAt(r) \in Hosts /\ r.id \in Sids
        BY <1>a DEF TablesOK, Row
    <2>3. [Blank EXCEPT !.who = p, !.host = HostAt(r), !.sid = r.id] \in Request
        BY <2>2, BlankFact DEF Request
    <2> QED BY <2>1, <2>3, <1>a, <1>b, GoFact
<1>4. ASSUME NEW h \in Hosts, Accepted(t, h) PROVE RequestsOK'
    <2>1. [req[t] EXCEPT !.host = h] \in Request
        BY <1>a DEF Request
    <2> QED BY <1>4, <2>1, <1>a, <1>b, GoFact DEF Accepted
<1>5. CASE Rejected(t)
    BY <1>5, <1>a, <1>b, GoFact DEF Rejected
<1>6. CASE ReadAttempts(t)
    <2>1. req[t].who \in Users /\ attempts[req[t].who] \in Nat
        BY <1>6, <1>a DEF ReadAttempts, RequestsOK, AccountsOK
    <2>2. /\ [req[t] EXCEPT !.seen = attempts[req[t].who]] \in Request
          /\ [req[t] EXCEPT !.seen = attempts[req[t].who]].who = req[t].who
        BY <2>1, <1>a DEF Request
    <2> QED BY <1>6, <2>1, <2>2, <1>a, <1>b, GoFact DEF ReadAttempts
<1>7. CASE CountAttempt(t)
    BY <1>7, <1>a, LeaveFact DEF CountAttempt
<1>8. CASE AttemptLost(t)
    BY <1>8, <1>a, LeaveFact DEF AttemptLost
<1>9. CASE PassAntiSpoofing(t)
    BY <1>9, <1>a, <1>b, GoFact DEF PassAntiSpoofing
<1>10. CASE PassValidation(t)
    <2>1. /\ [req[t] EXCEPT !.unseen = {}] \in Request
          /\ [req[t] EXCEPT !.unseen = Sids] \in Request
        BY <1>a DEF Request
    <2> QED BY <1>10, <2>1, <1>a, <1>b, GoFact DEF PassValidation
<1>11. CASE Refused(t)
    BY <1>11, <1>a, LeaveFact DEF Refused
<1>12. CASE Register(t)
    <2> DEFINE sid == SidFor(req[t].host.mac)
    <2>1. sid \in Sids
        BY <1>12, <1>a DEF Register, SidFor, TablesOK, Row, Sids
    <2>2. [req[t] EXCEPT !.sid = sid, !.unseen = {}] \in Request
        BY <2>1, <1>a DEF Request
    <2>3. \A u \in Threads : [req[u] EXCEPT !.unseen = @ \cup {sid}] \in Request
        BY <2>1, <1>a DEF RequestsOK, Request
    <2>4. Overlook(t, sid, "registered", [req[t] EXCEPT !.sid = sid, !.unseen = {}])
        BY <1>12 DEF Register
    <2>5. pc' \in [Threads -> Place] /\ req' \in [Threads -> Request]
        BY <2>2, <2>3, <2>4, <1>a, <1>b DEF Overlook, RequestsOK
    <2>6. \A u \in Threads : u # t => pc'[u] = pc[u] /\ req'[u].who = req[u].who
        BY <2>4, <1>a DEF Overlook, RequestsOK, Request
    <2>7. pc'[t] = "registered"
        BY <2>4, <1>a DEF Overlook, RequestsOK
    <2> QED BY <2>5, <2>6, <2>7, <1>a DEF RequestsOK
<1>13. CASE Bind(t)
    BY <1>13, <1>a, <1>b, GoFact DEF Bind
<1>14. CASE CloseFails(t)
    BY <1>14, <1>a, LeaveFact DEF CloseFails
<1>15. CASE Welcome(t)
    BY <1>15, <1>a, <1>b, GoFact DEF Welcome
<1>16. CASE LoggedIn(t)
    BY <1>16, <1>a, LeaveFact DEF LoggedIn
<1>17. CASE CloseSession(t)
    BY <1>17, <1>a, <1>b, GoFact DEF CloseSession
<1>18. CASE LoggedOut(t)
    BY <1>18, <1>a, LeaveFact DEF LoggedOut
<1> QED
    BY <1>1, <1>2, <1>3, <1>4, <1>5, <1>6, <1>7, <1>8, <1>9, <1>10, <1>11, <1>12, <1>13,
       <1>14, <1>15, <1>16, <1>17, <1>18 DEF AloneStep

-----------------------------------------------------------------------------
\* What register_session writes: one row, of the machine and its user, with the
\* id the MAC had or with a new one.
LEMMA RegisterFact ==
    ASSUME Shapes, NEW t \in Threads, Register(t)
    PROVE  LET h == req[t].host
               sid == SidFor(h.mac)
               new == [id |-> sid, user |-> Id(req[t].who), who |-> req[t].who,
                       mac |-> h.mac, ip |-> h.ip, port |-> h.port]
           IN /\ new \in Row /\ HostAt(new) \in Hosts
              /\ rows' = {r \in rows : r.mac # h.mac} \cup {new}
              /\ \A r \in rows : r.id = sid <=> r.mac = h.mac
              /\ next' \in 1 .. MaxSessions + 1 /\ next <= next' /\ sid < next'
              /\ bindings' = bindings
<1> DEFINE h == req[t].host
           sid == SidFor(h.mac)
           new == [id |-> sid, user |-> Id(req[t].who), who |-> req[t].who,
                   mac |-> h.mac, ip |-> h.ip, port |-> h.port]
<1>a. TablesOK /\ req[t] \in Request
    BY DEF Shapes, RequestsOK
<1>1. h \in Hosts /\ req[t].who \in People \cup {Guest}
    BY <1>a DEF Request
<1>2. sid <= MaxSessions /\ rows' = {r \in rows : r.mac # h.mac} \cup {new}
      /\ next' = (IF sid = next THEN next + 1 ELSE next) /\ bindings' = bindings
    BY DEF Register
<1>3. CASE \E r \in rows : r.mac = h.mac
    <2>1. PICK r \in rows : r.mac = h.mac /\ sid = r.id
        BY <1>3 DEF SidFor
    <2>2. sid \in Sids /\ sid < next /\ next \in 1 .. MaxSessions + 1
        BY <2>1, <1>a DEF TablesOK, Row
    <2>3. \A q \in rows : q.id = sid <=> q.mac = h.mac
        BY <2>1, <1>a DEF TablesOK
    <2>4. next' = next
        BY <1>2, <2>2 DEF Sids
    <2>5. new \in Row /\ HostAt(new) = h
        BY <1>1, <2>2, IdFact, HostFact DEF Row, HostAt
    <2> QED BY <1>1, <1>2, <2>2, <2>3, <2>4, <2>5 DEF Sids
<1>4. CASE \A r \in rows : r.mac # h.mac
    <2>1. sid = next
        BY <1>4 DEF SidFor
    <2>2. next \in 1 .. MaxSessions + 1 /\ \A r \in rows : r.id \in Sids /\ r.id < next
        BY <1>a DEF TablesOK, Row
    <2>3. sid \in Sids /\ next' = next + 1 /\ next' \in 1 .. MaxSessions + 1
        BY <1>2, <2>1, <2>2, LoginConstants DEF Sids
    <2>4. \A r \in rows : r.id # sid
        BY <2>1, <2>2 DEF Sids
    <2>5. new \in Row /\ HostAt(new) = h
        BY <1>1, <2>3, IdFact, HostFact DEF Row, HostAt
    <2> QED BY <1>1, <1>2, <1>4, <2>1, <2>2, <2>3, <2>4, <2>5 DEF Sids
<1> QED BY <1>3, <1>4

\* The tables respect their keys and the reference of bindings to sessions.
LEMMA TablesStep == Shapes /\ LoginNext => TablesOK'
<1> SUFFICES ASSUME Shapes, NEW t \in Threads,
                    AloneStep(t) \/ Welcome(t) \/ LoggedIn(t)
                      \/ CloseSession(t) \/ LoggedOut(t)
             PROVE  TablesOK'
    BY DEF LoginNext
<1>a. TablesOK /\ req[t] \in Request
    BY DEF Shapes, RequestsOK
<1>1. CASE UNCHANGED tables
    BY <1>1, <1>a DEF tables, TablesOK, HostAt
<1>2. CASE Register(t)
    <2> DEFINE h == req[t].host
               sid == SidFor(h.mac)
               new == [id |-> sid, user |-> Id(req[t].who), who |-> req[t].who,
                       mac |-> h.mac, ip |-> h.ip, port |-> h.port]
    <2>1. /\ new \in Row /\ HostAt(new) \in Hosts
          /\ rows' = {r \in rows : r.mac # h.mac} \cup {new}
          /\ \A r \in rows : r.id = sid <=> r.mac = h.mac
          /\ next' \in 1 .. MaxSessions + 1 /\ next <= next' /\ sid < next'
          /\ bindings' = bindings
        BY <1>2, RegisterFact
    <2>2. new.id = sid /\ new.mac = h.mac
        OBVIOUS
    <2> HIDE DEF new, sid
    <2>3. rows' \subseteq Row
        BY <2>1, <1>a DEF TablesOK
    <2>4. \A r \in rows' : r.id < next' /\ HostAt(r) \in Hosts
        <3>1. \A r \in rows : r.id < next' /\ HostAt(r) \in Hosts
            BY <2>1, <1>a DEF TablesOK, Row, Sids
        <3> QED BY <3>1, <2>1, <2>2
    <2>5. \A r, s \in rows' : r.id = s.id \/ r.mac = s.mac => r = s
        BY <2>1, <2>2, <1>a DEF TablesOK
    <2>6. \A b \in bindings' : \E r \in rows' : r.id = b.sid
        <3>1. \A r \in rows : \E s \in rows' : s.id = r.id
            BY <2>1, <2>2
        <3> QED BY <3>1, <2>1, <1>a DEF TablesOK
    <2> QED BY <2>1, <2>3, <2>4, <2>5, <2>6, <1>a DEF TablesOK, HostAt
<1>3. CASE Bind(t)
    <2> DEFINE h == req[t].host
               new == [sid |-> req[t].sid, mac |-> h.mac, ip |-> h.ip, port |-> h.port]
               kept(b) == [b EXCEPT !.sid = req[t].sid, !.port = h.port]
    <2>1. UNCHANGED <<rows, next>> /\ (bindings' = bindings \/ bindings' \in Bound(t))
        BY <1>3 DEF Bind
    <2>2. CASE bindings' = bindings
        BY <2>1, <2>2, <1>a DEF TablesOK, HostAt
    <2>3. CASE bindings' \in Bound(t) /\ \E r \in rows : r.id = req[t].sid
        <3>1. h \in Hosts /\ req[t].sid \in Sids
            BY <2>3, <1>a DEF Request, TablesOK, Row
        <3>2. CASE /\ bindings' = bindings \cup {new}
                   /\ \A b \in bindings : b.ip # h.ip /\ b.mac # h.mac
            <4>1. new \in Binding
                BY <3>1, HostFact DEF Binding
            <4> QED BY <2>1, <2>3, <3>2, <4>1, <1>a DEF TablesOK, HostAt
        <3>3. ASSUME NEW b \in bindings, bindings' = (bindings \ {b}) \cup {kept(b)}
              PROVE  TablesOK'
            <4>1. /\ kept(b) \in Binding /\ kept(b).sid = req[t].sid
                  /\ kept(b).ip = b.ip /\ kept(b).mac = b.mac
                BY <3>1, <1>a, HostFact DEF TablesOK, Binding
            <4>2. bindings' \subseteq Binding
                BY <3>3, <4>1, <1>a DEF TablesOK
            <4> HIDE DEF kept
            <4>3. \A c, d \in bindings' : c.ip = d.ip \/ c.mac = d.mac => c = d
                BY <3>3, <4>1, <1>a DEF TablesOK
            <4>4. \A c \in bindings' : \E r \in rows : r.id = c.sid
                BY <2>3, <3>3, <4>1, <1>a DEF TablesOK
            <4> QED BY <2>1, <4>2, <4>3, <4>4, <1>a DEF TablesOK, HostAt
        <3> QED BY <2>3, <3>2, <3>3 DEF Bound
    <2>4. CASE bindings' \in Bound(t) /\ \A r \in rows : r.id # req[t].sid
        BY <2>2, <2>4 DEF Bound
    <2> QED BY <2>1, <2>2, <2>3, <2>4
<1>4. CASE CloseSession(t)
    <2>1. /\ rows' = {r \in rows : r.id # req[t].sid} /\ next' = next
          /\ bindings' = {b \in bindings : b.mac # req[t].host.mac /\ b.sid # req[t].sid}
        BY <1>4 DEF CloseSession, Unbind
    <2> QED BY <2>1, <1>a DEF TablesOK, HostAt
<1> QED
    BY <1>1, <1>2, <1>3, <1>4
       DEF AloneStep, BeginLogin, BeginVisit, BeginLogout, Accepted, Rejected,
           ReadAttempts, CountAttempt, AttemptLost, PassAntiSpoofing, PassValidation,
           Refused, CloseFails, Welcome, LoggedIn, LoggedOut

\* Only visitors are left with credentials that no client names.
LEMMA StrandedStep == Shapes /\ LoginNext => stranded' \subseteq Visitors
<1> SUFFICES ASSUME Shapes, NEW t \in Threads,
                    AloneStep(t) \/ Welcome(t) \/ LoggedIn(t)
                      \/ CloseSession(t) \/ LoggedOut(t)
             PROVE  stranded' \subseteq Visitors
    BY DEF LoginNext
<1>a. stranded \subseteq Visitors /\ credentials \subseteq Visitors
    BY DEF Shapes, AccountsOK
<1>1. CASE CloseSession(t)
    BY <1>1, <1>a DEF CloseSession
<1>2. CASE stranded' \subseteq stranded
    BY <1>2, <1>a
<1>3. Refused(t) \/ LoggedOut(t) => stranded' \subseteq stranded
    BY DEF Refused, LoggedOut, Forget
<1> QED
    BY <1>1, <1>2, <1>3
       DEF AloneStep, BeginLogin, BeginVisit, BeginLogout, Accepted, Rejected,
           ReadAttempts, CountAttempt, AttemptLost, PassAntiSpoofing, PassValidation,
           Register, Bind, CloseFails, Welcome, LoggedIn, history

\* Pairs of sessions that could not see each other are pairs of ids.
LEMMA ExcusedStep == Shapes /\ LoginNext => excused' \subseteq SUBSET Sids
<1> SUFFICES ASSUME Shapes, NEW t \in Threads,
                    AloneStep(t) \/ Welcome(t) \/ LoggedIn(t)
                      \/ CloseSession(t) \/ LoggedOut(t)
             PROVE  excused' \subseteq SUBSET Sids
    BY DEF LoginNext
<1>a. excused \subseteq SUBSET Sids /\ req[t] \in Request
    BY DEF Shapes, RequestsOK
<1>1. CASE Register(t)
    <2>1. SidFor(req[t].host.mac) \in Sids
        BY <1>1, RegisterFact DEF Row
    <2>2. req[t].unseen \subseteq Sids
        BY <1>a DEF Request
    <2> QED BY <1>1, <1>a, <2>1, <2>2 DEF Register
<1>2. CASE excused' = excused
    BY <1>2, <1>a
<1> QED
    BY <1>1, <1>2
       DEF AloneStep, BeginLogin, BeginVisit, BeginLogout, Accepted, Rejected,
           ReadAttempts, CountAttempt, AttemptLost, PassAntiSpoofing, PassValidation,
           Refused, Bind, CloseFails, Welcome, LoggedIn, CloseSession, LoggedOut, history

LEMMA ShapesInit == LoginInit => Shapes
<1> SUFFICES ASSUME LoginInit PROVE Shapes
    OBVIOUS
<1> USE LoginConstants DEF LoginInit
<1>1. AccountsOK
    BY DEF AccountsOK
<1>2. TablesOK
    BY DEF TablesOK
<1>3. RequestsOK
    BY BlankFact DEF RequestsOK, Place
<1> QED BY <1>1, <1>2, <1>3 DEF Shapes

LEMMA ShapesStep == Shapes /\ [LoginNext]_loginVars => Shapes'
<1>1. Shapes /\ LoginNext => Shapes'
    BY AccountsStep, TablesStep, RequestsStep, ExcusedStep, StrandedStep
       DEF Shapes
<1>2. Shapes /\ UNCHANGED loginVars => Shapes'
    BY DEF loginVars, accounts, tables, history, Shapes, AccountsOK, TablesOK, RequestsOK,
           HostAt
<1> QED BY <1>1, <1>2

LEMMA ShapesHold == LoginSpec => []Shapes
BY ShapesInit, ShapesStep, PTL DEF LoginSpec

\* The tables keep their keys and the reference of a binding to its session, whatever
\* M1's requests do to each other between their transactions.
THEOREM TypeCorrect == LoginSpec => []LoginTypeOK
BY ShapesHold, ShapesAreType, PTL

-----------------------------------------------------------------------------
\* A step of another request, or one that keeps the sessions, leaves a validated
\* request what it knows.
LEMMA ConflictsStep == Shapes /\ ConflictsSeen /\ LoginNext => ConflictsSeen'
<1> SUFFICES ASSUME Shapes, ConflictsSeen, NEW t \in Threads,
                    AloneStep(t) \/ Welcome(t) \/ LoggedIn(t)
                      \/ CloseSession(t) \/ LoggedOut(t),
                    NEW u \in Threads, pc'[u] = "validated",
                    NEW r \in rows', Conflict(r, Id(req'[u].who), req'[u].host)
             PROVE  r.id \in req'[u].unseen
    BY DEF LoginNext, ConflictsSeen, Conflict, SameHost
<1>a. /\ pc \in [Threads -> Place] /\ req \in [Threads -> Request]
      /\ rows \subseteq Row
    BY DEF Shapes, RequestsOK, TablesOK
<1>g. ASSUME NEW there, NEW q, Go(t, there, q), rows' \subseteq rows,
             u # t \/ there # "validated"
      PROVE  r.id \in req'[u].unseen
    <2>1. u # t /\ pc[u] = "validated" /\ req'[u] = req[u]
        BY <1>g, <1>a DEF Go
    <2> QED BY <2>1, <1>g DEF ConflictsSeen
<1>1. CASE PassValidation(t)
    <2>1. CASE u = t
        <3>1. CASE LoginBinding(Id(req[t].who), req[t].host)
            <4>1. rows' = rows /\ req'[t] = [req[t] EXCEPT !.unseen = {}]
                BY <1>1, <3>1, <1>a DEF PassValidation, Go, tables
            <4>2. req'[t].who = req[t].who /\ req'[t].host = req[t].host
                BY <4>1, <1>a DEF Request
            <4> QED BY <2>1, <3>1, <4>1, <4>2 DEF LoginBinding
        <3>2. CASE ~LoginBinding(Id(req[t].who), req[t].host)
            <4>1. rows' = rows /\ req'[t] = [req[t] EXCEPT !.unseen = Sids]
                BY <1>1, <3>2, <1>a DEF PassValidation, Go, tables
            <4>2. req'[t].unseen = Sids
                BY <4>1, <1>a DEF Request
            <4> QED BY <2>1, <4>1, <4>2, <1>a DEF Row
        <3> QED BY <3>1, <3>2
    <2>2. CASE u # t
        <3>1. pc[u] = "validated" /\ req'[u] = req[u] /\ rows' = rows
            BY <1>1, <2>2, <1>a DEF PassValidation, Go, tables
        <3> QED BY <3>1 DEF ConflictsSeen
    <2> QED BY <2>1, <2>2
<1>2. CASE Register(t)
    <2> DEFINE h == req[t].host
               sid == SidFor(h.mac)
               new == [id |-> sid, user |-> Id(req[t].who), who |-> req[t].who,
                       mac |-> h.mac, ip |-> h.ip, port |-> h.port]
    <2>1. rows' = {s \in rows : s.mac # h.mac} \cup {new}
        BY <1>2, RegisterFact
    <2>2. Overlook(t, sid, "registered", [req[t] EXCEPT !.sid = sid, !.unseen = {}])
        BY <1>2 DEF Register
    <2>3. u # t /\ pc[u] = "validated"
        BY <2>2, <1>a DEF Overlook
    <2>4. req'[u] = [req[u] EXCEPT !.unseen = @ \cup {sid}]
        BY <2>2, <2>3, <1>a DEF Overlook
    <2>5. /\ req'[u].who = req[u].who /\ req'[u].host = req[u].host
          /\ req'[u].unseen = req[u].unseen \cup {sid}
        BY <2>4, <1>a DEF Request
    <2>6. CASE r \in rows
        BY <2>3, <2>5, <2>6 DEF ConflictsSeen
    <2>7. CASE r = new
        BY <2>5, <2>7
    <2> QED BY <2>1, <2>6, <2>7
<1>3. CASE Bind(t)
    BY <1>3, <1>g DEF Bind
<1>4. CASE CloseSession(t)
    BY <1>4, <1>g DEF CloseSession
<1>5. ASSUME NEW p \in People, BeginLogin(t, p) \/ BeginVisit(t, p)
      PROVE  r.id \in req'[u].unseen
    BY <1>5, <1>g DEF BeginLogin, BeginVisit, tables
<1>6. ASSUME NEW p \in People \cup {Guest}, BeginLogout(t, p) PROVE r.id \in req'[u].unseen
    BY <1>6, <1>g DEF BeginLogout, tables
<1>7. ASSUME NEW h \in Hosts, Accepted(t, h) PROVE r.id \in req'[u].unseen
    BY <1>7, <1>g DEF Accepted, tables
<1>8. CASE Rejected(t) \/ ReadAttempts(t) \/ PassAntiSpoofing(t) \/ Welcome(t)
    BY <1>8, <1>g DEF Rejected, ReadAttempts, PassAntiSpoofing, Welcome, tables
<1>9. CASE \/ CountAttempt(t) \/ AttemptLost(t) \/ Refused(t) \/ CloseFails(t)
           \/ LoggedIn(t) \/ LoggedOut(t)
    BY <1>9, <1>g
       DEF CountAttempt, AttemptLost, Refused, CloseFails, LoggedIn, LoggedOut, Leave,
           tables
<1> QED BY <1>1, <1>2, <1>3, <1>4, <1>5, <1>6, <1>7, <1>8, <1>9 DEF AloneStep

\* Two sessions in conflict are in conflict either way round.
LEMMA ConflictSymmetric ==
    ASSUME NEW r, NEW s, Conflict(r, s.user, s)
    PROVE  Conflict(s, r.user, r)
BY DEF Conflict, SameHost

\* A row in conflict with the one a login registers is one it could not see.
LEMMA DuplicatesStep ==
    Shapes /\ ConflictsSeen /\ DuplicatesExplained /\ LoginNext => DuplicatesExplained'
<1> SUFFICES ASSUME Shapes, ConflictsSeen, DuplicatesExplained, NEW t \in Threads,
                    AloneStep(t) \/ Welcome(t) \/ LoggedIn(t)
                      \/ CloseSession(t) \/ LoggedOut(t)
             PROVE  DuplicatesExplained'
    BY DEF LoginNext
<1>1. CASE Register(t)
    <2> DEFINE h == req[t].host
               sid == SidFor(h.mac)
               new == [id |-> sid, user |-> Id(req[t].who), who |-> req[t].who,
                       mac |-> h.mac, ip |-> h.ip, port |-> h.port]
    <2>1. /\ rows' = {r \in rows : r.mac # h.mac} \cup {new}
          /\ pc[t] = "validated" /\ excused' = excused \cup {{sid, s} : s \in req[t].unseen}
        BY <1>1, RegisterFact DEF Register
    <2>2. \A r \in rows : Conflict(r, new.user, new) => {sid, r.id} \in excused'
        <3>1. \A r \in rows :
                 Conflict(r, new.user, new) => Conflict(r, Id(req[t].who), h)
            BY DEF Conflict, SameHost
        <3> QED BY <2>1, <3>1 DEF ConflictsSeen
    <2>3. \A r, s \in rows : r # s /\ Conflict(r, s.user, s) => {r.id, s.id} \in excused'
        BY <2>1 DEF DuplicatesExplained
    <2>4. new.id = sid
        OBVIOUS
    <2> HIDE DEF new
    <2>5. ASSUME NEW r \in rows', NEW s \in rows', r # s, Conflict(r, s.user, s)
          PROVE  {r.id, s.id} \in excused'
        <3>1. CASE r \in rows /\ s \in rows
            BY <2>3, <2>5, <3>1
        <3>2. CASE r \in rows /\ s = new
            <4>1. {sid, r.id} = {r.id, s.id}
                BY <3>2, <2>4
            <4> QED BY <2>2, <2>5, <3>2, <4>1
        <3>3. CASE r = new /\ s \in rows
            <4>1. Conflict(s, new.user, new)
                BY <2>5, <3>3, ConflictSymmetric
            <4> QED BY <2>2, <2>4, <3>3, <4>1
        <3> QED BY <2>1, <2>5, <3>1, <3>2, <3>3
    <2> QED BY <2>5 DEF DuplicatesExplained, Conflict, SameHost
<1>2. CASE rows' \subseteq rows /\ excused' = excused
    BY <1>2 DEF DuplicatesExplained, Conflict, SameHost
<1> QED
    BY <1>1, <1>2
       DEF AloneStep, BeginLogin, BeginVisit, BeginLogout, Accepted, Rejected,
           ReadAttempts, CountAttempt, AttemptLost, PassAntiSpoofing, PassValidation,
           Refused, Bind, CloseFails, Welcome, LoggedIn, CloseSession, LoggedOut, history,
           tables

Seen == Shapes /\ ConflictsSeen /\ DuplicatesExplained

LEMMA SeenHolds == LoginSpec => []Seen
<1>1. LoginInit => Seen
    <2>1. LoginInit => ConflictsSeen /\ DuplicatesExplained
        BY DEF LoginInit, ConflictsSeen, DuplicatesExplained
    <2> QED BY <2>1, ShapesInit DEF Seen
<1>2. Seen /\ [LoginNext]_loginVars => Seen'
    <2>1. Seen /\ LoginNext => Seen'
        BY ShapesStep, ConflictsStep, DuplicatesStep DEF Seen
    <2>2. Seen /\ UNCHANGED loginVars => ConflictsSeen' /\ DuplicatesExplained'
        BY DEF Seen, loginVars, tables, history, ConflictsSeen, DuplicatesExplained,
               Conflict, SameHost
    <2> QED BY <2>1, <2>2, ShapesStep DEF Seen
<1> QED BY <1>1, <1>2, PTL DEF LoginSpec

\* Two sessions of one user or of one host always go back to a login that had been
\* validated before the other session was registered, or that could not be validated
\* because the database was out of reach: validate_login_binding (m1_auth.py:512-597)
\* is otherwise enough, although register_session checks nothing.
THEOREM DuplicatesExplainedHolds == LoginSpec => []DuplicatesExplained
BY SeenHolds, PTL DEF Seen

\* Nobody takes over the session of somebody else but a login of that kind.
THEOREM TakeoverExplainedHolds == LoginSpec => TakeoverExplained
<1> DEFINE A == \A r \in rows, s \in rows' :
                   r.id = s.id /\ r.user # s.user =>
                     \E t \in Threads :
                        pc[t] = "validated" /\ pc'[t] = "registered"
                          /\ r.id \in req[t].unseen
<1>1. Seen /\ [LoginNext]_loginVars => A
    <2> SUFFICES ASSUME Seen, [LoginNext]_loginVars, NEW r \in rows, NEW s \in rows',
                        r.id = s.id, r.user # s.user
                 PROVE  \E t \in Threads :
                           pc[t] = "validated" /\ pc'[t] = "registered"
                             /\ r.id \in req[t].unseen
        OBVIOUS
    <2>a. /\ TablesOK /\ pc \in [Threads -> Place]
        BY DEF Seen, Shapes, RequestsOK
    <2>1. s \notin rows
        BY <2>a DEF TablesOK
    <2>2. PICK t \in Threads : Register(t)
        BY <2>1
           DEF LoginNext, AloneStep, BeginLogin, BeginVisit, BeginLogout, Accepted,
               Rejected, ReadAttempts, CountAttempt, AttemptLost, PassAntiSpoofing,
               PassValidation, Refused, Bind, CloseFails, Welcome, LoggedIn,
               CloseSession, LoggedOut, tables, loginVars
    <2> DEFINE h == req[t].host
               sid == SidFor(h.mac)
               new == [id |-> sid, user |-> Id(req[t].who), who |-> req[t].who,
                       mac |-> h.mac, ip |-> h.ip, port |-> h.port]
    <2>3. rows' = {q \in rows : q.mac # h.mac} \cup {new}
          /\ \A q \in rows : q.id = sid <=> q.mac = h.mac
        BY <2>2, RegisterFact DEF Seen
    <2>4. s = new /\ r.mac = h.mac
        BY <2>1, <2>3
    <2>5. pc[t] = "validated" /\ pc'[t] = "registered"
        BY <2>2, <2>a DEF Register, Overlook
    <2>6. r.id \in req[t].unseen
        BY <2>4, <2>5 DEF Seen, ConflictsSeen, Conflict, SameHost
    <2> QED BY <2>5, <2>6
<1> QED BY <1>1, SeenHolds, PTL DEF LoginSpec, TakeoverExplained

-----------------------------------------------------------------------------
(***************************************************************************)
(* M1 alone: the lockout                                                   *)
(***************************************************************************)
\* The requests that have a rejection of the user still to count.
Uncounted(u) == {t \in Threads : pc[t] \in {"rejected", "counting"} /\ req[t].who = u}

\* A rejection is in the counter or about to be added to it, and a counter at its
\* limit has locked the account.
Counted ==
    /\ \A u \in Users : IsFiniteSet(Uncounted(u))
    /\ \A u \in Users : attempts[u] >= MaxAttempts => u \in blocked
    /\ \A u \in Users \ raced : failures[u] <= attempts[u] + Cardinality(Uncounted(u))

LEMMA CountedIsLocked == Shapes /\ Counted => LockedInTime
<1> SUFFICES ASSUME Shapes, Counted, NEW u \in Users, failures[u] >= MaxAttempts,
                    u \notin blocked \cup raced
             PROVE  \E t \in Threads :
                       pc[t] \in {"rejected", "counting"} /\ req[t].who = u
    BY DEF LockedInTime
<1>1. failures[u] \in Nat /\ attempts[u] \in Nat
    BY DEF Shapes, AccountsOK
<1>2. failures[u] <= attempts[u] + Cardinality(Uncounted(u)) /\ ~(attempts[u] >= MaxAttempts)
    BY DEF Counted
<1>3. Uncounted(u) = {} => Cardinality(Uncounted(u)) = 0
    BY FS_EmptySet
<1>4. Uncounted(u) # {}
    BY <1>1, <1>2, <1>3, LoginConstants
<1> QED BY <1>4 DEF Uncounted

\* A step that leaves the request where it was, as far as counting goes.
LEMMA UncountedSame ==
    ASSUME Shapes, NEW t \in Threads, NEW there, NEW r, Go(t, there, r),
           there \in {"rejected", "counting"} <=> pc[t] \in {"rejected", "counting"},
           there \in {"rejected", "counting"} => r.who = req[t].who, NEW u
    PROVE  Uncounted(u)' = Uncounted(u)
<1>1. /\ pc \in [Threads -> Place] /\ req \in [Threads -> Request]
    BY DEF Shapes, RequestsOK
<1>2. /\ pc'[t] = there /\ req'[t] = r
      /\ \A s \in Threads : s # t => pc'[s] = pc[s] /\ req'[s] = req[s]
    BY <1>1 DEF Go
<1>3. \A s \in Threads :
         (pc'[s] \in {"rejected", "counting"} /\ req'[s].who = u)
           <=> (pc[s] \in {"rejected", "counting"} /\ req[s].who = u)
    BY <1>2
<1> QED BY <1>3 DEF Uncounted

\* A request that has its rejection counted, or has given up counting it.
LEMMA UncountedLess ==
    ASSUME Shapes, NEW t \in Threads, Leave(t), NEW u
    PROVE  Uncounted(u)' = Uncounted(u) \ {t}
<1>1. /\ pc \in [Threads -> Place] /\ req \in [Threads -> Request]
    BY DEF Shapes, RequestsOK
<1>2. /\ pc'[t] = "idle"
      /\ \A s \in Threads : s # t => pc'[s] = pc[s] /\ req'[s] = req[s]
    BY <1>1 DEF Go, Leave
<1>3. \A s \in Threads :
         (pc'[s] \in {"rejected", "counting"} /\ req'[s].who = u)
           <=> (pc[s] \in {"rejected", "counting"} /\ req[s].who = u /\ s # t)
    BY <1>2
<1> QED BY <1>3 DEF Uncounted

LEMMA CountedStep == Shapes /\ Counted /\ LoginNext => Counted'
<1> SUFFICES ASSUME Shapes, Counted, NEW t \in Threads,
                    AloneStep(t) \/ Welcome(t) \/ LoggedIn(t)
                      \/ CloseSession(t) \/ LoggedOut(t)
             PROVE  Counted'
    BY DEF LoginNext
<1>a. /\ attempts \in [Users -> Nat] /\ failures \in [Users -> Nat]
      /\ blocked \subseteq Users /\ raced \subseteq Users
      /\ pc \in [Threads -> Place] /\ req \in [Threads -> Request]
      /\ pc[t] \in {"rejected", "counting"} => req[t].who \in Users
    BY DEF Shapes, AccountsOK, RequestsOK
<1>b. \A u \in Users : Cardinality(Uncounted(u)) \in Nat
    BY FS_CardinalityType DEF Counted
<1> DEFINE Kept == attempts' = attempts /\ blocked' = blocked
                     /\ failures' = failures /\ raced' = raced
<1>g. ASSUME Kept, \A u \in Users : Uncounted(u)' = Uncounted(u)
      PROVE  Counted'
    BY <1>g DEF Counted
<1>1. ASSUME NEW p \in People, BeginLogin(t, p) \/ BeginVisit(t, p) PROVE Counted'
    <2>1. Kept /\ \E r : Go(t, "radius", r) /\ pc[t] = "idle"
        BY <1>1 DEF BeginLogin, BeginVisit, accounts, history
    <2> QED BY <2>1, <1>g, UncountedSame
<1>2. ASSUME NEW p \in People \cup {Guest}, BeginLogout(t, p) PROVE Counted'
    <2>1. Kept /\ \E r : Go(t, "leaving", r) /\ pc[t] = "idle"
        BY <1>2 DEF BeginLogout, accounts, history
    <2> QED BY <2>1, <1>g, UncountedSame
<1>3. ASSUME NEW h \in Hosts, Accepted(t, h) PROVE Counted'
    <2>1. Kept /\ \E r : Go(t, "located", r) /\ pc[t] = "radius"
        BY <1>3 DEF Accepted, accounts, history
    <2> QED BY <2>1, <1>g, UncountedSame
<1>4. CASE PassAntiSpoofing(t) \/ PassValidation(t)
    <2>1. Kept /\ \E there, r : /\ Go(t, there, r) /\ there \in {"checked", "validated"}
                                /\ pc[t] \in {"located", "checked"}
        BY <1>4 DEF PassAntiSpoofing, PassValidation, accounts, history
    <2> QED BY <2>1, <1>g, UncountedSame
<1>5. CASE Bind(t) \/ CloseSession(t)
    <2>1. Kept /\ \E there, r : /\ Go(t, there, r) /\ there \in {"bound", "notifying"}
                                /\ pc[t] \in {"registered", "leaving"}
        BY <1>5 DEF Bind, CloseSession, accounts, history
    <2> QED BY <2>1, <1>g, UncountedSame
<1>6. CASE Refused(t) \/ CloseFails(t) \/ LoggedIn(t) \/ LoggedOut(t)
    <2>1. Kept /\ Go(t, "idle", Blank)
          /\ pc[t] \notin {"rejected", "counting"}
        BY <1>6 DEF Refused, CloseFails, LoggedIn, LoggedOut, Leave, accounts, history
    <2> QED BY <2>1, <1>g, UncountedSame
<1>7. CASE Register(t)
    <2>1. Kept
        BY <1>7 DEF Register, accounts
    <2>2. pc[t] = "validated" /\ pc'[t] = "registered"
          /\ \A s \in Threads : s # t => pc'[s] = pc[s] /\ req'[s].who = req[s].who
        BY <1>7, <1>a DEF Register, Overlook, Request
    <2>3. \A u \in Users : Uncounted(u)' = Uncounted(u)
        BY <2>2 DEF Uncounted
    <2> QED BY <2>1, <2>3, <1>g
<1>8. CASE ReadAttempts(t)
    <2>1. Kept /\ pc[t] = "rejected"
          /\ Go(t, "counting", [req[t] EXCEPT !.seen = attempts[req[t].who]])
        BY <1>8 DEF ReadAttempts, accounts, history
    <2>2. [req[t] EXCEPT !.seen = attempts[req[t].who]].who = req[t].who
        BY <1>a DEF Request
    <2> QED BY <2>1, <2>2, <1>g, UncountedSame
<1>9. CASE Rejected(t)
    <2>0. PICK v \in Users : v = req[t].who
        BY <1>9 DEF Rejected
    <2>1. /\ pc[t] = "radius" /\ v = req[t].who /\ Go(t, "rejected", req[t])
          /\ failures' = [failures EXCEPT ![v] = @ + 1]
          /\ attempts' = attempts /\ blocked' = blocked /\ raced' = raced
        BY <1>9, <2>0 DEF Rejected, accounts
    <2>2. \A u \in Users : u # v => Uncounted(u)' = Uncounted(u)
        BY <2>1, <1>a DEF Go, Uncounted
    <2>3. Uncounted(v)' = Uncounted(v) \cup {t} /\ t \notin Uncounted(v)
        BY <2>1, <1>a DEF Go, Uncounted
    <2>4. /\ IsFiniteSet(Uncounted(v) \cup {t})
          /\ Cardinality(Uncounted(v) \cup {t}) = Cardinality(Uncounted(v)) + 1
        BY <2>1, <2>3, FS_AddElement DEF Counted
    <2>5. \A u \in Users : IsFiniteSet(Uncounted(u)')
        BY <2>2, <2>3, <2>4 DEF Counted
    <2>6. \A u \in Users : attempts'[u] >= MaxAttempts => u \in blocked'
        BY <2>1 DEF Counted
    <2>7. ASSUME NEW u \in Users \ raced'
          PROVE  failures'[u] <= attempts'[u] + Cardinality(Uncounted(u)')
        <3>1. failures[u] <= attempts[u] + Cardinality(Uncounted(u))
            BY <2>1, <2>7 DEF Counted
        <3>2. CASE u # v
            BY <3>1, <3>2, <2>1, <2>2, <1>a
        <3>3. CASE u = v
            <4>1. failures'[u] = failures[u] + 1
                BY <2>1, <3>3, <1>a
            <4>2. Cardinality(Uncounted(u)') = Cardinality(Uncounted(u)) + 1
                BY <2>3, <2>4, <3>3
            <4> QED BY <3>1, <4>1, <4>2, <2>1, <1>a, <1>b
        <3> QED BY <3>2, <3>3
    <2> QED BY <2>5, <2>6, <2>7 DEF Counted
<1>10. CASE CountAttempt(t)
    <2> DEFINE v == req[t].who
               n == req[t].seen + 1
    <2>1. /\ pc[t] = "counting" /\ v \in Users /\ Leave(t) /\ n \in Nat
          /\ attempts' = [attempts EXCEPT ![v] = n] /\ failures' = failures
          /\ blocked' = IF n >= MaxAttempts THEN blocked \cup {v} ELSE blocked
          /\ raced' = IF attempts[v] = req[t].seen THEN raced ELSE raced \cup {v}
        BY <1>10, <1>a DEF CountAttempt, Request
    <2>2. \A u \in Users : Uncounted(u)' = Uncounted(u) \ {t}
        BY <2>1, UncountedLess
    <2>3. \A u \in Users : u # v => t \notin Uncounted(u)
        BY DEF Uncounted
    <2>4. t \in Uncounted(v)
        BY <2>1 DEF Uncounted
    <2>5. /\ IsFiniteSet(Uncounted(v) \ {t})
          /\ Cardinality(Uncounted(v) \ {t}) = Cardinality(Uncounted(v)) - 1
        BY <2>1, <2>4, FS_RemoveElement DEF Counted
    <2>6. \A u \in Users : u # v => Uncounted(u)' = Uncounted(u)
        BY <2>2, <2>3
    <2>7. \A u \in Users : IsFiniteSet(Uncounted(u)')
        BY <2>2, <2>5, <2>6 DEF Counted
    <2>8. \A u \in Users : attempts'[u] >= MaxAttempts => u \in blocked'
        BY <2>1, <1>a DEF Counted
    <2>9. ASSUME NEW u \in Users \ raced'
          PROVE  failures'[u] <= attempts'[u] + Cardinality(Uncounted(u)')
        <3>1. failures[u] <= attempts[u] + Cardinality(Uncounted(u))
            BY <2>1, <2>9 DEF Counted
        <3>2. CASE u # v
            BY <3>1, <3>2, <2>1, <2>6, <1>a
        <3>3. CASE u = v
            <4>1. attempts'[u] = attempts[u] + 1
                BY <2>1, <2>9, <3>3, <1>a
            <4>2. Cardinality(Uncounted(u)') = Cardinality(Uncounted(u)) - 1
                BY <2>2, <2>5, <3>3
            <4> QED BY <3>1, <4>1, <4>2, <2>1, <1>a, <1>b
        <3> QED BY <3>2, <3>3
    <2> QED BY <2>7, <2>8, <2>9 DEF Counted
<1>11. CASE AttemptLost(t)
    <2> DEFINE v == req[t].who
    <2>1. /\ pc[t] \in {"rejected", "counting"} /\ v \in Users /\ Leave(t)
          /\ attempts' = attempts /\ failures' = failures /\ blocked' = blocked
          /\ raced' = raced \cup {v}
        BY <1>11, <1>a DEF AttemptLost, accounts
    <2>2. \A u \in Users : Uncounted(u)' = Uncounted(u) \ {t}
        BY <2>1, UncountedLess
    <2>3. \A u \in Users : u # v => Uncounted(u)' = Uncounted(u)
        BY <2>2 DEF Uncounted
    <2>4. t \in Uncounted(v)
        BY <2>1 DEF Uncounted
    <2>5. IsFiniteSet(Uncounted(v) \ {t})
        BY <2>1, <2>4, FS_RemoveElement DEF Counted
    <2>6. \A u \in Users : IsFiniteSet(Uncounted(u)')
        BY <2>2, <2>3, <2>5 DEF Counted
    <2> QED BY <2>1, <2>3, <2>6 DEF Counted
<1>12. CASE Welcome(t)
    <2> DEFINE p == req[t].who
    <2>1. /\ pc[t] = "bound" /\ Go(t, "token", req[t]) /\ blocked' = blocked
        BY <1>12 DEF Welcome
    <2>2. \A u \in Users : Uncounted(u)' = Uncounted(u)
        BY <2>1, UncountedSame
    <2>3. CASE p \notin Users
        <3>1. Kept
            BY <1>12, <2>3 DEF Welcome
        <3> QED BY <3>1, <2>2, <1>g
    <2>4. CASE p \in Users
        <3>1. /\ failures' = [failures EXCEPT ![p] = 0]
              /\ \/ attempts' = [attempts EXCEPT ![p] = 0] /\ raced' = raced \ {p}
                 \/ attempts' = attempts /\ raced' = raced \cup {p}
            BY <1>12, <2>4 DEF Welcome, ResetAttempts
        <3>2. \A u \in Users : IsFiniteSet(Uncounted(u)')
            BY <2>2 DEF Counted
        <3>3. \A u \in Users : attempts'[u] >= MaxAttempts => u \in blocked'
            BY <3>1, <2>1, <2>4, <1>a, LoginConstants DEF Counted
        <3>4. ASSUME NEW u \in Users \ raced'
              PROVE  failures'[u] <= attempts'[u] + Cardinality(Uncounted(u)')
            <4>1. CASE u = p
                BY <3>1, <4>1, <2>2, <2>4, <1>a, <1>b
            <4>2. CASE u # p
                <5>1. u \notin raced /\ failures'[u] = failures[u]
                      /\ attempts'[u] = attempts[u]
                    BY <3>1, <3>4, <4>2, <2>4, <1>a
                <5> QED BY <5>1, <2>2 DEF Counted
            <4> QED BY <4>1, <4>2
        <3> QED BY <3>2, <3>3, <3>4 DEF Counted
    <2> QED BY <2>3, <2>4
<1> QED
    BY <1>1, <1>2, <1>3, <1>4, <1>5, <1>6, <1>7, <1>8, <1>9, <1>10, <1>11, <1>12
       DEF AloneStep

\* However many requests count rejections of a user at the same time, the account is
\* locked once MAX_INTENTOS of them are counted, unless two read the same counter or
\* one could not write it (increment_failed_attempt, m1_auth.py:251-344): the only
\* ways round the lockout are the ones the property names.
THEOREM LockedInTimeHolds == LoginSpec => []LockedInTime
<1>1. LoginInit => Shapes /\ Counted
    <2>1. LoginInit => \A u \in Users : Uncounted(u) = {}
        BY DEF LoginInit, Uncounted
    <2>2. LoginInit => Counted
        <3> SUFFICES ASSUME LoginInit PROVE Counted
            OBVIOUS
        <3>1. \A u \in Users : IsFiniteSet(Uncounted(u)) /\ Cardinality(Uncounted(u)) = 0
            BY <2>1, FS_EmptySet
        <3>2. \A u \in Users : attempts[u] = 0 /\ failures[u] = 0
            BY DEF LoginInit
        <3> QED BY <3>1, <3>2, LoginConstants DEF Counted
    <2> QED BY <2>2, ShapesInit
<1>2. Shapes /\ Counted /\ [LoginNext]_loginVars => (Shapes /\ Counted)'
    <2>1. Counted /\ UNCHANGED loginVars => Counted'
        BY DEF Counted, Uncounted, loginVars, accounts, history
    <2> QED BY <2>1, CountedStep, ShapesStep
<1>3. Shapes /\ Counted => LockedInTime
    BY CountedIsLocked
<1> QED BY <1>1, <1>2, <1>3, PTL DEF LoginSpec

-----------------------------------------------------------------------------
(***************************************************************************)
(* M1 alone: bindings                                                      *)
(***************************************************************************)
NoTakeover == \A s \in Sids : {s} \notin excused

\* The machine of a binding is that of a session, though perhaps not of its own.
MachineThere == \A b \in bindings : \E q \in rows : q.mac = b.mac /\ q.ip = b.ip

\* A binding has the address or the MAC of its session.
HalfOfSession ==
    \A b \in bindings, r \in rows : r.id = b.sid => b.ip = r.ip \/ b.mac = r.mac

\* Between two transactions of a request its session stays that of its host.
SessionOfHost ==
    \A t \in Threads : pc[t] \in {"registered", "leaving"} =>
        /\ req[t].sid < next
        /\ \A r \in rows : r.id = req[t].sid =>
              r.mac = req[t].host.mac /\ r.ip = req[t].host.ip

Agreeing == NoTakeover => MachineThere /\ HalfOfSession /\ SessionOfHost

LEMMA AgreeingAgrees == Seen /\ Agreeing => BindingsAgree
<1> SUFFICES ASSUME Seen, MachineThere, HalfOfSession, NEW b \in bindings, NEW r \in rows,
                    r.id = b.sid, \A p \in excused : r.id \notin p
             PROVE  b.ip = r.ip /\ b.mac = r.mac
    BY DEF BindingsAgree, Agreeing, NoTakeover
<1>1. PICK q \in rows : q.mac = b.mac /\ q.ip = b.ip
    BY DEF MachineThere
<1>2. b.ip = r.ip \/ b.mac = r.mac
    BY DEF HalfOfSession
<1>3. Conflict(q, r.user, r)
    BY <1>1, <1>2 DEF Conflict, SameHost
<1>4. q = r
    <2>1. q # r => {q.id, r.id} \in excused
        BY <1>3 DEF Seen, DuplicatesExplained
    <2> QED BY <2>1
<1> QED BY <1>1, <1>4

\* A login registers a session of its own, or takes one over that it could not see.
LEMMA RegisterIsNew ==
    ASSUME Seen, NEW t \in Threads, Register(t), NoTakeover'
    PROVE  LET h == req[t].host
               new == [id |-> next, user |-> Id(req[t].who), who |-> req[t].who,
                       mac |-> h.mac, ip |-> h.ip, port |-> h.port]
           IN /\ rows' = rows \cup {new} /\ SidFor(h.mac) = next
              /\ \A r \in rows : r.mac # h.mac
              /\ \A r \in rows : r.id \in Nat /\ r.id < next
              /\ next' = next + 1 /\ next \in Nat
<1> DEFINE h == req[t].host
           sid == SidFor(h.mac)
<1>a. TablesOK
    BY DEF Seen, Shapes
<1>1. pc[t] = "validated" /\ excused' = excused \cup {{sid, s} : s \in req[t].unseen}
    BY DEF Register
<1>2. \A r \in rows : r.mac # h.mac
    <2> SUFFICES ASSUME NEW r \in rows, r.mac = h.mac PROVE FALSE
        OBVIOUS
    <2>1. r.id = sid /\ r.id \in Sids
        BY RegisterFact, <1>a DEF Seen, TablesOK, Row
    <2>2. r.id \in req[t].unseen
        BY <1>1 DEF Seen, ConflictsSeen, Conflict, SameHost
    <2>3. {sid, r.id} = {r.id} /\ {sid, r.id} \in excused'
        BY <2>1, <2>2, <1>1
    <2> QED BY <2>1, <2>3 DEF NoTakeover
<1>3. sid = next
    BY <1>2 DEF SidFor
<1>4. rows' = {r \in rows : r.mac # h.mac}
                \cup {[id |-> sid, user |-> Id(req[t].who), who |-> req[t].who,
                       mac |-> h.mac, ip |-> h.ip, port |-> h.port]}
      /\ next' = next + 1
    BY <1>3 DEF Register
<1>5. {r \in rows : r.mac # h.mac} = rows
    BY <1>2
<1>6. next \in Nat /\ \A r \in rows : r.id \in Nat /\ r.id < next
    BY <1>a DEF TablesOK, Row, Sids
<1> QED BY <1>2, <1>3, <1>4, <1>5, <1>6

\* A step that keeps the tables and moves a request to where it holds no session.
LEMMA AgreeingKept ==
    ASSUME Seen, Agreeing, NEW t \in Threads, NEW there, NEW r, Go(t, there, r),
           there \notin {"registered", "leaving"}, UNCHANGED tables, excused' = excused
    PROVE  Agreeing'
<1>1. /\ pc \in [Threads -> Place] /\ req \in [Threads -> Request]
    BY DEF Seen, Shapes, RequestsOK
<1>2. /\ rows' = rows /\ bindings' = bindings /\ next' = next /\ NoTakeover' = NoTakeover
    BY DEF tables, NoTakeover
<1>3. SessionOfHost => SessionOfHost'
    BY <1>1, <1>2 DEF SessionOfHost, Go
<1> QED BY <1>2, <1>3 DEF Agreeing, MachineThere, HalfOfSession

LEMMA AgreeingStep == Seen /\ Agreeing /\ LoginNext => Agreeing'
<1> SUFFICES ASSUME Seen, Agreeing, NEW t \in Threads,
                    AloneStep(t) \/ Welcome(t) \/ LoggedIn(t)
                      \/ CloseSession(t) \/ LoggedOut(t)
             PROVE  Agreeing'
    BY DEF LoginNext
<1>a. /\ TablesOK /\ pc \in [Threads -> Place] /\ req \in [Threads -> Request]
    BY DEF Seen, Shapes, RequestsOK
<1>1. ASSUME NEW p \in People, BeginLogin(t, p) \/ BeginVisit(t, p) PROVE Agreeing'
    BY <1>1, AgreeingKept DEF BeginLogin, BeginVisit, history
<1>2. ASSUME NEW p \in People \cup {Guest}, BeginLogout(t, p) PROVE Agreeing'
    <2>1. PICK r \in rows :
             Go(t, "leaving", [Blank EXCEPT !.who = p, !.host = HostAt(r), !.sid = r.id])
        BY <1>2 DEF BeginLogout
    <2>2. /\ rows' = rows /\ bindings' = bindings /\ next' = next
          /\ NoTakeover' = NoTakeover
        BY <1>2 DEF BeginLogout, tables, history, NoTakeover
    <2>3. /\ req'[t] = [Blank EXCEPT !.who = p, !.host = HostAt(r), !.sid = r.id]
          /\ \A s \in Threads : s # t => pc'[s] = pc[s] /\ req'[s] = req[s]
        BY <2>1, <1>a DEF Go
    <2>4. req'[t].sid = r.id /\ req'[t].host = HostAt(r)
        BY <2>3, BlankFact DEF Request
    <2>5. req'[t].host.mac = r.mac /\ req'[t].host.ip = r.ip
        BY <2>4 DEF HostAt
    <2>6. r.id < next /\ \A s \in rows : s.id = r.id => s = r
        BY <1>a DEF TablesOK
    <2>7. SessionOfHost => SessionOfHost'
        <3> SUFFICES ASSUME SessionOfHost, NEW s \in Threads,
                            pc'[s] \in {"registered", "leaving"}
                     PROVE  /\ req'[s].sid < next'
                            /\ \A q \in rows' : q.id = req'[s].sid =>
                                  q.mac = req'[s].host.mac /\ q.ip = req'[s].host.ip
            BY DEF SessionOfHost
        <3>1. CASE s = t
            <4>1. \A q \in rows' : q.id = req'[s].sid => q = r
                BY <3>1, <2>2, <2>4, <2>6
            <4> QED BY <3>1, <4>1, <2>2, <2>4, <2>5, <2>6
        <3>2. CASE s # t
            BY <3>2, <2>2, <2>3 DEF SessionOfHost
        <3> QED BY <3>1, <3>2
    <2> QED BY <2>2, <2>7 DEF Agreeing, MachineThere, HalfOfSession
<1>3. ASSUME NEW h \in Hosts, Accepted(t, h) PROVE Agreeing'
    BY <1>3, AgreeingKept DEF Accepted, history
<1>4. CASE Rejected(t) \/ ReadAttempts(t) \/ PassAntiSpoofing(t) \/ PassValidation(t)
    BY <1>4, AgreeingKept
       DEF Rejected, ReadAttempts, PassAntiSpoofing, PassValidation, history
<1>5. CASE CountAttempt(t) \/ AttemptLost(t) \/ Refused(t) \/ CloseFails(t)
    BY <1>5, AgreeingKept DEF CountAttempt, AttemptLost, Refused, CloseFails, Leave, history
<1>6. CASE Welcome(t) \/ LoggedIn(t) \/ LoggedOut(t)
    BY <1>6, AgreeingKept DEF Welcome, LoggedIn, LoggedOut, Leave, history
<1>7. CASE Register(t)
    <2> SUFFICES ASSUME NoTakeover'
                 PROVE  MachineThere' /\ HalfOfSession' /\ SessionOfHost'
        BY DEF Agreeing
    <2> DEFINE h == req[t].host
               new == [id |-> next, user |-> Id(req[t].who), who |-> req[t].who,
                       mac |-> h.mac, ip |-> h.ip, port |-> h.port]
    <2>1. /\ rows' = rows \cup {new} /\ SidFor(h.mac) = next
          /\ \A r \in rows : r.id \in Nat /\ r.id < next
          /\ next' = next + 1 /\ next \in Nat
        BY <1>7, RegisterIsNew
    <2>2. NoTakeover
        BY <1>7 DEF Register, NoTakeover
    <2>3. MachineThere /\ HalfOfSession /\ SessionOfHost /\ bindings' = bindings
        BY <1>7, <2>2 DEF Agreeing, Register
    <2>4. new.id = next /\ new.mac = h.mac /\ new.ip = h.ip
        OBVIOUS
    <2>5. /\ pc'[t] = "registered" /\ req'[t] = [req[t] EXCEPT !.sid = next, !.unseen = {}]
          /\ \A s \in Threads : s # t =>
                /\ pc'[s] = pc[s]
                /\ req'[s] = req[s] \/ req'[s] = [req[s] EXCEPT !.unseen = @ \cup {next}]
        BY <1>7, <2>1, <1>a DEF Register, Overlook
    <2>6. req'[t].sid = next /\ req'[t].host = h
        BY <2>5, <1>a DEF Request
    <2>7. ASSUME NEW s \in Threads, s # t
          PROVE  req'[s].sid = req[s].sid /\ req'[s].host = req[s].host
        <3>1. req[s] \in Request
            BY <1>a
        <3>2. CASE req'[s] = req[s]
            BY <3>2
        <3>3. CASE req'[s] = [req[s] EXCEPT !.unseen = @ \cup {next}]
            BY <3>1, <3>3 DEF Request
        <3> QED BY <2>5, <2>7, <3>2, <3>3
    <2>10. \A s \in Threads : req[s].sid \in Nat
        BY <1>a DEF Request, Sids
    <2> HIDE DEF new
    <2>8. SessionOfHost'
        <3> SUFFICES ASSUME NEW s \in Threads, pc'[s] \in {"registered", "leaving"}
                     PROVE  /\ req'[s].sid < next'
                            /\ \A r \in rows' : r.id = req'[s].sid =>
                                  r.mac = req'[s].host.mac /\ r.ip = req'[s].host.ip
            BY DEF SessionOfHost
        <3>1. CASE s = t
            BY <3>1, <2>1, <2>4, <2>6
        <3>2. CASE s # t
            <4>1. pc[s] \in {"registered", "leaving"} /\ req'[s].sid = req[s].sid
                  /\ req'[s].host = req[s].host
                BY <3>2, <2>5, <2>7
            <4>2. req[s].sid < next
                BY <4>1, <2>3 DEF SessionOfHost
            <4> QED BY <4>1, <4>2, <2>1, <2>3, <2>4, <2>10 DEF SessionOfHost
        <3> QED BY <3>1, <3>2
    <2>9. HalfOfSession'
        <3>1. \A b \in bindings : b.sid # next
            BY <2>1, <1>a DEF TablesOK
        <3> QED BY <3>1, <2>1, <2>3, <2>4 DEF HalfOfSession
    <2> QED BY <2>1, <2>3, <2>8, <2>9 DEF MachineThere
<1>8. CASE Bind(t)
    <2> SUFFICES ASSUME NoTakeover'
                 PROVE  MachineThere' /\ HalfOfSession' /\ SessionOfHost'
        BY DEF Agreeing
    <2> DEFINE h == req[t].host
               new == [sid |-> req[t].sid, mac |-> h.mac, ip |-> h.ip, port |-> h.port]
               kept(b) == [b EXCEPT !.sid = req[t].sid, !.port = h.port]
    <2>1. /\ rows' = rows /\ next' = next /\ NoTakeover /\ pc[t] = "registered"
          /\ Go(t, "bound", req[t])
          /\ bindings' = bindings \/ bindings' \in Bound(t)
        BY <1>8 DEF Bind, history, NoTakeover
    <2>2. MachineThere /\ HalfOfSession /\ SessionOfHost
        BY <2>1 DEF Agreeing
    <2>3. SessionOfHost'
        BY <2>1, <2>2, <1>a DEF SessionOfHost, Go
    <2>4. CASE bindings' = bindings
        BY <2>1, <2>2, <2>3, <2>4 DEF MachineThere, HalfOfSession
    <2>5. CASE bindings' \in Bound(t) /\ \E r \in rows : r.id = req[t].sid
        <3>1. PICK r \in rows : r.id = req[t].sid
            BY <2>5
        <3>2. /\ r.mac = h.mac /\ r.ip = h.ip
              /\ \A s \in rows : s.id = req[t].sid => s = r
            BY <3>1, <2>1, <2>2, <1>a DEF SessionOfHost, TablesOK
        <3>3. CASE bindings' = bindings \cup {new}
            <4>1. new.sid = req[t].sid /\ new.mac = h.mac /\ new.ip = h.ip
                OBVIOUS
            <4> HIDE DEF new
            <4> QED BY <3>2, <3>3, <4>1, <2>1, <2>2, <2>3 DEF MachineThere, HalfOfSession
        <3>4. ASSUME NEW b \in bindings, b.ip = h.ip \/ b.mac = h.mac,
                     bindings' = (bindings \ {b}) \cup {kept(b)}
              PROVE  MachineThere' /\ HalfOfSession'
            <4>1. /\ kept(b).sid = req[t].sid
                  /\ kept(b).ip = b.ip /\ kept(b).mac = b.mac
                BY <1>a DEF TablesOK, Binding
            <4> HIDE DEF kept
            <4>2. MachineThere'
                BY <3>4, <4>1, <2>1, <2>2 DEF MachineThere
            <4>3. HalfOfSession'
                BY <3>2, <3>4, <4>1, <2>1, <2>2 DEF HalfOfSession
            <4> QED BY <4>2, <4>3
        <3> QED BY <2>3, <2>5, <3>3, <3>4 DEF Bound
    <2>6. CASE bindings' \in Bound(t) /\ \A r \in rows : r.id # req[t].sid
        BY <2>4, <2>6 DEF Bound
    <2> QED BY <2>1, <2>4, <2>5, <2>6
<1>9. CASE CloseSession(t)
    <2> SUFFICES ASSUME NoTakeover'
                 PROVE  MachineThere' /\ HalfOfSession' /\ SessionOfHost'
        BY DEF Agreeing
    <2>1. /\ rows' = {r \in rows : r.id # req[t].sid} /\ next' = next
          /\ bindings' = {b \in bindings : b.mac # req[t].host.mac /\ b.sid # req[t].sid}
          /\ pc[t] = "leaving" /\ Go(t, "notifying", req[t]) /\ NoTakeover
        BY <1>9 DEF CloseSession, Unbind, NoTakeover
    <2>2. MachineThere /\ HalfOfSession /\ SessionOfHost
        BY <2>1 DEF Agreeing
    <2>3. \A s \in Threads : pc'[s] \in {"registered", "leaving"} =>
             pc[s] = pc'[s] /\ req'[s] = req[s]
        BY <2>1, <1>a DEF Go
    <2>4. SessionOfHost'
        BY <2>1, <2>2, <2>3 DEF SessionOfHost
    <2>5. MachineThere'
        <3> SUFFICES ASSUME NEW b \in bindings'
                     PROVE  \E q \in rows' : q.mac = b.mac /\ q.ip = b.ip
            BY DEF MachineThere
        <3>1. b \in bindings /\ b.mac # req[t].host.mac
            BY <2>1
        <3>2. PICK q \in rows : q.mac = b.mac /\ q.ip = b.ip
            BY <3>1, <2>2 DEF MachineThere
        <3>3. q.id # req[t].sid
            BY <3>1, <3>2, <2>1, <2>2 DEF SessionOfHost
        <3> QED BY <3>2, <3>3, <2>1
    <2>6. HalfOfSession'
        BY <2>1, <2>2 DEF HalfOfSession
    <2> QED BY <2>4, <2>5, <2>6
<1> QED BY <1>1, <1>2, <1>3, <1>4, <1>5, <1>6, <1>7, <1>8, <1>9 DEF AloneStep

\* The address and the MAC of a binding are those of its session, which is what
\* verify_antispoofing (m1_auth.py:404-428) goes by, although create_binding
\* (599-620) updates the session of a binding and not its addresses: no login that
\* saw the others can make the two differ.
THEOREM BindingsAgreeHolds == LoginSpec => []BindingsAgree
<1>1. LoginInit => Agreeing
    <2>1. LoginInit => MachineThere /\ HalfOfSession /\ SessionOfHost
        BY DEF LoginInit, MachineThere, HalfOfSession, SessionOfHost
    <2> QED BY <2>1 DEF Agreeing
<1>2. Seen /\ Agreeing /\ [LoginNext]_loginVars => Agreeing'
    <2>1. Agreeing /\ UNCHANGED loginVars => Agreeing'
        BY DEF Agreeing, MachineThere, HalfOfSession, SessionOfHost, NoTakeover,
               loginVars, tables, history
    <2> QED BY <2>1, AgreeingStep
<1>3. LoginSpec => []Agreeing
    BY <1>1, <1>2, SeenHolds, PTL DEF LoginSpec
<1> QED BY <1>3, SeenHolds, AgreeingAgrees, PTL

-----------------------------------------------------------------------------
(***************************************************************************)
(* M1 alone: credentials of visitors                                       *)
(***************************************************************************)
\* A request that is going to register a visitor, or to take the credentials away.
Busy == {"radius", "located", "checked", "validated", "notifying"}
Minded(v) == \E t \in Threads : pc[t] \in Busy /\ req[t].who = v

Minding ==
    NoTakeover /\ outages = 0 =>
        \A v \in credentials : Minded(v) \/ (\E r \in rows : r.who = v) \/ v \in stranded

LEMMA MindingIsUse == Shapes /\ Minding => CredentialsUsed
<1> SUFFICES ASSUME Shapes, Minding, NEW v \in credentials, NoTakeover, ~(outages > 0)
             PROVE  \/ \E t \in Threads : pc[t] # "idle" /\ req[t].who = v
                    \/ \E r \in rows : r.who = v
                    \/ v \in stranded
    BY DEF CredentialsUsed, NoTakeover
<1>1. outages = 0
    BY LoginConstants DEF Shapes, AccountsOK
<1> QED BY <1>1 DEF Minding, Minded, Busy

\* A request that goes on, for the same person, from one place that minds the
\* credentials to the next, or between two that do not.
LEMMA MindedKept ==
    ASSUME Shapes, NEW t \in Threads, NEW there, NEW r, Go(t, there, r), NEW v,
           Minded(v),
           pc[t] \in Busy => (there \in Busy /\ r.who = req[t].who) \/ req[t].who # v
    PROVE  Minded(v)'
<1>1. /\ pc \in [Threads -> Place] /\ req \in [Threads -> Request]
    BY DEF Shapes, RequestsOK
<1>2. /\ pc'[t] = there /\ req'[t] = r
      /\ \A s \in Threads : s # t => pc'[s] = pc[s] /\ req'[s] = req[s]
    BY <1>1 DEF Go
<1>3. PICK s \in Threads : pc[s] \in Busy /\ req[s].who = v
    BY DEF Minded
<1>4. CASE s = t
    BY <1>2, <1>3, <1>4 DEF Minded
<1>5. CASE s # t
    BY <1>2, <1>3, <1>5 DEF Minded
<1> QED BY <1>4, <1>5

\* Such a request, in a step that keeps sessions, and adds no credentials.
LEMMA MindingKept ==
    ASSUME Shapes, Minding, NEW t \in Threads, NEW there, NEW r, Go(t, there, r),
           pc[t] \in Busy =>
              \/ there \in Busy /\ r.who = req[t].who
              \/ req[t].who \notin credentials',
           credentials' \subseteq credentials, rows' = rows, excused' = excused,
           stranded \cap credentials' \subseteq stranded', outages' = 0 => outages = 0
    PROVE  Minding'
<1> SUFFICES ASSUME NoTakeover', outages' = 0, NEW v \in credentials'
             PROVE  Minded(v)' \/ (\E q \in rows' : q.who = v) \/ v \in stranded'
    BY DEF Minding
<1>1. Minded(v) \/ (\E q \in rows : q.who = v) \/ v \in stranded
    BY DEF Minding, NoTakeover
<1>2. CASE Minded(v)
    BY <1>2, MindedKept
<1> QED BY <1>1, <1>2

LEMMA MindingStep == Seen /\ Minding /\ LoginNext => Minding'
<1> SUFFICES ASSUME Seen, Minding, NEW t \in Threads,
                    AloneStep(t) \/ Welcome(t) \/ LoggedIn(t)
                      \/ CloseSession(t) \/ LoggedOut(t)
             PROVE  Minding'
    BY DEF LoginNext
<1>a. /\ Shapes /\ TablesOK /\ pc \in [Threads -> Place] /\ req \in [Threads -> Request]
      /\ outages \in Nat /\ credentials \subseteq Visitors
    BY LoginConstants DEF Seen, Shapes, RequestsOK, AccountsOK
<1>u. Up => outages' = outages
    BY DEF Up
<1>d. Down => outages' # 0
    BY <1>a DEF Down
<1>1. ASSUME NEW p \in People, BeginLogin(t, p) PROVE Minding'
    <2>1. /\ Go(t, "radius", [Blank EXCEPT !.who = p]) /\ pc[t] = "idle"
          /\ UNCHANGED <<accounts, tables, history>> /\ (Up \/ Down)
        BY <1>1 DEF BeginLogin, UnlessDown
    <2> QED BY <2>1, <1>a, <1>u, <1>d, MindingKept DEF accounts, tables, history, Busy
<1>2. ASSUME NEW p \in People, BeginVisit(t, p) PROVE Minding'
    <2>1. /\ Go(t, "radius", [Blank EXCEPT !.who = p]) /\ pc[t] = "idle"
          /\ credentials' = credentials \cup {p}
          /\ UNCHANGED <<tables, history, outages>>
        BY <1>2 DEF BeginVisit
    <2>2. pc'[t] = "radius" /\ req'[t] = [Blank EXCEPT !.who = p]
        BY <2>1, <1>a DEF Go
    <2>3. req'[t].who = p
        BY <2>2, BlankFact DEF Request
    <2>4. Minded(p)'
        BY <2>2, <2>3 DEF Minded, Busy
    <2> SUFFICES ASSUME NoTakeover', outages' = 0, NEW v \in credentials'
                 PROVE  Minded(v)' \/ (\E q \in rows' : q.who = v) \/ v \in stranded'
        BY DEF Minding
    <2>5. CASE v = p
        BY <2>4, <2>5
    <2>6. CASE v # p
        <3>1. Minded(v) \/ (\E q \in rows : q.who = v) \/ v \in stranded
            BY <2>1, <2>6 DEF Minding, NoTakeover, history
        <3>2. CASE Minded(v)
            BY <2>1, <3>2, <1>a, MindedKept DEF Busy
        <3> QED BY <3>1, <3>2, <2>1 DEF tables, history
    <2> QED BY <2>5, <2>6
<1>3. ASSUME NEW p \in People \cup {Guest}, BeginLogout(t, p) PROVE Minding'
    BY <1>3, <1>a, MindingKept DEF BeginLogout, accounts, tables, history, Busy
<1>4. ASSUME NEW h \in Hosts, Accepted(t, h) PROVE Minding'
    <2>1. [req[t] EXCEPT !.host = h].who = req[t].who
        BY <1>a DEF Request
    <2> QED BY <1>4, <2>1, <1>a, MindingKept DEF Accepted, accounts, tables, history, Busy
<1>5. CASE Rejected(t)
    <2>1. req[t].who \notin credentials
        BY <1>5, <1>a, LoginConstants DEF Rejected
    <2> QED BY <1>5, <2>1, <1>a, MindingKept DEF Rejected, accounts, tables, history
<1>6. CASE ReadAttempts(t)
    BY <1>6, <1>a, MindingKept DEF ReadAttempts, accounts, tables, history, Busy
<1>7. CASE CountAttempt(t)
    BY <1>7, <1>a, MindingKept DEF CountAttempt, Leave, tables, Busy
<1>8. CASE AttemptLost(t)
    BY <1>8, <1>a, <1>d, MindingKept DEF AttemptLost, Leave, accounts, tables, Busy
<1>9. CASE PassAntiSpoofing(t)
    <2>1. /\ Go(t, "checked", req[t])
          /\ UNCHANGED <<accounts, tables, history>> /\ (Up \/ Down)
        BY <1>9 DEF PassAntiSpoofing, UnlessDown
    <2> QED BY <2>1, <1>a, <1>u, <1>d, MindingKept DEF accounts, tables, history, Busy
<1>10. CASE PassValidation(t)
    <2>1. PICK r : /\ Go(t, "validated", r) /\ r.who = req[t].who
                   /\ UNCHANGED <<accounts, tables, history>> /\ (Up \/ Down)
        <3>1. /\ [req[t] EXCEPT !.unseen = {}].who = req[t].who
              /\ [req[t] EXCEPT !.unseen = Sids].who = req[t].who
            BY <1>a DEF Request
        <3> QED BY <1>10, <3>1 DEF PassValidation
    <2> QED BY <2>1, <1>a, <1>u, <1>d, MindingKept DEF accounts, tables, history, Busy
<1>11. CASE Refused(t)
    <2>1. CASE /\ credentials' = credentials \ {req[t].who} /\ Up
               /\ stranded' = stranded \ {req[t].who}
        BY <1>11, <2>1, <1>a, <1>u, MindingKept DEF Refused, Leave, tables
    <2>2. CASE Down
        BY <2>2, <1>d DEF Minding
    <2> QED BY <1>11, <2>1, <2>2 DEF Refused, Forget
<1>12. CASE Register(t)
    <2> SUFFICES ASSUME NoTakeover', outages' = 0, NEW v \in credentials'
                 PROVE  Minded(v)' \/ (\E q \in rows' : q.who = v) \/ v \in stranded'
        BY DEF Minding
    <2>1. /\ rows \subseteq rows' /\ \E q \in rows' : q.who = req[t].who
        <3> DEFINE h == req[t].host
                   new == [id |-> next, user |-> Id(req[t].who), who |-> req[t].who,
                           mac |-> h.mac, ip |-> h.ip, port |-> h.port]
        <3>1. rows' = rows \cup {new}
            BY <1>12, RegisterIsNew
        <3>2. new.who = req[t].who
            OBVIOUS
        <3> QED BY <3>1, <3>2
    <2>2. NoTakeover /\ outages = 0 /\ v \in credentials /\ stranded' = stranded
        BY <1>12 DEF Register, NoTakeover, accounts
    <2>3. Minded(v) \/ (\E q \in rows : q.who = v) \/ v \in stranded
        BY <2>2 DEF Minding
    <2>4. \A s \in Threads : s # t => pc'[s] = pc[s] /\ req'[s].who = req[s].who
        BY <1>12, <1>a DEF Register, Overlook, Request
    <2>5. CASE Minded(v)
        <3>1. PICK s \in Threads : pc[s] \in Busy /\ req[s].who = v
            BY <2>5 DEF Minded
        <3> QED BY <3>1, <2>1, <2>4 DEF Minded
    <2> QED BY <2>1, <2>2, <2>3, <2>5
<1>13. CASE Bind(t)
    BY <1>13, <1>a, <1>u, <1>d, MindingKept DEF Bind, accounts, history, Busy
<1>14. CASE CloseFails(t)
    BY <1>14, <1>d DEF CloseFails, Minding
<1>15. CASE Welcome(t)
    <2>1. /\ Go(t, "token", req[t]) /\ pc[t] = "bound"
          /\ UNCHANGED <<credentials, tables, excused, stranded>>
          /\ outages' = outages \/ Up \/ Down
        BY <1>15 DEF Welcome
    <2> QED BY <2>1, <1>a, <1>u, <1>d, MindingKept DEF tables, Busy
<1>16. CASE LoggedIn(t)
    BY <1>16, <1>a, MindingKept DEF LoggedIn, Leave, accounts, tables, history, Busy
<1>17. CASE CloseSession(t)
    <2> SUFFICES ASSUME NoTakeover', outages' = 0, NEW v \in credentials'
                 PROVE  Minded(v)' \/ (\E q \in rows' : q.who = v) \/ v \in stranded'
        BY DEF Minding
    <2>1. /\ rows' = {r \in rows : r.id # req[t].sid} /\ pc[t] = "leaving"
          /\ Go(t, "notifying", req[t]) /\ credentials' = credentials
          /\ excused' = excused /\ outages' = outages
          /\ stranded' = stranded \cup
                {w \in credentials \ {req[t].who} :
                    \E r \in rows : r.id = req[t].sid /\ r.who = w}
        BY <1>17 DEF CloseSession, accounts
    <2>2. Minded(v) \/ (\E q \in rows : q.who = v) \/ v \in stranded
        BY <2>1 DEF Minding, NoTakeover
    <2>3. CASE Minded(v)
        BY <2>1, <2>3, <1>a, MindedKept DEF Busy
    <2>4. ASSUME NEW q \in rows, q.who = v, q.id = req[t].sid
          PROVE  Minded(v)' \/ v \in stranded'
        <3>1. CASE req[t].who = v
            <4>1. pc'[t] = "notifying" /\ req'[t] = req[t]
                BY <2>1, <1>a DEF Go
            <4> QED BY <3>1, <4>1 DEF Minded, Busy
        <3>2. CASE req[t].who # v
            BY <2>1, <2>4, <3>2, <1>a
        <3> QED BY <3>1, <3>2
    <2> QED BY <2>1, <2>2, <2>3, <2>4
<1>18. CASE LoggedOut(t)
    <2>1. CASE /\ credentials' = credentials \ {req[t].who} /\ Up
               /\ stranded' = stranded \ {req[t].who}
        BY <1>18, <2>1, <1>a, <1>u, MindingKept DEF LoggedOut, Leave, tables
    <2>2. CASE Down
        BY <2>2, <1>d DEF Minding
    <2> QED BY <1>18, <2>1, <2>2 DEF LoggedOut, Forget
<1> QED
    BY <1>1, <1>2, <1>3, <1>4, <1>5, <1>6, <1>7, <1>8, <1>9, <1>10, <1>11, <1>12, <1>13,
       <1>14, <1>15, <1>16, <1>17, <1>18 DEF AloneStep

\* eliminar_visitante is called wherever a login of a visitor ends in the middle or his
\* session is closed in his name (m1_auth.py:1089-1266, 1293-1294): credentials that
\* stay in radcheck without a use go back to one of the causes the property names.
THEOREM CredentialsUsedHolds == LoginSpec => []CredentialsUsed
<1>1. LoginInit => Minding
    BY DEF LoginInit, Minding
<1>2. Seen /\ Minding /\ [LoginNext]_loginVars => Minding'
    <2>1. Minding /\ UNCHANGED loginVars => Minding'
        BY DEF Minding, Minded, NoTakeover, loginVars, accounts, tables, history
    <2> QED BY <2>1, MindingStep
<1>3. Seen /\ Minding => CredentialsUsed
    BY MindingIsUse DEF Seen
<1> QED BY <1>1, <1>2, <1>3, SeenHolds, PTL DEF LoginSpec

-----------------------------------------------------------------------------
(***************************************************************************)
(* M1 with M6 and M1 alone                                                 *)
(***************************************************************************)
\* What M6 does is none of M1's business, and M1 does nothing with M6 that it does
\* not do alone.
LEMMA PortalIsLogin == [Next]_vars => [LoginNext]_loginVars
<1> SUFFICES ASSUME [Next]_vars PROVE [LoginNext]_loginVars
    OBVIOUS
<1>1. CASE UNCHANGED vars
    BY <1>1 DEF vars
<1>2. CASE PortalStep
    BY <1>2 DEF PortalStep, LoginNext, SendToken, SendClose, Answered, TimedOut
<1>3. ASSUME NEW c \in calls, Lost(c) \/ \E j \in Jobs : Accept(j, c)
      PROVE  UNCHANGED loginVars
    BY <1>3 DEF Lost, Accept
<1>4. ASSUME NEW j \in Jobs, TokenStep(j)
      PROVE  UNCHANGED loginVars
    BY <1>4 DEF TokenStep, CheckGate, InstallGate, CacheGate, SetGate, InstallPermit,
                CachePermit, SkipPermit, InstallFails
<1>5. ASSUME NEW j \in Jobs, CloseStep(j)
      PROVE  UNCHANGED loginVars
    BY <1>5 DEF CloseStep, Lookup, Pop, Delete, DeleteFails, Closed
<1>6. ASSUME NEW j \in Jobs, SweepStep(j) \/ BeginSweep(j) \/ Restart(j)
      PROVE  UNCHANGED loginVars
    BY <1>6 DEF SweepStep, ReadActive, Scan, PopStale, BeginSweep, Restart
<1>7. CASE FlowTimesOut
    BY <1>7 DEF FlowTimesOut
<1> QED BY <1>1, <1>2, <1>3, <1>4, <1>5, <1>6, <1>7 DEF Next

\* M1 and M6 together implement M1 alone: every theorem about Logins is one about
\* the sessions as well (m1_auth.py with the calls of emitir_token and cerrar_sesion).
THEOREM LoginsImplemented == Spec => LoginSpec
<1>1. Init => LoginInit
    BY DEF Init
<1> QED BY <1>1, PortalIsLogin, PTL DEF Spec, LoginSpec

-----------------------------------------------------------------------------
(***************************************************************************)
(* The shapes of M6's state                                                *)
(***************************************************************************)
Requests == {"token", "close", "expired"}
Steps == {"idle", "token", "gate", "cacheGate", "setGate", "permit", "cachePermit",
          "expired", "close", "sweep", "scan", "deleting"}
Gates == {Gate(h) : h \in Hosts}

\* M6 is called with requests; it starts its sweeps itself.
CallsOK == calls \subseteq Call /\ \A c \in calls : c.kind \in Requests
FlowsOK == /\ flows \subseteq [id : Flows, user : Owners]
           /\ \A f, g \in flows : f.id = g.id => f = g
CacheOK == cache \subseteq Flows
GatesOK == gates \subseteq Gates /\ \A g, k \in gates : MacOf(g) = MacOf(k) => g = k
PlacesOK == jpc \in [Jobs -> Steps]
JobOK == job \in [Jobs -> Call]
WorkOK == doomed \in [Jobs -> SUBSET Flows] /\ listed \in [Jobs -> SUBSET Hosts]
TroubleOK == trouble \subseteq Macs
RestOK == sweeps \in 0 .. Sweeps /\ faults \in 0 .. Faults /\ forgotten \subseteq Flows

SShapes == /\ Shapes /\ CallsOK /\ FlowsOK /\ CacheOK /\ GatesOK /\ PlacesOK /\ JobOK
           /\ WorkOK /\ TroubleOK /\ RestOK

LEMMA SShapesAreType == SShapes => TypeOK
BY ShapesAreType DEF SShapes, TypeOK, CallsOK, FlowsOK, CacheOK, GatesOK, PlacesOK, JobOK,
   WorkOK, TroubleOK, RestOK, Steps, Gates

LEMMA FlowFacts ==
    /\ \A h \in Hosts : /\ Gate(h) \in Flows /\ Gate(h) \in Gates /\ HostOf(Gate(h)) = h
                        /\ MacOf(Gate(h)) = h.mac
    /\ \A h \in Hosts, u \in Owners :
         Permit(h, u) \in Flows /\ HostOf(Permit(h, u)) = h /\ MacOf(Permit(h, u)) = h.mac
    /\ \A f \in Flows : HostOf(f) \in Hosts /\ MacOf(f) \in Macs /\ MacOf(f) = HostOf(f).mac
    /\ \A f \in Gates : f \in Flows /\ f = Gate(HostOf(f))
BY HostFact DEF Flows, Gates, Gate, Permit, HostOf, MacOf

LEMMA NoCallFact == NoCall \in Call /\ NoCall.kind = "close"
<1>1. (CHOOSE h \in Hosts : TRUE) \in Hosts
    BY LoginConstants
<1> QED BY <1>1 DEF NoCall, Call, Kind, Owners

LEMMA JobFact ==
    ASSUME JobOK, NEW j \in Jobs
    PROVE  /\ job[j].host \in Hosts /\ job[j].user \in Owners /\ job[j].kind \in Kind
           /\ Mac(j) \in Macs /\ Mac(j) = job[j].host.mac
BY HostFact DEF JobOK, Call, Mac

\* What a step leaves alone keeps its shape.
LEMMA Kept ==
    /\ CallsOK /\ UNCHANGED calls => CallsOK'
    /\ FlowsOK /\ UNCHANGED flows => FlowsOK'
    /\ CacheOK /\ UNCHANGED cache => CacheOK'
    /\ GatesOK /\ UNCHANGED gates => GatesOK'
    /\ PlacesOK /\ UNCHANGED jpc => PlacesOK'
    /\ JobOK /\ UNCHANGED job => JobOK'
    /\ WorkOK /\ UNCHANGED <<doomed, listed>> => WorkOK'
    /\ TroubleOK /\ UNCHANGED trouble => TroubleOK'
    /\ RestOK /\ UNCHANGED <<sweeps, faults, forgotten>> => RestOK'
BY DEF CallsOK, FlowsOK, CacheOK, GatesOK, PlacesOK, JobOK, WorkOK, TroubleOK, RestOK

LEMMA MoveFacts ==
    ASSUME PlacesOK, NEW j \in Jobs
    PROVE  /\ \A p \in Steps : GoTo(j, p) => PlacesOK'
           /\ JobOK /\ Finish(j) => PlacesOK' /\ JobOK'
BY NoCallFact DEF PlacesOK, JobOK, GoTo, Finish, Steps

LEMMA FaultFact ==
    ASSUME TroubleOK, NEW M \in SUBSET Macs
    PROVE  /\ Fault(M) => TroubleOK' /\ (RestOK /\ UNCHANGED <<sweeps, forgotten>> => RestOK')
           /\ Trouble(M) => TroubleOK'
BY SessionConstants DEF TroubleOK, RestOK, Fault, Trouble

\* Only the given flow is new.
LEMMA PutFact ==
    ASSUME FlowsOK, NEW f \in Flows, NEW u \in Owners, Put(f, u)
    PROVE  FlowsOK'
BY DEF FlowsOK, Put

LEMMA RemoveFact ==
    ASSUME FlowsOK, CallsOK, NEW f \in Flows, Remove(f)
    PROVE  FlowsOK' /\ CallsOK'
<1>1. FlowsOK'
    BY DEF FlowsOK, Remove
<1>2. ASSUME Reported(f) PROVE CallsOK'
    <2>1. PICK c : c = [kind |-> "expired", host |-> HostOf(f), user |-> Guest, from |-> Nobody]
        OBVIOUS
    <2>2. c \in Call /\ c.kind \in Requests
        BY <2>1, FlowFacts DEF Call, Kind, Owners, Requests
    <2> QED BY <1>2, <2>1, <2>2 DEF Reported, CallsOK
<1> QED BY <1>1, <1>2 DEF Remove, CallsOK

-----------------------------------------------------------------------------
LEMMA PortalShapes ==
    ASSUME SShapes, Shapes',
           \/ PortalStep
           \/ \E c \in calls : Lost(c) \/ \E j \in Jobs : Accept(j, c)
    PROVE  SShapes'
<1> USE DEF SShapes
<1>a. \A t \in Threads : /\ req[t].host \in Hosts /\ Id(req[t].who) \in Owners
                         /\ req[t].host.mac \in Macs
    BY IdFact, HostFact DEF Shapes, RequestsOK, Request, Owners
<1>1. ASSUME NEW t \in Threads, NEW what \in {"token", "close"}, Ask(t, what) PROVE CallsOK'
    <2>1. PICK c : c = [kind |-> what, host |-> req[t].host, user |-> Id(req[t].who), from |-> t]
        OBVIOUS
    <2>2. c \in Call /\ c.kind \in Requests
        BY <1>a, <2>1 DEF Call, Kind, Requests
    <2> QED BY <1>1, <2>1, <2>2 DEF Ask, CallsOK
<1>2. ASSUME NEW t \in Threads, SendToken(t) PROVE SShapes'
    <2>1. TroubleOK'
        BY <1>2 DEF SendToken, TroubleOK
    <2> QED BY <1>1, <1>2, <2>1, Kept DEF SendToken, m6, jobs, bounds
<1>3. ASSUME NEW t \in Threads, SendClose(t) PROVE SShapes'
    BY <1>1, <1>3, Kept DEF SendClose, m6, jobs, bounds, history6
<1>4. CASE UNCHANGED sessionVars
    BY <1>4, Kept DEF sessionVars, m6, jobs, bounds, history6
<1>5. ASSUME NEW t \in Threads, TimedOut(t) PROVE SShapes'
    <2>1. CallsOK'
        <3>1. \A c \in calls : [c EXCEPT !.from = Nobody] \in Call
            BY DEF CallsOK, Call
        <3>2. \A c \in calls : [c EXCEPT !.from = Nobody].kind = c.kind
            BY DEF CallsOK, Call
        <3> QED BY <1>5, <3>1, <3>2 DEF TimedOut, CallsOK
    <2>2. JobOK'
        <3>1. \A j \in Jobs : [job[j] EXCEPT !.from = Nobody] \in Call
            BY DEF JobOK, Call
        <3> QED BY <1>5, <3>1 DEF TimedOut, JobOK
    <2>3. Fault({req[t].host.mac}) /\ {req[t].host.mac} \in SUBSET Macs
        BY <1>5, <1>a DEF TimedOut
    <2>4. TroubleOK' /\ RestOK'
        BY <1>5, <2>3, FaultFact DEF TimedOut
    <2> QED BY <1>5, <2>1, <2>2, <2>4, Kept DEF TimedOut, m6
<1>6. ASSUME NEW c \in calls, Lost(c) PROVE SShapes'
    <2>1. CallsOK'
        BY <1>6 DEF Lost, CallsOK
    <2>2. {c.host.mac} \in SUBSET Macs
        BY HostFact DEF CallsOK, Call
    <2>3. TroubleOK' /\ RestOK'
        BY <1>6, <2>2, FaultFact DEF Lost
    <2> QED BY <1>6, <2>1, <2>3, Kept DEF Lost, m6, jobs
<1>7. ASSUME NEW c \in calls, NEW j \in Jobs, Accept(j, c) PROVE SShapes'
    <2>1. c \in Call /\ c.kind \in Steps
        BY DEF CallsOK, Requests, Steps
    <2>2. CallsOK' /\ JobOK'
        BY <1>7, <2>1 DEF Accept, CallsOK, JobOK
    <2>3. PlacesOK'
        BY <1>7, <2>1, MoveFacts DEF Accept
    <2> QED BY <1>7, <2>2, <2>3, Kept DEF Accept, m6, bounds, history6
<1> QED BY <1>2, <1>3, <1>4, <1>5, <1>6, <1>7 DEF PortalStep, Answered

LEMMA TokenShapes ==
    ASSUME SShapes, Shapes', NEW j \in Jobs, TokenStep(j)
    PROVE  SShapes'
<1> USE DEF SShapes
<1> USE DEF m6, bounds, history6
<1>a. /\ job[j].host \in Hosts /\ job[j].user \in Owners /\ {Mac(j)} \in SUBSET Macs
      /\ Gate(job[j].host) \in Flows /\ Gate(job[j].host) \in Gates
      /\ MacOf(Gate(job[j].host)) = Mac(j)
      /\ Permit(job[j].host, job[j].user) \in Flows
    BY JobFact, FlowFacts
<1>b. \A p \in {"gate", "cacheGate", "setGate", "permit", "cachePermit"} : p \in Steps
    BY DEF Steps
<1>1. CASE CheckGate(j)
    <2>1. GatesOK'
        BY <1>1 DEF CheckGate, GatesOK
    <2>2. PlacesOK'
        BY <1>1, <1>b, MoveFacts DEF CheckGate
    <2>3. TroubleOK' /\ RestOK'
        BY <1>1, <1>a, FaultFact, Kept DEF CheckGate, NoFault
    <2> QED BY <1>1, <2>1, <2>2, <2>3, Kept DEF CheckGate
<1>2. CASE InstallGate(j)
    BY <1>2, <1>a, <1>b, MoveFacts, PutFact, Kept DEF InstallGate
<1>3. CASE CacheGate(j)
    <2>1. CacheOK'
        BY <1>3, <1>a DEF CacheGate, CacheOK
    <2> QED BY <1>3, <1>b, <2>1, MoveFacts, Kept DEF CacheGate
<1>4. CASE SetGate(j)
    <2>1. GatesOK'
        BY <1>4, <1>a DEF SetGate, GatesOK
    <2> QED BY <1>4, <1>b, <2>1, MoveFacts, Kept DEF SetGate
<1>5. CASE InstallPermit(j)
    BY <1>5, <1>a, <1>b, MoveFacts, PutFact, Kept DEF InstallPermit
<1>6. CASE CachePermit(j)
    <2>1. CacheOK'
        BY <1>6, <1>a DEF CachePermit, CacheOK
    <2> QED BY <1>6, <2>1, MoveFacts, Kept DEF CachePermit
<1>7. CASE SkipPermit(j)
    BY <1>7, MoveFacts, Kept DEF SkipPermit
<1>8. CASE InstallFails(j)
    <2>1. FlowsOK'
        BY <1>8, <1>a, PutFact, Kept DEF InstallFails
    <2>2. PlacesOK' /\ JobOK'
        BY <1>8, <1>b, MoveFacts, Kept DEF InstallFails
    <2>3. TroubleOK' /\ RestOK'
        BY <1>8, <1>a, FaultFact DEF InstallFails
    <2> QED BY <1>8, <2>1, <2>2, <2>3, Kept DEF InstallFails
<1> QED BY <1>1, <1>2, <1>3, <1>4, <1>5, <1>6, <1>7, <1>8 DEF TokenStep

LEMMA OfMac ==
    \A M : With(M) \subseteq M /\ \A F : Of(M, F) \subseteq F
BY DEF With, Of

LEMMA CloseShapes ==
    ASSUME SShapes, Shapes', NEW j \in Jobs, CloseStep(j)
    PROVE  SShapes'
<1> USE DEF SShapes
<1> USE DEF m6, bounds, history6
<1>a. {Mac(j)} \in SUBSET Macs /\ With({Mac(j)}) \in SUBSET Macs /\ {} \in SUBSET Macs
    BY JobFact, OfMac
<1>b. "close" \in Steps /\ "deleting" \in Steps
    BY DEF Steps
<1>c. \A f \in doomed[j] : /\ f \in Flows /\ {MacOf(f)} \in SUBSET Macs
                           /\ With({MacOf(f)}) \in SUBSET Macs
    BY FlowFacts, OfMac DEF WorkOK
<1>1. CASE Lookup(j)
    <2>1. PlacesOK' /\ JobOK'
        BY <1>1, <1>b, MoveFacts, Kept DEF Lookup
    <2>2. TroubleOK' /\ RestOK'
        BY <1>1, <1>a, FaultFact, Kept DEF Lookup
    <2> QED BY <1>1, <2>1, <2>2, Kept DEF Lookup
<1>2. CASE Pop(j)
    <2>1. CacheOK' /\ GatesOK' /\ WorkOK'
        BY <1>2, OfMac DEF Pop, CacheOK, GatesOK, WorkOK
    <2>2. TroubleOK'
        BY <1>2, <1>a, FaultFact DEF Pop
    <2> QED BY <1>2, <1>b, <2>1, <2>2, MoveFacts, Kept DEF Pop
<1>3. CASE Delete(j)
    <2>1. PICK f \in doomed[j] :
             /\ Remove(f) /\ doomed' = [doomed EXCEPT ![j] = @ \ {f}]
             /\ Trouble(IF job[j].kind = "close" THEN {} ELSE With({MacOf(f)}))
        BY <1>3 DEF Delete
    <2>2. FlowsOK' /\ CallsOK'
        BY <1>c, <2>1, RemoveFact
    <2>3. WorkOK'
        BY <1>3, <2>1 DEF Delete, WorkOK
    <2>4. TroubleOK'
        BY <1>a, <1>c, <2>1, FaultFact
    <2> QED BY <1>3, <2>2, <2>3, <2>4, Kept DEF Delete
<1>4. CASE DeleteFails(j)
    <2>1. PICK f \in doomed[j] :
             doomed' = [doomed EXCEPT ![j] = @ \ {f}] /\ Fault({MacOf(f)})
        BY <1>4 DEF DeleteFails
    <2>2. WorkOK'
        BY <1>4, <2>1 DEF DeleteFails, WorkOK
    <2>3. TroubleOK' /\ RestOK'
        BY <1>4, <1>c, <2>1, FaultFact DEF DeleteFails
    <2> QED BY <1>4, <2>2, <2>3, Kept DEF DeleteFails
<1>5. CASE Closed(j)
    BY <1>5, MoveFacts, Kept DEF Closed
<1> QED BY <1>1, <1>2, <1>3, <1>4, <1>5 DEF CloseStep

LEMMA SweepShapes ==
    ASSUME SShapes, Shapes', NEW j \in Jobs, SweepStep(j) \/ BeginSweep(j)
    PROVE  SShapes'
<1> USE DEF SShapes
<1> USE DEF m6, bounds, history6
<1>b. "sweep" \in Steps /\ "scan" \in Steps /\ "deleting" \in Steps
    BY DEF Steps
<1>1. CASE BeginSweep(j)
    <2>1. JobOK'
        <3>1. [NoCall EXCEPT !.kind = "sweep"] \in Call
            BY NoCallFact DEF Call, Kind
        <3> QED BY <1>1, <3>1 DEF BeginSweep, JobOK
    <2>2. RestOK'
        BY <1>1, SessionConstants DEF BeginSweep, RestOK
    <2> QED BY <1>1, <1>b, <2>1, <2>2, MoveFacts, Kept DEF BeginSweep
<1>2. CASE ReadActive(j)
    <2>1. {r.mac : r \in rows} \in SUBSET Macs
        BY DEF Shapes, TablesOK, Row
    <2>2. TroubleOK' /\ RestOK'
        BY <1>2, <2>1, FaultFact, Kept DEF ReadActive, NoFault
    <2>3. WorkOK'
        BY <1>2 DEF ReadActive, WorkOK
    <2> QED BY <1>2, <1>b, <2>2, <2>3, MoveFacts, Kept DEF ReadActive
<1>3. CASE Scan(j)
    <2> DEFINE new == Adopted(listed[j])
    <2> DEFINE stale == GatesInOnos \ listed[j]
    <2>1. new \subseteq Gates /\ new \subseteq Flows /\ stale \subseteq Hosts
        BY FlowFacts DEF Adopted, GatesInOnos
    <2>2. CacheOK'
        BY <1>3, <2>1 DEF Scan, CacheOK
    <2>3. GatesOK'
        <3>1. PICK G \in SUBSET new :
                 /\ \A g, k \in G : MacOf(g) = MacOf(k) => g = k
                 /\ gates' = G \cup {k \in gates : \A g \in G : MacOf(k) # MacOf(g)}
            BY <1>3 DEF Scan
        <3> HIDE DEF new
        <3>2. gates' \subseteq Gates
            BY <2>1, <3>1 DEF GatesOK
        <3>3. ASSUME NEW g \in gates', NEW k \in gates', MacOf(g) = MacOf(k) PROVE g = k
            BY <3>1, <3>3 DEF GatesOK
        <3> QED BY <3>2, <3>3 DEF GatesOK
    <2>4. WorkOK'
        <3>1. {Gate(h) : h \in stale} \subseteq Flows
            BY <2>1, FlowFacts
        <3>2. /\ doomed' = [doomed EXCEPT ![j] = {Gate(h) : h \in stale}]
              /\ listed' = [listed EXCEPT ![j] = stale]
            BY <1>3 DEF Scan
        <3> QED BY <2>1, <3>1, <3>2 DEF WorkOK
    <2> QED BY <1>3, <1>b, <2>2, <2>3, <2>4, MoveFacts, Kept DEF Scan
<1>4. CASE PopStale(j)
    <2>1. CacheOK' /\ GatesOK' /\ WorkOK'
        BY <1>4 DEF PopStale, CacheOK, GatesOK, WorkOK
    <2>2. {MacOf(f) : f \in cache \ cache'} \in SUBSET Macs
        BY FlowFacts DEF CacheOK
    <2>3. TroubleOK'
        BY <1>4, <2>2, FaultFact DEF PopStale
    <2> QED BY <1>4, <2>1, <2>3, MoveFacts, Kept DEF PopStale
<1> QED BY <1>1, <1>2, <1>3, <1>4 DEF SweepStep

LEMMA OtherShapes ==
    ASSUME SShapes, Shapes', FlowTimesOut \/ \E j \in Jobs : Restart(j)
    PROVE  SShapes'
<1> USE DEF SShapes
<1> USE DEF m6, bounds, history6
<1>1. CASE FlowTimesOut
    <2>1. PICK f \in flows :
             /\ Remove(f.id)
             /\ IF f.id[1] = "gate" THEN Fault({MacOf(f.id)}) ELSE NoFault
        BY <1>1 DEF FlowTimesOut
    <2>2. f.id \in Flows /\ {MacOf(f.id)} \in SUBSET Macs
        BY FlowFacts DEF FlowsOK
    <2>3. FlowsOK' /\ CallsOK'
        BY <2>1, <2>2, RemoveFact
    <2>4. TroubleOK' /\ RestOK'
        BY <1>1, <2>1, <2>2, FaultFact, Kept DEF FlowTimesOut, NoFault
    <2> QED BY <1>1, <2>3, <2>4, Kept DEF FlowTimesOut, jobs
<1>2. ASSUME NEW j \in Jobs, Restart(j) PROVE SShapes'
    <2>1. PlacesOK'
        BY <1>2 DEF Restart, PlacesOK, Steps
    <2>2. JobOK'
        <3>1. [NoCall EXCEPT !.kind = "boot"] \in Call
            BY NoCallFact DEF Call, Kind
        <3> QED BY <1>2, <3>1, NoCallFact DEF Restart, JobOK
    <2>3. CacheOK' /\ GatesOK' /\ WorkOK'
        BY <1>2 DEF Restart, CacheOK, GatesOK, WorkOK
    <2>4. {Mac(k) : k \in {i \in Jobs : jpc[i] # "idle"}} \in SUBSET Macs
        BY JobFact
    <2>5. TroubleOK'
        BY <1>2, <2>4, FaultFact DEF Restart
    <2>6. RestOK'
        <3>1. {f.id : f \in flows} \subseteq Flows
            BY DEF FlowsOK
        <3> QED BY <1>2, <3>1, SessionConstants DEF Restart, RestOK
    <2> QED BY <1>2, <2>1, <2>2, <2>3, <2>5, <2>6, Kept DEF Restart
<1> QED BY <1>1, <1>2

LEMMA SShapesInit == Init => SShapes
<1> SUFFICES ASSUME Init PROVE SShapes
    OBVIOUS
<1>1. Shapes
    BY ShapesInit DEF Init
<1>2. CallsOK /\ FlowsOK /\ CacheOK /\ GatesOK /\ TroubleOK /\ RestOK
    BY SessionConstants DEF Init, CallsOK, FlowsOK, CacheOK, GatesOK, TroubleOK, RestOK
<1>3. PlacesOK /\ JobOK /\ WorkOK
    BY NoCallFact DEF Init, PlacesOK, JobOK, WorkOK, Steps
<1> QED BY <1>1, <1>2, <1>3 DEF SShapes

LEMMA SShapesStep == SShapes /\ [Next]_vars => SShapes'
<1> SUFFICES ASSUME SShapes, [Next]_vars PROVE SShapes'
    OBVIOUS
<1>1. Shapes'
    BY PortalIsLogin, ShapesStep DEF SShapes
<1>2. CASE UNCHANGED vars
    BY <1>1, <1>2, Kept DEF SShapes, vars, sessionVars, m6, jobs, bounds, history6
<1>3. CASE Next
    BY <1>1, <1>3, PortalShapes, TokenShapes, CloseShapes, SweepShapes, OtherShapes DEF Next
<1> QED BY <1>2, <1>3

LEMMA SShapesHold == Spec => []SShapes
BY SShapesInit, SShapesStep, PTL DEF Spec

\* Every variable of M1 and of M6 keeps its shape: no two flows of ONOS share a
\* selector, and the dictionary of gates has one per MAC.
THEOREM SessionsTypeOK == Spec => []TypeOK
BY SShapesHold, SShapesAreType, PTL

-----------------------------------------------------------------------------
(***************************************************************************)
(* One request at a time at M1                                             *)
(***************************************************************************)
OneRequest == \A t, u \in Threads : t = u

\* A login has the row it registered, a logout has one until it has closed it.
OwnRows ==
    \A t \in Threads :
        /\ pc[t] \in {"registered", "bound", "token"} =>
             \E r \in rows : /\ r.id = req[t].sid /\ HostAt(r) = req[t].host
                             /\ r.user = Id(req[t].who)
        /\ pc[t] = "leaving" =>
             \E r \in rows : r.id = req[t].sid /\ HostAt(r) = req[t].host
        /\ pc[t] = "notifying" => \A r \in rows : r.mac # req[t].host.mac

LEMMA RegisterOwns ==
    ASSUME Shapes, NEW t \in Threads, Register(t)
    PROVE  \E r \in rows' : /\ r.id = req'[t].sid /\ HostAt(r) = req'[t].host
                            /\ r.user = Id(req'[t].who)
<1>1. PICK sid : sid = SidFor(req[t].host.mac)
    OBVIOUS
<1>2. PICK r : r = [id |-> sid, user |-> Id(req[t].who), who |-> req[t].who,
                    mac |-> req[t].host.mac, ip |-> req[t].host.ip, port |-> req[t].host.port]
    OBVIOUS
<1>3. r \in rows'
    BY <1>1, <1>2 DEF Register
<1>4. req'[t] = [req[t] EXCEPT !.sid = sid, !.unseen = {}]
    BY <1>1 DEF Register, Overlook
<1>5. req[t] \in Request
    BY DEF Shapes, RequestsOK
<1>6. req'[t].sid = sid /\ req'[t].host = req[t].host /\ req'[t].who = req[t].who
    BY <1>4, <1>5 DEF Request
<1>7. HostAt(r) = req[t].host
    BY <1>2, <1>5, HostFact DEF HostAt, Request
<1> QED BY <1>2, <1>3, <1>6, <1>7

LEMMA OwnRowsStep ==
    ASSUME OneRequest, Shapes, OwnRows, LoginNext
    PROVE  OwnRows'
<1>1. PICK t \in Threads : AloneStep(t) \/ Welcome(t) \/ LoggedIn(t)
                             \/ CloseSession(t) \/ LoggedOut(t)
    BY DEF LoginNext
<1>a. /\ pc \in [Threads -> Place] /\ req \in [Threads -> Request]
      /\ \A u \in Threads : u = t
    BY DEF Shapes, RequestsOK, OneRequest
<1>b. SUFFICES /\ pc'[t] \in {"registered", "bound", "token"} =>
                    \E r \in rows' : /\ r.id = req'[t].sid /\ HostAt(r) = req'[t].host
                                     /\ r.user = Id(req'[t].who)
               /\ pc'[t] = "leaving" =>
                    \E r \in rows' : r.id = req'[t].sid /\ HostAt(r) = req'[t].host
               /\ pc'[t] = "notifying" => \A r \in rows' : r.mac # req'[t].host.mac
    BY <1>a DEF OwnRows, HostAt, Id
<1>2. CASE Register(t)
    BY <1>2, <1>a, RegisterOwns DEF Register, Overlook
<1>3. CASE Bind(t) \/ Welcome(t)
    <2>1. /\ pc[t] \in {"registered", "bound"} /\ pc'[t] \in {"bound", "token"}
          /\ req'[t] = req[t] /\ rows' = rows
        BY <1>3, <1>a DEF Bind, Welcome, Go, tables
    <2> QED BY <2>1 DEF OwnRows
<1>4. ASSUME NEW p \in People \cup {Guest}, BeginLogout(t, p)
      PROVE  /\ pc'[t] = "leaving" /\ rows' = rows
             /\ \E r \in rows' : r.id = req'[t].sid /\ HostAt(r) = req'[t].host
    <2>1. PICK r \in rows :
             Go(t, "leaving", [Blank EXCEPT !.who = p, !.host = HostAt(r), !.sid = r.id])
        BY <1>4 DEF BeginLogout
    <2>2. pc'[t] = "leaving" /\ req'[t].sid = r.id /\ req'[t].host = HostAt(r)
        BY <1>a, <2>1, BlankFact DEF Go, Request, Blank
    <2> QED BY <1>4, <2>2 DEF BeginLogout, tables
<1>5. CASE CloseSession(t)
    <2>1. /\ pc[t] = "leaving" /\ pc'[t] = "notifying" /\ req'[t] = req[t]
          /\ rows' = {r \in rows : r.id # req[t].sid}
        BY <1>5, <1>a DEF CloseSession, Go
    <2>2. PICK r \in rows : r.id = req[t].sid /\ HostAt(r) = req[t].host
        BY <2>1 DEF OwnRows
    <2>3. r.mac = req[t].host.mac
        BY <2>2 DEF HostAt
    <2>4. \A s \in rows : s.mac = r.mac => s = r
        BY DEF Shapes, TablesOK
    <2> QED BY <2>1, <2>2, <2>3, <2>4
<1>6. CASE \/ LoggedIn(t) \/ LoggedOut(t) \/ Rejected(t) \/ ReadAttempts(t) \/ CountAttempt(t)
           \/ AttemptLost(t) \/ PassAntiSpoofing(t) \/ PassValidation(t) \/ Refused(t)
           \/ CloseFails(t)
           \/ \E p \in People : BeginLogin(t, p) \/ BeginVisit(t, p)
           \/ \E h \in Hosts : Accepted(t, h)
    <2>1. pc'[t] \in {"idle", "radius", "rejected", "counting", "located", "checked",
                      "validated"}
        <3>1. CASE \/ LoggedIn(t) \/ LoggedOut(t) \/ CountAttempt(t) \/ AttemptLost(t)
                   \/ Refused(t) \/ CloseFails(t)
            BY <1>a, <3>1 DEF LoggedIn, LoggedOut, CountAttempt, AttemptLost, Refused,
                              CloseFails, Leave, Go
        <3>2. CASE \/ Rejected(t) \/ ReadAttempts(t) \/ PassAntiSpoofing(t)
                   \/ PassValidation(t)
                   \/ \E p \in People : BeginLogin(t, p) \/ BeginVisit(t, p)
                   \/ \E h \in Hosts : Accepted(t, h)
            BY <1>a, <3>2 DEF Rejected, ReadAttempts, PassAntiSpoofing, PassValidation,
                              BeginLogin, BeginVisit, Accepted, Go
        <3> QED BY <1>6, <3>1, <3>2
    <2> QED BY <2>1
<1> QED BY <1>1, <1>2, <1>3, <1>4, <1>5, <1>6 DEF AloneStep

\* Somebody's session of the MAC was taken over, or not seen by another login.
Taken(mac) == \E r \in rows, s \in Sids : r.mac = mac /\ {s, r.id} \in excused

\* A session stays what it is, or is taken over, or is closed.
LEMMA RowsPass ==
    ASSUME Seen, LoginNext, NEW r \in rows
    PROVE  \/ r \in rows' \/ Taken(r.mac)'
           \/ \E t \in Threads : CloseSession(t) /\ req[t].sid = r.id
<1>1. PICK t \in Threads : AloneStep(t) \/ Welcome(t) \/ LoggedIn(t)
                             \/ CloseSession(t) \/ LoggedOut(t)
    BY DEF LoginNext
<1>2. CASE Register(t)
    <2>1. PICK h, sid : h = req[t].host /\ sid = SidFor(h.mac)
        OBVIOUS
    <2>2. PICK new : /\ rows' = {q \in rows : q.mac # h.mac} \cup {new}
                     /\ new.id = sid /\ new.mac = h.mac /\ sid \in Sids
        <3>1. PICK new : new = [id |-> sid, user |-> Id(req[t].who), who |-> req[t].who,
                                mac |-> h.mac, ip |-> h.ip, port |-> h.port]
            OBVIOUS
        <3>2. new \in Row /\ rows' = {q \in rows : q.mac # h.mac} \cup {new}
            BY <1>2, <2>1, <3>1, RegisterFact DEF Seen
        <3> QED BY <3>1, <3>2 DEF Row
    <2>3. CASE r.mac = h.mac
        <3>1. r.id = sid
            BY <1>2, <2>1, <2>3, RegisterFact DEF Seen
        <3>2. r.id \in req[t].unseen
            BY <1>2, <2>1, <2>3 DEF Register, Seen, ConflictsSeen, Conflict, SameHost
        <3>3. {sid, r.id} \in excused'
            BY <1>2, <2>1, <3>2 DEF Register
        <3> QED BY <2>2, <2>3, <3>1, <3>3 DEF Taken
    <2> QED BY <2>2, <2>3
<1>3. CASE ~Register(t) /\ ~CloseSession(t)
    <2>1. rows' = rows
        <3>1. CASE AloneStep(t)
            BY <1>3, <3>1 DEF AloneStep, BeginLogin, BeginVisit, BeginLogout, Accepted,
               Rejected, ReadAttempts, CountAttempt, AttemptLost, PassAntiSpoofing,
               PassValidation, Refused, Bind, CloseFails, tables
        <3> QED BY <1>1, <1>3, <3>1 DEF Welcome, LoggedIn, LoggedOut, tables
    <2> QED BY <2>1
<1>4. CASE CloseSession(t)
    BY <1>4 DEF CloseSession
<1> QED BY <1>2, <1>3, <1>4

LEMMA ExcusedGrows == LoginNext => excused \subseteq excused'
<1> SUFFICES ASSUME NEW t \in Threads,
                    AloneStep(t) \/ Welcome(t) \/ LoggedIn(t)
                      \/ CloseSession(t) \/ LoggedOut(t)
             PROVE  excused \subseteq excused'
    BY DEF LoginNext
<1>1. CASE Register(t)
    BY <1>1 DEF Register
<1>2. CASE ~Register(t)
    <2>1. CASE AloneStep(t)
        BY <1>2, <2>1 DEF AloneStep, BeginLogin, BeginVisit, BeginLogout, Accepted,
           Rejected, ReadAttempts, CountAttempt, AttemptLost, PassAntiSpoofing,
           PassValidation, Refused, Bind, CloseFails, history
    <2> QED BY <1>2, <2>1 DEF Welcome, LoggedIn, LoggedOut, CloseSession, history
<1> QED BY <1>1, <1>2

LEMMA TakenPasses ==
    ASSUME Seen, LoginNext, NEW mac, Taken(mac)
    PROVE  Taken(mac)' \/ \E t \in Threads, r \in rows :
                             CloseSession(t) /\ req[t].sid = r.id /\ r.mac = mac
<1>1. PICK r \in rows, s \in Sids : r.mac = mac /\ {s, r.id} \in excused
    BY DEF Taken
<1>2. CASE r \in rows'
    BY <1>1, <1>2, ExcusedGrows DEF Taken
<1> QED BY <1>1, <1>2, RowsPass

-----------------------------------------------------------------------------
(***************************************************************************)
(* What M6's handlers have in hand                                         *)
(***************************************************************************)
Places == [token   |-> {"token", "gate", "cacheGate", "setGate", "permit", "cachePermit"},
           close   |-> {"idle", "close", "deleting"},
           expired |-> {"expired", "close", "deleting"},
           sweep   |-> {"sweep", "scan", "deleting"},
           boot    |-> {"sweep", "scan", "deleting"}]

\* A handler at a place, with a call and with flows still to delete: those of the
\* MAC of the call, or gates when it sweeps.
Fits(place, c, D) ==
    /\ place \in Places[c.kind]
    /\ place # "deleting" => D = {}
    /\ c.kind \in {"sweep", "boot"} => \A f \in D : f[1] = "gate"
    /\ c.kind \notin {"sweep", "boot"} => \A f \in D : MacOf(f) = c.host.mac

\* While the gates are swept at the start of M6, nothing else is done.
JobsFit ==
    \A j \in Jobs : /\ Fits(jpc[j], job[j], doomed[j])
                    /\ job[j].kind = "boot" => \A k \in Jobs : k = j \/ jpc[k] = "idle"

LEMMA KindIs == \A c \in Call : c.kind \in {"token", "close", "expired", "sweep", "boot"}
BY DEF Call, Kind

LEMMA FitsFacts ==
    ASSUME NEW place, NEW c \in Call, NEW D, Fits(place, c, D)
    PROVE  /\ place \in {"token", "gate", "cacheGate", "setGate", "permit", "cachePermit"}
                <=> c.kind = "token"
           /\ place \in {"sweep", "scan"} => c.kind \in {"sweep", "boot"}
           /\ place = "expired" => c.kind = "expired"
           /\ place = "close" => c.kind \in {"close", "expired"}
           /\ place = "idle" => c.kind = "close"
           /\ place # "deleting" => D = {}
<1>1. c.kind \in {"token", "close", "expired", "sweep", "boot"}
    BY KindIs
<1>2. CASE c.kind = "token"
    BY <1>2 DEF Fits, Places
<1>3. CASE c.kind = "close"
    BY <1>3 DEF Fits, Places
<1>4. CASE c.kind = "expired"
    BY <1>4 DEF Fits, Places
<1>5. CASE c.kind = "sweep"
    BY <1>5 DEF Fits, Places
<1>6. CASE c.kind = "boot"
    BY <1>6 DEF Fits, Places
<1> QED BY <1>1, <1>2, <1>3, <1>4, <1>5, <1>6

LEMMA FitsWhen ==
    ASSUME NEW place, NEW c \in Call, NEW D
    PROVE  /\ c.kind = "token" /\ D = {}
                /\ place \in {"token", "gate", "cacheGate", "setGate", "permit", "cachePermit"}
                => Fits(place, c, D)
           /\ c.kind = "expired" /\ D = {} /\ place \in {"expired", "close"}
                => Fits(place, c, D)
           /\ c.kind = "close" /\ D = {} /\ place \in {"idle", "close"} => Fits(place, c, D)
           /\ c.kind \in {"sweep", "boot"} /\ D = {} /\ place \in {"sweep", "scan"}
                => Fits(place, c, D)
           /\ c.kind \in {"sweep", "boot"} /\ place = "deleting" /\ (\A f \in D : f[1] = "gate")
                => Fits(place, c, D)
           /\ c.kind \in {"close", "expired"} /\ place = "deleting"
                /\ (\A f \in D : MacOf(f) = c.host.mac) => Fits(place, c, D)
BY DEF Fits, Places

\* Only the handler j does something.
Alone(j) ==
    \A k \in Jobs : k # j =>
        jpc'[k] = jpc[k] /\ job'[k] = job[k] /\ doomed'[k] = doomed[k]

LEMMA OneFits ==
    ASSUME JobsFit, NEW j \in Jobs, Alone(j), Fits(jpc'[j], job'[j], doomed'[j]),
           job'[j].kind = "boot" => job[j].kind = "boot",
           jpc[j] = "idle" => jpc'[j] = "idle" \/ Serving
    PROVE  JobsFit'
<1>1. \A k \in Jobs : Fits(jpc'[k], job'[k], doomed'[k])
    BY DEF JobsFit, Alone
<1>2. ASSUME NEW k \in Jobs, job'[k].kind = "boot", NEW l \in Jobs, l # k
      PROVE  jpc'[l] = "idle"
    BY <1>2 DEF JobsFit, Alone, Serving
<1> QED BY <1>1, <1>2 DEF JobsFit

LEMMA Fitting ==
    ASSUME SShapes, JobsFit, NEW j \in Jobs
    PROVE  Fits(jpc[j], job[j], doomed[j]) /\ job[j] \in Call /\ jpc[j] \in Steps
BY DEF SShapes, JobsFit, JobOK, PlacesOK

\* What a handler's move leaves of the others, and of itself.
LEMMA MoveOf ==
    ASSUME SShapes, NEW j \in Jobs
    PROVE  /\ \A p : GoTo(j, p) /\ UNCHANGED <<job, doomed>> =>
                       Alone(j) /\ jpc'[j] = p /\ job'[j] = job[j] /\ doomed'[j] = doomed[j]
           /\ \A p, D : GoTo(j, p) /\ job' = job /\ doomed' = [doomed EXCEPT ![j] = D] =>
                          Alone(j) /\ jpc'[j] = p /\ job'[j] = job[j] /\ doomed'[j] = D
           /\ Finish(j) /\ UNCHANGED doomed =>
                Alone(j) /\ jpc'[j] = "idle" /\ job'[j] = NoCall /\ doomed'[j] = doomed[j]
           /\ \A c, p : GoTo(j, p) /\ job' = [job EXCEPT ![j] = c] /\ UNCHANGED doomed =>
                Alone(j) /\ jpc'[j] = p /\ job'[j] = c /\ doomed'[j] = doomed[j]
BY DEF SShapes, PlacesOK, JobOK, WorkOK, GoTo, Finish, Alone

LEMMA TokenMoves ==
    ASSUME SShapes, JobsFit, NEW j \in Jobs, TokenStep(j)
    PROVE  /\ job[j].kind = "token" /\ doomed[j] = {} /\ doomed'[j] = {} /\ Alone(j)
           /\ \/ /\ jpc'[j] \in {"gate", "cacheGate", "setGate", "permit", "cachePermit"}
                 /\ job'[j] = job[j]
              \/ jpc'[j] = "idle" /\ job'[j] = NoCall
           /\ JobsFit'
<1> DEFINE Ways == {"token", "gate", "cacheGate", "setGate", "permit", "cachePermit"}
<1>1. jpc[j] \in Ways /\ UNCHANGED doomed
    BY DEF TokenStep, CheckGate, InstallGate, CacheGate, SetGate, InstallPermit, CachePermit,
           SkipPermit, InstallFails
<1>2. job[j].kind = "token" /\ doomed[j] = {}
    BY <1>1, Fitting, FitsFacts
<1>3. \/ (\E p \in Ways \ {"token"} : GoTo(j, p)) /\ job' = job
      \/ Finish(j)
    BY DEF TokenStep, CheckGate, InstallGate, CacheGate, SetGate, InstallPermit, CachePermit,
           SkipPermit, InstallFails
<1>4. /\ Alone(j) /\ doomed'[j] = {}
      /\ \/ jpc'[j] \in Ways \ {"token"} /\ job'[j] = job[j]
         \/ jpc'[j] = "idle" /\ job'[j] = NoCall
    BY <1>1, <1>2, <1>3, MoveOf
<1>5. Fits(jpc'[j], job'[j], doomed'[j])
    BY <1>2, <1>4, Fitting, FitsWhen, NoCallFact
<1>6. JobsFit'
    BY <1>1, <1>2, <1>4, <1>5, OneFits, NoCallFact
<1> QED BY <1>2, <1>4, <1>6

LEMMA CloseMoves ==
    ASSUME SShapes, JobsFit, NEW j \in Jobs, CloseStep(j)
    PROVE  /\ Alone(j) /\ JobsFit' /\ jpc[j] \in {"expired", "close", "deleting"}
           /\ jpc'[j] \in {"close", "deleting", "idle"}
           /\ jpc'[j] # "idle" => job'[j] = job[j]
           /\ jpc'[j] = "idle" => job'[j] = NoCall
<1>f. Fits(jpc[j], job[j], doomed[j]) /\ job[j] \in Call
    BY Fitting
<1>1. CASE Lookup(j)
    <2>1. jpc[j] = "expired" /\ UNCHANGED doomed /\ ((GoTo(j, "close") /\ job' = job) \/ Finish(j))
        BY <1>1 DEF Lookup
    <2>2. job[j].kind = "expired" /\ doomed[j] = {}
        BY <1>f, <2>1, FitsFacts
    <2>3. /\ Alone(j) /\ doomed'[j] = {}
          /\ \/ jpc'[j] = "close" /\ job'[j] = job[j]
             \/ jpc'[j] = "idle" /\ job'[j] = NoCall
        BY <2>1, <2>2, MoveOf
    <2>4. Fits(jpc'[j], job'[j], doomed'[j])
        BY <1>f, <2>2, <2>3, FitsWhen, NoCallFact
    <2>5. JobsFit'
        BY <2>1, <2>2, <2>3, <2>4, OneFits, NoCallFact
    <2> QED BY <2>1, <2>3, <2>5
<1>2. CASE Pop(j)
    <2>1. /\ jpc[j] = "close" /\ GoTo(j, "deleting") /\ job' = job
          /\ doomed' = [doomed EXCEPT ![j] = Of(Mac(j), cache)]
        BY <1>2 DEF Pop
    <2>2. job[j].kind \in {"close", "expired"}
        BY <1>f, <2>1, FitsFacts
    <2>3. Alone(j) /\ jpc'[j] = "deleting" /\ job'[j] = job[j] /\ doomed'[j] = Of(Mac(j), cache)
        BY <2>1, MoveOf
    <2>4. \A f \in doomed'[j] : MacOf(f) = job[j].host.mac
        BY <2>3 DEF Of, Mac
    <2>5. Fits(jpc'[j], job'[j], doomed'[j])
        BY <1>f, <2>2, <2>3, <2>4, FitsWhen
    <2> QED BY <2>1, <2>3, <2>5, OneFits
<1>3. CASE Delete(j) \/ DeleteFails(j)
    <2>1. PICK f \in doomed[j] : doomed' = [doomed EXCEPT ![j] = @ \ {f}]
        BY <1>3 DEF Delete, DeleteFails
    <2>2. jpc[j] = "deleting" /\ UNCHANGED <<jpc, job>>
        BY <1>3 DEF Delete, DeleteFails
    <2>3. Alone(j) /\ jpc'[j] = "deleting" /\ job'[j] = job[j] /\ doomed'[j] = doomed[j] \ {f}
        BY <2>1, <2>2 DEF SShapes, WorkOK, Alone
    <2>4. Fits(jpc'[j], job'[j], doomed'[j])
        BY <1>f, <2>2, <2>3 DEF Fits
    <2> QED BY <2>2, <2>3, <2>4, OneFits
<1>4. CASE Closed(j)
    <2>1. jpc[j] = "deleting" /\ doomed[j] = {} /\ UNCHANGED doomed /\ Finish(j)
        BY <1>4 DEF Closed
    <2>2. Alone(j) /\ doomed'[j] = {} /\ jpc'[j] = "idle" /\ job'[j] = NoCall
        BY <2>1, MoveOf
    <2>3. Fits(jpc'[j], job'[j], doomed'[j])
        BY <2>2, FitsWhen, NoCallFact
    <2> QED BY <2>1, <2>2, <2>3, OneFits, NoCallFact
<1> QED BY <1>1, <1>2, <1>3, <1>4 DEF CloseStep

LEMMA SweepMoves ==
    ASSUME SShapes, JobsFit, NEW j \in Jobs, SweepStep(j)
    PROVE  /\ Alone(j) /\ JobsFit' /\ Sweeping(j) /\ jpc[j] \in {"sweep", "scan", "deleting"}
           /\ \/ jpc'[j] \in {"scan", "deleting"} /\ job'[j] = job[j]
              \/ jpc'[j] = "idle" /\ job'[j] = NoCall
<1>f. Fits(jpc[j], job[j], doomed[j]) /\ job[j] \in Call
    BY Fitting
<1>1. CASE ReadActive(j)
    <2>1. jpc[j] = "sweep" /\ GoTo(j, "scan") /\ UNCHANGED <<job, doomed>>
        BY <1>1 DEF ReadActive
    <2>2. job[j].kind \in {"sweep", "boot"} /\ doomed[j] = {}
        BY <1>f, <2>1, FitsFacts
    <2>3. Alone(j) /\ jpc'[j] = "scan" /\ job'[j] = job[j] /\ doomed'[j] = {}
        BY <2>1, <2>2, MoveOf
    <2>4. Fits(jpc'[j], job'[j], doomed'[j])
        BY <1>f, <2>2, <2>3, FitsWhen
    <2> QED BY <2>1, <2>2, <2>3, <2>4, OneFits DEF Sweeping
<1>2. CASE Scan(j)
    <2>1. PICK D : D = {Gate(h) : h \in GatesInOnos \ listed[j]}
        OBVIOUS
    <2>2. /\ jpc[j] = "scan" /\ GoTo(j, "deleting") /\ job' = job
          /\ doomed' = [doomed EXCEPT ![j] = D]
        BY <1>2, <2>1 DEF Scan
    <2>3. job[j].kind \in {"sweep", "boot"}
        BY <1>f, <2>2, FitsFacts
    <2>4. Alone(j) /\ jpc'[j] = "deleting" /\ job'[j] = job[j] /\ doomed'[j] = D
        BY <2>2, MoveOf
    <2>5. \A f \in D : f[1] = "gate"
        BY <2>1 DEF Gate
    <2>6. Fits(jpc'[j], job'[j], doomed'[j])
        BY <1>f, <2>3, <2>4, <2>5, FitsWhen
    <2> QED BY <2>2, <2>3, <2>4, <2>6, OneFits DEF Sweeping
<1>3. CASE PopStale(j)
    <2>1. /\ jpc[j] = "deleting" /\ doomed[j] = {} /\ UNCHANGED doomed /\ Finish(j)
          /\ Sweeping(j)
        BY <1>3 DEF PopStale
    <2>2. Alone(j) /\ doomed'[j] = {} /\ jpc'[j] = "idle" /\ job'[j] = NoCall
        BY <2>1, MoveOf
    <2>3. Fits(jpc'[j], job'[j], doomed'[j])
        BY <2>2, FitsWhen, NoCallFact
    <2> QED BY <2>1, <2>2, <2>3, OneFits, NoCallFact
<1> QED BY <1>1, <1>2, <1>3 DEF SweepStep

LEMMA BeginMoves ==
    ASSUME SShapes, JobsFit, NEW j \in Jobs,
           BeginSweep(j) \/ \E c \in calls : Accept(j, c)
    PROVE  /\ Alone(j) /\ JobsFit' /\ jpc[j] = "idle" /\ doomed[j] = {} /\ doomed'[j] = {}
           /\ job[j].kind = "close"
<1>f. Fits(jpc[j], job[j], doomed[j]) /\ job[j] \in Call
    BY Fitting
<1>0. jpc[j] = "idle" /\ Serving /\ UNCHANGED doomed
    BY DEF BeginSweep, Accept
<1>1. doomed[j] = {} /\ job[j].kind = "close"
    BY <1>f, <1>0, FitsFacts
<1>2. CASE BeginSweep(j)
    <2>1. PICK c : c = [NoCall EXCEPT !.kind = "sweep"]
        OBVIOUS
    <2>2. c \in Call /\ c.kind = "sweep"
        BY <2>1, NoCallFact DEF Call, Kind
    <2>3. Alone(j) /\ jpc'[j] = "sweep" /\ job'[j] = c /\ doomed'[j] = {}
        <3>1. GoTo(j, "sweep") /\ job' = [job EXCEPT ![j] = c] /\ UNCHANGED doomed
            BY <1>2, <2>1 DEF BeginSweep
        <3>2. \A d, p : GoTo(j, p) /\ job' = [job EXCEPT ![j] = d] /\ UNCHANGED doomed =>
                 Alone(j) /\ jpc'[j] = p /\ job'[j] = d /\ doomed'[j] = doomed[j]
            BY MoveOf
        <3> QED BY <1>1, <3>1, <3>2
    <2>4. Fits(jpc'[j], job'[j], doomed'[j])
        BY <2>2, <2>3, FitsWhen
    <2> QED BY <1>0, <1>1, <2>2, <2>3, <2>4, OneFits
<1>3. ASSUME NEW c \in calls, Accept(j, c)
      PROVE  Alone(j) /\ JobsFit' /\ doomed'[j] = {}
    <2>1. c \in Call /\ c.kind \in Requests
        BY DEF SShapes, CallsOK
    <2>2. Alone(j) /\ jpc'[j] = c.kind /\ job'[j] = c /\ doomed'[j] = {}
        <3>1. GoTo(j, c.kind) /\ job' = [job EXCEPT ![j] = c] /\ UNCHANGED doomed
            BY <1>3 DEF Accept
        <3> QED BY <1>1, <3>1, MoveOf
    <2>3. Fits(jpc'[j], job'[j], doomed'[j])
        BY <2>1, <2>2, FitsWhen DEF Requests
    <2> QED BY <1>0, <2>1, <2>2, <2>3, OneFits DEF Requests
<1> QED BY <1>0, <1>1, <1>2, <1>3

LEMMA OtherFits ==
    ASSUME SShapes, JobsFit,
           \/ PortalStep \/ FlowTimesOut \/ UNCHANGED vars
           \/ (\E c \in calls : Lost(c)) \/ \E j \in Jobs : Restart(j)
    PROVE  JobsFit'
<1>1. ASSUME UNCHANGED jobs PROVE JobsFit'
    BY <1>1 DEF jobs, JobsFit
<1>2. ASSUME NEW t \in Threads, TimedOut(t) PROVE JobsFit'
    <2>1. /\ \A j \in Jobs : job'[j].kind = job[j].kind /\ job'[j].host = job[j].host
          /\ UNCHANGED <<jpc, doomed>>
        BY <1>2 DEF TimedOut, SShapes, JobOK, Call
    <2> QED BY <2>1 DEF JobsFit, Fits
<1>3. ASSUME NEW j \in Jobs, Restart(j) PROVE JobsFit'
    <2>1. /\ \A k \in Jobs : k # j => jpc'[k] = "idle" /\ job'[k] = NoCall
          /\ jpc'[j] = "sweep" /\ job'[j] = [NoCall EXCEPT !.kind = "boot"]
          /\ \A k \in Jobs : doomed'[k] = {}
        BY <1>3 DEF Restart
    <2>2. job'[j].kind = "boot" /\ job'[j] \in Call /\ NoCall.kind = "close"
        BY <2>1, NoCallFact DEF NoCall, Call, Kind
    <2>3. \A k \in Jobs : Fits(jpc'[k], job'[k], doomed'[k])
        <3>1. Fits("sweep", job'[j], {}) /\ Fits("idle", NoCall, {})
            BY <2>2, NoCallFact, FitsWhen
        <3> QED BY <2>1, <3>1
    <2> QED BY <2>1, <2>2, <2>3 DEF JobsFit
<1> QED BY <1>1, <1>2, <1>3 DEF PortalStep, SendToken, SendClose, Answered, FlowTimesOut,
          Lost, vars, sessionVars

-----------------------------------------------------------------------------
(***************************************************************************)
(* M1 waits for its calls                                                  *)
(***************************************************************************)
\* The thread waits for the answer to this very call.
Waits(t, c) ==
    /\ c.from = t /\ c.host = req[t].host /\ c.user = Id(req[t].who)
    /\ pc[t] = IF c.kind = "token" THEN "token" ELSE "notifying"

\* A call of M1 is waited for, unless something has gone wrong with its MAC.
Waited(c) ==
    c.kind \in {"token", "close"} /\ c.host.mac \notin trouble =>
        \E t \in Threads : Waits(t, c)

AllWaited ==
    /\ \A c \in calls : Waited(c)
    /\ \A j \in Jobs : jpc[j] # "idle" => \A c : c = job[j] => Waited(c)

LEMMA WaitedInM6 ==
    ASSUME AllWaited, UNCHANGED <<pc, req>>, trouble \subseteq trouble',
           \A c \in calls' : c \in calls \/ c.kind = "expired",
           \A j \in Jobs : jpc'[j] # "idle" =>
               \/ jpc[j] # "idle" /\ job'[j] = job[j]
               \/ job'[j] \in calls \/ job'[j].kind \in {"sweep", "boot"}
    PROVE  AllWaited'
<1>1. \A c : Waited(c) => Waited(c)'
    BY DEF Waited, Waits
<1>2. \A c \in calls' : Waited(c)'
    BY <1>1 DEF AllWaited, Waited
<1>3. ASSUME NEW j \in Jobs, jpc'[j] # "idle", NEW c, c = job'[j] PROVE Waited(c)'
    <2>1. CASE jpc[j] # "idle" /\ job'[j] = job[j]
        BY <1>1, <1>3, <2>1 DEF AllWaited
    <2>2. CASE job'[j] \in calls
        BY <1>1, <1>3, <2>2 DEF AllWaited
    <2>3. CASE job'[j].kind \in {"sweep", "boot"}
        BY <1>3, <2>3 DEF Waited
    <2> QED BY <1>3, <2>1, <2>2, <2>3
<1> QED BY <1>2, <1>3 DEF AllWaited

\* Nobody waits unless the one request there is does.
LEMMA NobodyWaits ==
    ASSUME OneRequest, NEW t \in Threads, pc[t] \notin {"token", "notifying"}, NEW c, Waited(c)
    PROVE  c.kind \notin {"token", "close"} \/ c.host.mac \in trouble
BY DEF OneRequest, Waited, Waits

LEMMA AloneIsFree ==
    ASSUME NEW t \in Threads, AloneStep(t)
    PROVE  pc[t] \notin {"token", "notifying"}
BY DEF AloneStep, BeginLogin, BeginVisit, BeginLogout, Accepted, Rejected, ReadAttempts,
   CountAttempt, AttemptLost, PassAntiSpoofing, PassValidation, Refused, Register, Bind,
   CloseFails

LEMMA WaitedAtM1 ==
    ASSUME OneRequest, SShapes, AllWaited, PortalStep
    PROVE  AllWaited'
<1>a. pc \in [Threads -> Place] /\ req \in [Threads -> Request]
    BY DEF SShapes, Shapes, RequestsOK
<1>1. ASSUME NEW t \in Threads, AloneStep(t), UNCHANGED sessionVars PROVE AllWaited'
    <2>1. \A c : Waited(c) => Waited(c)'
        BY <1>1, AloneIsFree, NobodyWaits DEF Waited, sessionVars, history6
    <2> QED BY <1>1, <2>1 DEF AllWaited, sessionVars, jobs
<1>2. ASSUME NEW t \in Threads, SendToken(t) PROVE AllWaited'
    <2>1. pc[t] = "bound" /\ pc'[t] = "token" /\ req'[t] = req[t]
        BY <1>2, <1>a DEF SendToken, Welcome, Go
    <2>2. ASSUME NEW c, Waited(c), c \in calls \/ \E j \in Jobs : jpc[j] # "idle" /\ c = job[j]
          PROVE  Waited(c)'
        <3>1. c.kind \notin {"token", "close"} \/ c.host.mac \in trouble
            BY <2>1, <2>2, NobodyWaits
        <3>2. c.host.mac = req[t].host.mac => ~Clean(req[t].host.mac)
            BY <2>2 DEF Clean
        <3>3. c.host.mac \in trouble => c.host.mac \in trouble'
            BY <1>2, <3>2 DEF SendToken
        <3> QED BY <3>1, <3>3 DEF Waited
    <2>3. PICK n : n = [kind |-> "token", host |-> req[t].host, user |-> Id(req[t].who),
                        from |-> t]
        OBVIOUS
    <2>4. Waited(n)'
        BY <2>1, <2>3 DEF Waited, Waits
    <2>5. calls' = calls \cup {n} /\ UNCHANGED <<jpc, job>>
        BY <1>2, <2>3 DEF SendToken, Ask, jobs
    <2> QED BY <2>2, <2>4, <2>5 DEF AllWaited
<1>3. ASSUME NEW t \in Threads, SendClose(t) PROVE AllWaited'
    <2>1. pc[t] = "leaving" /\ pc'[t] = "notifying" /\ req'[t] = req[t]
        BY <1>3, <1>a DEF SendClose, CloseSession, Go
    <2>2. \A c : Waited(c) => Waited(c)'
        BY <1>3, <2>1, NobodyWaits DEF SendClose, Waited, history6
    <2>3. PICK n : n = [kind |-> "close", host |-> req[t].host, user |-> Id(req[t].who),
                        from |-> t]
        OBVIOUS
    <2>4. Waited(n)'
        BY <2>1, <2>3 DEF Waited, Waits
    <2>5. calls' = calls \cup {n} /\ UNCHANGED <<jpc, job>>
        BY <1>3, <2>3 DEF SendClose, Ask, jobs
    <2> QED BY <2>2, <2>4, <2>5 DEF AllWaited
<1>4. ASSUME NEW t \in Threads, Answered(t) PROVE AllWaited'
    <2>1. UNCHANGED <<calls, jpc, job, trouble>>
        BY <1>4 DEF Answered, sessionVars, jobs, history6
    <2>2. ASSUME NEW c, Waited(c), c \in calls \/ \E j \in Jobs : jpc[j] # "idle" /\ c = job[j]
          PROVE  Waited(c)'
        <3>1. c.from # t
            BY <1>4, <2>2 DEF Answered, Outstanding
        <3>2. \A u \in Threads : ~Waits(u, c)
            BY <3>1 DEF Waits, OneRequest
        <3> QED BY <2>1, <2>2, <3>2 DEF Waited
    <2> QED BY <2>1, <2>2 DEF AllWaited
<1>5. ASSUME NEW t \in Threads, TimedOut(t) PROVE AllWaited'
    <2>1. /\ trouble' = trouble \cup {req[t].host.mac} /\ jpc' = jpc
          /\ calls' = {IF c.from = t THEN [c EXCEPT !.from = Nobody] ELSE c : c \in calls}
          /\ \A j \in Jobs : job'[j] = IF job[j].from = t
                                       THEN [job[j] EXCEPT !.from = Nobody] ELSE job[j]
        BY <1>5 DEF TimedOut, Fault
    <2>2. ASSUME NEW c \in Call, Waited(c),
                 NEW d, d = IF c.from = t THEN [c EXCEPT !.from = Nobody] ELSE c
          PROVE  Waited(d)'
        <3>1. d.kind = c.kind /\ d.host = c.host
            BY <2>2 DEF Call
        <3>2. ASSUME c.kind \in {"token", "close"}, c.host.mac \notin trouble
              PROVE  c.host.mac \in trouble'
            BY <2>1, <2>2, <3>2 DEF Waited, Waits, OneRequest
        <3> QED BY <2>1, <3>1, <3>2 DEF Waited
    <2>3. calls \subseteq Call /\ \A j \in Jobs : job[j] \in Call
        BY DEF SShapes, CallsOK, JobOK
    <2>4. \A c \in calls' : Waited(c)'
        BY <2>1, <2>2, <2>3 DEF AllWaited
    <2>5. ASSUME NEW j \in Jobs, jpc'[j] # "idle", NEW d, d = job'[j] PROVE Waited(d)'
        <3>1. PICK c : c = job[j]
            OBVIOUS
        <3>2. c \in Call /\ Waited(c) /\ d = IF c.from = t THEN [c EXCEPT !.from = Nobody] ELSE c
            BY <2>1, <2>3, <2>5, <3>1 DEF AllWaited
        <3> QED BY <2>2, <3>2
    <2> QED BY <2>4, <2>5 DEF AllWaited
<1> QED BY <1>1, <1>2, <1>3, <1>4, <1>5 DEF PortalStep

\* The login of a token that is being handled has its row, and its logout and the
\* requests of others are out of the way.
LEMMA TokenHasRow ==
    ASSUME OneRequest, OwnRows, NEW c, Waited(c), c.kind = "token", c.host.mac \notin trouble
    PROVE  /\ \E r \in rows : HostAt(r) = c.host /\ r.user = c.user
           /\ \A d : Waited(d) /\ d.kind = "close" => d.host.mac \in trouble
           /\ \A t \in Threads : pc[t] = "token"
BY DEF OneRequest, OwnRows, Waited, Waits

LEMMA CloseHasNone ==
    ASSUME OneRequest, OwnRows, NEW c, Waited(c), c.kind = "close", c.host.mac \notin trouble
    PROVE  /\ \A r \in rows : r.mac # c.host.mac
           /\ \A d : Waited(d) /\ d.kind = "token" => d.host.mac \in trouble
BY DEF OneRequest, OwnRows, Waited, Waits

-----------------------------------------------------------------------------
(***************************************************************************)
(* What stands for a flow, and for a session                               *)
(***************************************************************************)
\* A handler is about to take all flows of the MAC out of the dictionaries; is
\* about to delete this flow; has installed it and is about to remember it; will
\* find it when it sweeps the gates at the start of M6.
Closing(mac, j) == job[j].kind = "close" /\ jpc[j] = "close" /\ Mac(j) = mac
Dying(id, j) == id \in doomed[j] /\ ~Sweeping(j)
Hand(id, j) ==
    \/ jpc[j] = "cacheGate" /\ id = Gate(job[j].host)
    \/ jpc[j] = "cachePermit" /\ id = Permit(job[j].host, job[j].user)
Boots(id, j) ==
    /\ job[j].kind = "boot" /\ id[1] = "gate"
    /\ jpc[j] \in {"sweep", "scan"} \/ id \in doomed[j]

\* A handler is about to install the gate of the session; is about to delete a gate
\* of its MAC.
Starts(r, j) == jpc[j] \in {"token", "gate"} /\ job[j].host = HostAt(r) /\ job[j].user = r.user
Drops(mac, j) == ~Sweeping(j) /\ \E id \in doomed[j] : id[1] = "gate" /\ MacOf(id) = mac

Old(id) == id[1] = "permit" /\ id \in forgotten
CloseAsked(mac) == \E c \in calls : c.kind = "close" /\ c.host.mac = mac
TokenAsked(r) == \E c \in calls : c.kind = "token" /\ c.host = HostAt(r) /\ c.user = r.user
LoggingIn(r) == \E t \in Threads : pc[t] \in {"registered", "bound"} /\ req[t].sid = r.id
GateOf(r) == [id |-> Gate(HostAt(r)), user |-> r.user]

Cause(f) ==
    \/ MacOf(f.id) \in trouble \/ Old(f.id)
    \/ \E r \in RowOf(HostOf(f.id)) : r.user = f.user
    \/ Taken(MacOf(f.id)) \/ CloseAsked(MacOf(f.id))
    \/ \E j \in Jobs : Closing(MacOf(f.id), j) \/ Dying(f.id, j)

Known(f) ==
    \/ MacOf(f.id) \in trouble \/ Old(f.id) \/ f.id \in cache
    \/ \E j \in Jobs : Dying(f.id, j) \/ Hand(f.id, j) \/ Boots(f.id, j)

Served(r) ==
    \/ r.mac \in trouble \/ Taken(r.mac) \/ GateOf(r) \in flows
    \/ LoggingIn(r) \/ TokenAsked(r)
    \/ \E j \in Jobs : Starts(r, j) \/ Drops(r.mac, j)

AllCaused == \A f \in flows : Cause(f)
AllKnown == \A f \in flows : Known(f)
AllServed == \A r \in rows : Served(r)

FInv == /\ SShapes /\ Seen /\ OwnRows /\ JobsFit /\ AllWaited
        /\ AllCaused /\ AllKnown /\ AllServed

\* What the handlers in J do is all that can take away what stands for a flow or
\* for a session.
LEMMA Losses ==
    ASSUME NEW J,
           \A k \in Jobs : k \notin J => /\ jpc'[k] = jpc[k] /\ doomed'[k] = doomed[k]
                                         /\ job'[k] = job[k],
           UNCHANGED loginVars, trouble \subseteq trouble', forgotten \subseteq forgotten'
    PROVE  /\ \A f : Cause(f) => \/ Cause(f)'
                                 \/ CloseAsked(MacOf(f.id)) /\ ~(calls \subseteq calls')
                                 \/ \E j \in Jobs \cap J : Closing(MacOf(f.id), j)
                                                             \/ Dying(f.id, j)
           /\ \A f : Known(f) => \/ Known(f)' \/ f.id \in cache \ cache'
                                 \/ \E j \in Jobs \cap J : \/ Dying(f.id, j) \/ Hand(f.id, j)
                                                           \/ Boots(f.id, j)
           /\ \A r : Served(r) => \/ Served(r)' \/ GateOf(r) \in flows \ flows'
                                  \/ TokenAsked(r) /\ ~(calls \subseteq calls')
                                  \/ \E j \in Jobs \cap J : Starts(r, j) \/ Drops(r.mac, j)
<1>1. UNCHANGED <<rows, excused, pc, req>>
    BY DEF loginVars, tables, history
<1>2. ASSUME NEW k \in Jobs, k \notin J
      PROVE  /\ \A mac : Closing(mac, k) => Closing(mac, k)'
             /\ \A id : Dying(id, k) => Dying(id, k)'
             /\ \A id : Hand(id, k) => Hand(id, k)'
             /\ \A id : Boots(id, k) => Boots(id, k)'
             /\ \A r : Starts(r, k) => Starts(r, k)'
             /\ \A mac : Drops(mac, k) => Drops(mac, k)'
    BY <1>2 DEF Closing, Dying, Hand, Boots, Starts, Drops, Mac, Sweeping, HostAt
<1>3. ASSUME NEW f, Cause(f)
      PROVE  \/ Cause(f)'
             \/ CloseAsked(MacOf(f.id)) /\ ~(calls \subseteq calls')
             \/ \E j \in Jobs \cap J : Closing(MacOf(f.id), j) \/ Dying(f.id, j)
    <2>1. /\ Old(f.id) => Old(f.id)'
          /\ Taken(MacOf(f.id)) => Taken(MacOf(f.id))'
          /\ RowOf(HostOf(f.id)) = RowOf(HostOf(f.id))'
          /\ CloseAsked(MacOf(f.id)) /\ calls \subseteq calls' => CloseAsked(MacOf(f.id))'
        BY <1>1 DEF Old, Taken, RowOf, CloseAsked
    <2>2. \/ MacOf(f.id) \in trouble' \/ Old(f.id)'
          \/ \E r \in RowOf(HostOf(f.id))' : r.user = f.user
          \/ Taken(MacOf(f.id))' \/ CloseAsked(MacOf(f.id))'
          \/ \E j \in Jobs : Closing(MacOf(f.id), j)' \/ Dying(f.id, j)'
          => Cause(f)'
        BY DEF Cause
    <2>3. CASE \E j \in Jobs : Closing(MacOf(f.id), j) \/ Dying(f.id, j)
        BY <1>2, <2>2, <2>3
    <2> QED BY <1>3, <2>1, <2>2, <2>3 DEF Cause
<1>4. ASSUME NEW f, Known(f)
      PROVE  \/ Known(f)' \/ f.id \in cache \ cache'
             \/ \E j \in Jobs \cap J : Dying(f.id, j) \/ Hand(f.id, j) \/ Boots(f.id, j)
    <2>1. Old(f.id) => Old(f.id)'
        BY DEF Old
    <2> QED BY <1>2, <1>4, <2>1 DEF Known
<1>5. ASSUME NEW r, Served(r)
      PROVE  \/ Served(r)' \/ GateOf(r) \in flows \ flows'
             \/ TokenAsked(r) /\ ~(calls \subseteq calls')
             \/ \E j \in Jobs \cap J : Starts(r, j) \/ Drops(r.mac, j)
    <2>1. /\ Taken(r.mac) => Taken(r.mac)'
          /\ LoggingIn(r) => LoggingIn(r)'
          /\ TokenAsked(r) /\ calls \subseteq calls' => TokenAsked(r)'
        BY <1>1 DEF Taken, LoggingIn, TokenAsked
    <2>2. \/ r.mac \in trouble' \/ Taken(r.mac)' \/ GateOf(r) \in flows'
          \/ LoggingIn(r)' \/ TokenAsked(r)'
          \/ \E j \in Jobs : Starts(r, j)' \/ Drops(r.mac, j)'
          => Served(r)'
        BY DEF Served, GateOf
    <2>3. CASE \E j \in Jobs : Starts(r, j) \/ Drops(r.mac, j)
        BY <1>2, <2>2, <2>3
    <2> QED BY <1>5, <2>1, <2>2, <2>3 DEF Served
<1> QED BY <1>3, <1>4, <1>5

\* A handler that does nothing about the flows of the MAC so far.
LEMMA HoldsNothing ==
    ASSUME SShapes, JobsFit, NEW j \in Jobs
    PROVE  /\ job[j].kind = "token" => \A id, mac : ~(\/ Closing(mac, j) \/ Dying(id, j)
                                                      \/ Boots(id, j) \/ Drops(mac, j))
           /\ jpc[j] \in {"idle", "expired"} =>
                 \A id, mac, r : ~(\/ Closing(mac, j) \/ Dying(id, j) \/ Boots(id, j)
                                   \/ Hand(id, j) \/ Starts(r, j) \/ Drops(mac, j))
<1>1. Fits(jpc[j], job[j], doomed[j]) /\ job[j] \in Call
    BY Fitting
<1>2. CASE job[j].kind = "token"
    <2>1. jpc[j] \notin {"idle", "expired", "close"} /\ doomed[j] = {}
        BY <1>1, <1>2, FitsFacts
    <2> QED BY <1>2, <2>1 DEF Closing, Dying, Boots, Drops
<1>3. CASE jpc[j] \in {"idle", "expired"}
    <2>1. doomed[j] = {}
        BY <1>1, <1>3, FitsFacts
    <2> QED BY <1>3, <2>1 DEF Closing, Dying, Boots, Drops, Hand, Starts
<1> QED BY <1>2, <1>3

\* A token that is being handled is that of the session of its host, unless something
\* has gone wrong, and no close request is about for its MAC.
LEMMA TokenFacts ==
    ASSUME OneRequest, FInv, NEW j \in Jobs, job[j].kind = "token", Mac(j) \notin trouble
    PROVE  /\ \E r \in rows : HostAt(r) = job[j].host /\ r.user = job[j].user
           /\ \A r \in rows : r.mac = Mac(j) => HostAt(r) = job[j].host /\ r.user = job[j].user
           /\ ~CloseAsked(Mac(j))
           /\ \A k \in Jobs : jpc[k] # "idle" /\ job[k].kind = "close" => Mac(k) # Mac(j)
<1>1. PICK c : c = job[j]
    OBVIOUS
<1>2. Waited(c) /\ c.kind = "token" /\ c.host.mac = Mac(j) /\ c.host.mac \notin trouble
    <2>1. jpc[j] # "idle"
        BY Fitting, FitsFacts DEF FInv
    <2> QED BY <1>1, <2>1 DEF FInv, AllWaited, Mac
<1>3. OwnRows
    BY DEF FInv
<1>4. /\ \E r \in rows : HostAt(r) = c.host /\ r.user = c.user
      /\ \A d : Waited(d) /\ d.kind = "close" => d.host.mac \in trouble
    BY <1>2, <1>3, TokenHasRow
<1>5. PICK r \in rows : HostAt(r) = c.host /\ r.user = c.user
    BY <1>4
<1>6. \A s \in rows : s.mac = Mac(j) => s = r
    <2>1. r.mac = Mac(j)
        BY <1>2, <1>5 DEF HostAt
    <2> QED BY <2>1 DEF FInv, Seen, Shapes, TablesOK
<1>7. ~CloseAsked(Mac(j))
    BY <1>2, <1>4 DEF CloseAsked, FInv, AllWaited
<1>8. ASSUME NEW k \in Jobs, jpc[k] # "idle", job[k].kind = "close" PROVE Mac(k) # Mac(j)
    <2>1. PICK d : d = job[k]
        OBVIOUS
    <2>2. Waited(d)
        BY <1>8, <2>1 DEF FInv, AllWaited
    <2> QED BY <1>2, <1>4, <1>8, <2>1, <2>2 DEF Mac
<1> QED BY <1>1, <1>5, <1>6, <1>7, <1>8

LEMMA TokenLosses ==
    ASSUME FInv, NEW j \in Jobs, TokenStep(j)
    PROVE  /\ \A f : Cause(f) => Cause(f)'
           /\ \A f : Known(f) => Known(f)' \/ Hand(f.id, j)
           /\ \A r : Served(r) => \/ Served(r)' \/ Starts(r, j)
                                  \/ GateOf(r) \in flows \ flows'
           /\ UNCHANGED <<rows, calls>> /\ trouble \subseteq trouble' /\ Alone(j)
<1>1. Alone(j) /\ job[j].kind = "token"
    BY TokenMoves DEF FInv
<1>2. /\ UNCHANGED <<loginVars, calls, forgotten>>
      /\ trouble \subseteq trouble' /\ cache \subseteq cache'
    BY DEF TokenStep, CheckGate, InstallGate, CacheGate, SetGate, InstallPermit, CachePermit,
           SkipPermit, InstallFails, NoFault, Fault, m6, bounds, history6
<1>3. \A id, mac : ~(\/ Closing(mac, j) \/ Dying(id, j) \/ Boots(id, j) \/ Drops(mac, j))
    BY <1>1, HoldsNothing DEF FInv
<1>4. PICK J : J = {j}
    OBVIOUS
<1>5. /\ \A f : Cause(f) => \/ Cause(f)'
                            \/ CloseAsked(MacOf(f.id)) /\ ~(calls \subseteq calls')
                            \/ \E k \in Jobs \cap J : Closing(MacOf(f.id), k)
                                                        \/ Dying(f.id, k)
      /\ \A f : Known(f) => \/ Known(f)' \/ f.id \in cache \ cache'
                            \/ \E k \in Jobs \cap J : \/ Dying(f.id, k) \/ Hand(f.id, k)
                                                      \/ Boots(f.id, k)
      /\ \A r : Served(r) => \/ Served(r)' \/ GateOf(r) \in flows \ flows'
                             \/ TokenAsked(r) /\ ~(calls \subseteq calls')
                             \/ \E k \in Jobs \cap J : Starts(r, k) \/ Drops(r.mac, k)
    <2>1. \A k \in Jobs : k \notin J => /\ jpc'[k] = jpc[k] /\ doomed'[k] = doomed[k]
                                        /\ job'[k] = job[k]
        BY <1>1, <1>4 DEF Alone
    <2> QED BY <1>2, <2>1, Losses
<1> QED BY <1>1, <1>2, <1>3, <1>4, <1>5 DEF loginVars, tables

\* A gate that a token finds is the one of the session of its host.
LEMMA GateFound ==
    ASSUME OneRequest, FInv, NEW j \in Jobs, job[j].kind = "token",
           NEW r \in rows, Starts(r, j), NEW g \in gates, MacOf(g) = Mac(j), Installed(g)
    PROVE  \/ r.mac \in trouble \/ Taken(r.mac) \/ GateOf(r) \in flows
           \/ \E k \in Jobs : Drops(r.mac, k)
<1>1. r.mac = Mac(j)
    BY DEF Starts, HostAt, Mac
<1>2. SUFFICES ASSUME r.mac \notin trouble, ~Taken(r.mac)
               PROVE  GateOf(r) \in flows \/ \E k \in Jobs : Drops(r.mac, k)
    OBVIOUS
<1>3. PICK f \in flows : f.id = g
    BY DEF Installed
<1>4. /\ g \in Gates /\ g = Gate(HostOf(g)) /\ g[1] = "gate" /\ HostOf(g) \in Hosts
      /\ MacOf(g) = HostOf(g).mac
    BY FlowFacts DEF FInv, SShapes, GatesOK, Gate
<1>5. Cause(f)
    BY DEF FInv, AllCaused
<1>6. CASE \E q \in RowOf(HostOf(f.id)) : q.user = f.user
    <2>1. PICK q \in RowOf(HostOf(g)) : q.user = f.user
        BY <1>3, <1>6
    <2>2. q \in rows /\ q.mac = r.mac
        BY <1>1, <1>4, <2>1 DEF RowOf
    <2>3. q = r
        BY <2>2 DEF FInv, Seen, Shapes, TablesOK
    <2>4. HostAt(r) = HostOf(g)
        BY <1>4, <2>1, <2>3, HostFact DEF RowOf, HostAt
    <2>5. f \in [id : Flows, user : Owners]
        BY DEF FInv, SShapes, FlowsOK
    <2>6. f = GateOf(r)
        BY <1>3, <1>4, <2>1, <2>3, <2>4, <2>5 DEF GateOf
    <2> QED BY <2>6
<1>7. ASSUME NEW k \in Jobs, Dying(f.id, k) PROVE Drops(r.mac, k)
    BY <1>1, <1>3, <1>4, <1>7 DEF Dying, Drops
<1>8. ~CloseAsked(Mac(j)) /\ \A k \in Jobs : ~Closing(Mac(j), k)
    BY <1>1, <1>2, TokenFacts DEF Closing
<1> QED BY <1>1, <1>2, <1>3, <1>4, <1>5, <1>6, <1>7, <1>8 DEF Cause, Old

\* Installing for a token: the new flow has a session, and is in hand or something
\* has gone wrong; a gate that goes comes back with the user of the session.
LEMMA PutKeeps ==
    ASSUME OneRequest, FInv, NEW j \in Jobs, TokenStep(j), NEW f,
           f \in {Gate(job[j].host), Permit(job[j].host, job[j].user)},
           Put(f, job[j].user), Hand(f, j)' \/ Mac(j) \in trouble',
           \A id : Hand(id, j) => id = f,
           \A r : Starts(r, j) => f = Gate(job[j].host)
    PROVE  AllCaused' /\ AllKnown' /\ AllServed'
<1>1. PICK u, m : u = job[j].user /\ m = Mac(j)
    OBVIOUS
<1>2. PICK n : n = [id |-> f, user |-> u]
    OBVIOUS
<1>3. /\ flows' = {g \in flows : g.id # f} \cup {n} /\ n.id = f /\ n.user = u
      /\ MacOf(f) = m /\ HostOf(f) = job[j].host /\ job[j].kind = "token"
    <2>1. job[j].host \in Hosts /\ job[j].user \in Owners /\ job[j].kind = "token"
        BY JobFact, TokenMoves DEF FInv, SShapes
    <2>2. Mac(j) = job[j].host.mac
        BY DEF Mac
    <2> QED BY <1>1, <1>2, <2>1, <2>2, FlowFacts DEF Put
<1>4. UNCHANGED rows /\ trouble \subseteq trouble'
    BY TokenLosses
<1>5. Cause(n)'
    <2>1. CASE m \in trouble
        BY <1>3, <1>4, <2>1 DEF Cause
    <2>2. CASE m \notin trouble
        <3>1. PICK r \in rows : HostAt(r) = job[j].host /\ r.user = u
            BY <1>1, <1>3, <2>2, TokenFacts
        <3>2. r.mac = HostOf(f).mac /\ r.ip = HostOf(f).ip /\ r.port = HostOf(f).port
            BY <1>3, <3>1 DEF HostAt
        <3>3. r \in RowOf(HostOf(n.id))' /\ r.user = n.user
            BY <1>3, <1>4, <3>1, <3>2 DEF RowOf
        <3> QED BY <3>3 DEF Cause
    <2> QED BY <2>1, <2>2
<1>6. Known(n)'
    <2>1. CASE Hand(f, j)'
        BY <1>3, <2>1 DEF Known
    <2>2. CASE m \in trouble'
        BY <1>3, <2>2 DEF Known
    <2> QED BY <1>1, <2>1, <2>2
<1>7. AllCaused'
    BY <1>3, <1>5, TokenLosses DEF AllCaused, FInv
<1>8. AllKnown'
    BY <1>3, <1>6, TokenLosses DEF AllKnown, FInv
<1>9. ASSUME NEW r \in rows, ~Served(r)' PROVE FALSE
    <2>1. (Starts(r, j) \/ GateOf(r) \in flows \ flows') /\ f = Gate(job[j].host)
        <3>1. Starts(r, j) \/ GateOf(r) \in flows \ flows'
            BY <1>9, TokenLosses DEF FInv, AllServed
        <3>2. CASE GateOf(r) \in flows \ flows'
            <4>1. f = Gate(HostAt(r))
                BY <1>3, <3>2 DEF GateOf
            <4> QED BY <3>1, <4>1 DEF Gate, Permit
        <3> QED BY <3>1, <3>2
    <2>2. r.mac \notin trouble' /\ GateOf(r) \notin flows'
        BY <1>9 DEF Served, GateOf
    <2>3. HostAt(r) = job[j].host
        BY <1>3, <2>1 DEF Starts, GateOf, Gate
    <2>4. r.mac = m
        BY <1>1, <2>3 DEF HostAt, Mac
    <2>5. r.user = u
        BY <1>1, <1>3, <1>4, <2>2, <2>4, TokenFacts
    <2>6. GateOf(r) = n
        BY <1>2, <2>1, <2>3, <2>5 DEF GateOf
    <2> QED BY <1>3, <2>2, <2>6
<1> QED BY <1>4, <1>7, <1>8, <1>9 DEF AllServed

LEMMA TokenKeeps ==
    ASSUME OneRequest, FInv, NEW j \in Jobs, TokenStep(j)
    PROVE  AllCaused' /\ AllKnown' /\ AllServed'
<1> USE DEF FInv
<1>a. job[j].kind = "token" /\ Alone(j) /\ UNCHANGED rows
    BY TokenMoves, TokenLosses
<1>1. ASSUME UNCHANGED flows,
             \A f \in flows : Hand(f.id, j) => Known(f)',
             \A r \in rows : Starts(r, j) => Served(r)'
      PROVE  AllCaused' /\ AllKnown' /\ AllServed'
    BY <1>1, <1>a, TokenLosses DEF AllCaused, AllKnown, AllServed
<1>2. CASE CheckGate(j)
    <2>1. UNCHANGED <<flows, loginVars, job>> /\ jpc[j] = "token" /\ trouble \subseteq trouble'
        BY <1>2, TokenLosses DEF CheckGate
    <2>2. ASSUME NEW r \in rows, Starts(r, j) PROVE Served(r)'
        <3>1. CASE GoTo(j, "gate")
            <4>1. jpc'[j] = "gate" /\ job'[j] = job[j]
                BY <1>2, <3>1, MoveOf DEF CheckGate
            <4>2. Starts(r, j)'
                BY <2>2, <4>1 DEF Starts, HostAt
            <4> QED BY <4>2 DEF Served
        <3>2. CASE \E g \in gates : MacOf(g) = Mac(j) /\ Installed(g)
            <4>1. \/ r.mac \in trouble \/ Taken(r.mac) \/ GateOf(r) \in flows
                  \/ \E k \in Jobs : Drops(r.mac, k)
                BY <1>a, <2>2, <3>2, GateFound
            <4>2. ASSUME NEW k \in Jobs, Drops(r.mac, k) PROVE Drops(r.mac, k)'
                <5>1. k # j
                    BY <1>a, <4>2, HoldsNothing
                <5> QED BY <1>a, <4>2, <5>1 DEF Alone, Drops, Sweeping
            <4>3. Taken(r.mac) => Taken(r.mac)'
                BY <2>1 DEF Taken, loginVars, tables, history
            <4>4. GateOf(r) \in flows => (GateOf(r) \in flows)'
                BY <2>1 DEF GateOf, HostAt
            <4> QED BY <2>1, <4>1, <4>2, <4>3, <4>4 DEF Served
        <3> QED BY <1>2, <3>1, <3>2 DEF CheckGate
    <2>3. \A id : ~Hand(id, j)
        BY <2>1 DEF Hand
    <2> QED BY <1>1, <2>1, <2>2, <2>3
<1>3. CASE InstallGate(j) \/ InstallPermit(j)
    <2>1. PICK f : /\ f \in {Gate(job[j].host), Permit(job[j].host, job[j].user)}
                   /\ Put(f, job[j].user)
                   /\ \/ f = Gate(job[j].host) /\ jpc[j] = "gate" /\ GoTo(j, "cacheGate")
                      \/ /\ f = Permit(job[j].host, job[j].user) /\ jpc[j] = "permit"
                         /\ GoTo(j, "cachePermit")
        BY <1>3 DEF InstallGate, InstallPermit
    <2>2. job' = job /\ UNCHANGED doomed
        BY <1>3 DEF InstallGate, InstallPermit, jobs
    <2>3. Hand(f, j)'
        BY <2>1, <2>2, MoveOf DEF Hand
    <2>4. (\A id : ~Hand(id, j)) /\ \A r : Starts(r, j) => f = Gate(job[j].host)
        BY <2>1 DEF Hand, Starts
    <2> QED BY <2>1, <2>3, <2>4, PutKeeps
<1>4. CASE CacheGate(j) \/ CachePermit(j)
    <2>1. UNCHANGED flows /\ jpc[j] \in {"cacheGate", "cachePermit"}
        BY <1>4 DEF CacheGate, CachePermit
    <2>2. \A id : Hand(id, j) => id \in cache'
        BY <1>4 DEF CacheGate, CachePermit, Hand
    <2>3. (\A r : ~Starts(r, j)) /\ \A f : Hand(f.id, j) => Known(f)'
        BY <2>1, <2>2 DEF Starts, Known
    <2> QED BY <1>1, <2>1, <2>3
<1>5. CASE SetGate(j) \/ SkipPermit(j)
    <2>1. UNCHANGED flows /\ jpc[j] \in {"setGate", "permit"}
        BY <1>5 DEF SetGate, SkipPermit
    <2>2. \A r, id : ~Starts(r, j) /\ ~Hand(id, j)
        BY <2>1 DEF Starts, Hand
    <2> QED BY <1>1, <2>1, <2>2
<1>6. CASE InstallFails(j)
    <2>1. Mac(j) \in trouble'
        BY <1>6 DEF InstallFails, Fault
    <2>2. \A id : ~Hand(id, j)
        BY <1>6 DEF InstallFails, Hand
    <2>3. CASE UNCHANGED flows
        <3>1. \A r : Starts(r, j) => r.mac = Mac(j)
            BY DEF Starts, HostAt, Mac
        <3>2. \A r : Starts(r, j) => Served(r)'
            BY <2>1, <3>1 DEF Served
        <3> QED BY <1>1, <2>2, <2>3, <3>2
    <2>4. CASE ~UNCHANGED flows
        <3>1. PICK f : /\ f \in {Gate(job[j].host), Permit(job[j].host, job[j].user)}
                       /\ Put(f, job[j].user)
                       /\ \/ f = Gate(job[j].host) /\ jpc[j] = "gate"
                          \/ f = Permit(job[j].host, job[j].user) /\ jpc[j] = "permit"
            BY <1>6, <2>4 DEF InstallFails
        <3>2. \A r : Starts(r, j) => f = Gate(job[j].host)
            BY <3>1 DEF Starts
        <3> QED BY <2>1, <2>2, <3>1, <3>2, PutKeeps
    <2> QED BY <2>3, <2>4
<1> QED BY <1>2, <1>3, <1>4, <1>5, <1>6 DEF TokenStep

\* A step of the handler j, in which no flow is installed.
LEMMA HandlerKeeps ==
    ASSUME FInv, NEW j \in Jobs, Alone(j), UNCHANGED loginVars, flows' \subseteq flows,
           trouble \subseteq trouble', forgotten \subseteq forgotten',
           \A f \in flows' :
               /\ \/ Closing(MacOf(f.id), j) \/ Dying(f.id, j)
                  \/ CloseAsked(MacOf(f.id)) /\ ~(calls \subseteq calls')
                  => Cause(f)'
               /\ \/ Dying(f.id, j) \/ Hand(f.id, j) \/ Boots(f.id, j)
                  \/ f.id \in cache \ cache'
                  => Known(f)',
           \A r \in rows :
               \/ Starts(r, j) \/ Drops(r.mac, j) \/ GateOf(r) \in flows \ flows'
               \/ TokenAsked(r) /\ ~(calls \subseteq calls')
               => Served(r)'
    PROVE  AllCaused' /\ AllKnown' /\ AllServed'
<1>1. PICK J : J = {j}
    OBVIOUS
<1>2. \A k \in Jobs : k \notin J => /\ jpc'[k] = jpc[k] /\ doomed'[k] = doomed[k]
                                    /\ job'[k] = job[k]
    BY <1>1 DEF Alone
<1>3. /\ \A f : Cause(f) => \/ Cause(f)'
                            \/ CloseAsked(MacOf(f.id)) /\ ~(calls \subseteq calls')
                            \/ \E k \in Jobs \cap J : Closing(MacOf(f.id), k)
                                                        \/ Dying(f.id, k)
      /\ \A f : Known(f) => \/ Known(f)' \/ f.id \in cache \ cache'
                            \/ \E k \in Jobs \cap J : \/ Dying(f.id, k) \/ Hand(f.id, k)
                                                      \/ Boots(f.id, k)
      /\ \A r : Served(r) => \/ Served(r)' \/ GateOf(r) \in flows \ flows'
                             \/ TokenAsked(r) /\ ~(calls \subseteq calls')
                             \/ \E k \in Jobs \cap J : Starts(r, k) \/ Drops(r.mac, k)
    BY <1>2, Losses
<1>4. rows' = rows
    BY DEF loginVars, tables
<1>5. AllCaused'
    BY <1>1, <1>3 DEF FInv, AllCaused
<1>6. AllKnown'
    BY <1>1, <1>3 DEF FInv, AllKnown
<1>7. AllServed'
    BY <1>1, <1>3, <1>4 DEF FInv, AllServed
<1> QED BY <1>5, <1>6, <1>7

LEMMA BeginKeeps ==
    ASSUME FInv, NEW j \in Jobs, BeginSweep(j) \/ \E c \in calls : Accept(j, c)
    PROVE  AllCaused' /\ AllKnown' /\ AllServed'
<1>1. Alone(j) /\ jpc[j] = "idle"
    BY BeginMoves DEF FInv
<1>2. \A id, mac, r : ~(\/ Closing(mac, j) \/ Dying(id, j) \/ Boots(id, j)
                        \/ Hand(id, j) \/ Starts(r, j) \/ Drops(mac, j))
    BY <1>1, HoldsNothing DEF FInv
<1>3. /\ UNCHANGED loginVars /\ flows' = flows /\ trouble' = trouble
      /\ forgotten' = forgotten /\ cache' = cache
    BY DEF BeginSweep, Accept, m6, bounds, history6
<1>4. ASSUME NEW mac, CloseAsked(mac), ~(calls \subseteq calls')
      PROVE  CloseAsked(mac)' \/ Closing(mac, j)'
    <2>1. PICK c \in calls : Accept(j, c)
        BY <1>4 DEF BeginSweep
    <2>2. job'[j] = c /\ jpc'[j] = c.kind
        BY <2>1 DEF Accept, GoTo, FInv, SShapes, PlacesOK, JobOK
    <2>3. calls' = calls \ {c}
        BY <2>1 DEF Accept
    <2> QED BY <1>4, <2>2, <2>3 DEF CloseAsked, Closing, Mac
<1>5. ASSUME NEW r, TokenAsked(r), ~(calls \subseteq calls')
      PROVE  TokenAsked(r)' \/ Starts(r, j)'
    <2>1. PICK c \in calls : Accept(j, c)
        BY <1>5 DEF BeginSweep
    <2>2. job'[j] = c /\ jpc'[j] = c.kind
        BY <2>1 DEF Accept, GoTo, FInv, SShapes, PlacesOK, JobOK
    <2>3. calls' = calls \ {c}
        BY <2>1 DEF Accept
    <2> QED BY <1>5, <2>2, <2>3 DEF TokenAsked, Starts, HostAt
<1>6. \A f : CloseAsked(MacOf(f.id)) /\ ~(calls \subseteq calls') => Cause(f)'
    BY <1>4 DEF Cause
<1>7. \A r : TokenAsked(r) /\ ~(calls \subseteq calls') => Served(r)'
    BY <1>5 DEF Served
<1> QED BY <1>1, <1>2, <1>3, <1>6, <1>7, HandlerKeeps

\* A flow that a close request takes out of the dictionaries is doomed; one that
\* they do not have has another cause.
LEMMA PopKeeps ==
    ASSUME OneRequest, FInv, NEW j \in Jobs, Pop(j)
    PROVE  AllCaused' /\ AllKnown' /\ AllServed'
<1> USE DEF FInv
<1>1. /\ Alone(j) /\ jpc[j] = "close" /\ jpc'[j] = "deleting" /\ job'[j] = job[j]
      /\ doomed[j] = {} /\ doomed'[j] = Of(Mac(j), cache)
    <2>1. /\ jpc[j] = "close" /\ GoTo(j, "deleting") /\ job' = job
          /\ doomed' = [doomed EXCEPT ![j] = Of(Mac(j), cache)]
        BY DEF Pop
    <2>2. Alone(j) /\ jpc'[j] = "deleting" /\ job'[j] = job[j] /\ doomed'[j] = Of(Mac(j), cache)
        BY <2>1, MoveOf
    <2>3. doomed[j] = {}
        BY <2>1, Fitting, FitsFacts
    <2> QED BY <2>1, <2>2, <2>3
<1>2. job[j].kind \in {"close", "expired"} /\ ~Sweeping(j)
    BY <1>1, Fitting, FitsFacts DEF Sweeping
<1>3. /\ UNCHANGED <<loginVars, flows, calls, forgotten>> /\ trouble \subseteq trouble'
      /\ cache' = cache \ Of(Mac(j), cache)
    BY DEF Pop, Trouble, bounds
<1>4. \A id \in cache : MacOf(id) = Mac(j) => Dying(id, j)'
    BY <1>1, <1>2 DEF Dying, Sweeping, Of
<1>5. \A id \in cache \ cache' : MacOf(id) = Mac(j)
    BY <1>3 DEF Of
<1>6. \A id, r : ~(Dying(id, j) \/ Hand(id, j) \/ Boots(id, j) \/ Starts(r, j) \/ Drops(r.mac, j))
    BY <1>1, <1>2 DEF Dying, Hand, Boots, Starts, Drops, Sweeping
<1>7. ASSUME NEW f \in flows, Closing(MacOf(f.id), j) PROVE Cause(f)'
    <2>1. Mac(j) = MacOf(f.id) /\ job[j].kind = "close"
        BY <1>7 DEF Closing
    <2>2. Known(f)
        BY DEF AllKnown
    <2>3. CASE MacOf(f.id) \in trouble \/ Old(f.id)
        BY <1>3, <2>3 DEF Cause, Old
    <2>4. CASE f.id \in cache
        BY <1>4, <2>1, <2>4 DEF Cause
    <2>5. ASSUME NEW k \in Jobs, Dying(f.id, k) PROVE Cause(f)'
        <3>1. k # j
            BY <1>6, <2>5
        <3>2. Dying(f.id, k)'
            BY <1>1, <2>5, <3>1 DEF Alone, Dying, Sweeping
        <3> QED BY <3>2 DEF Cause
    <2>6. ASSUME NEW k \in Jobs, Hand(f.id, k) PROVE MacOf(f.id) \in trouble
        <3>1. job[k].kind = "token" /\ job[k].host \in Hosts /\ job[k].user \in Owners
            BY <2>6, Fitting, FitsFacts, JobFact DEF Hand, SShapes
        <3>2. MacOf(f.id) = Mac(k)
            BY <2>6, <3>1, FlowFacts DEF Hand, Mac
        <3> QED BY <1>1, <2>1, <3>1, <3>2, TokenFacts
    <2>7. ASSUME NEW k \in Jobs PROVE ~Boots(f.id, k)
        BY <1>1, <1>2 DEF Boots, JobsFit
    <2> QED BY <1>3, <2>2, <2>3, <2>4, <2>5, <2>6, <2>7 DEF Known, Cause
<1>8. \A f : f.id \in cache \ cache' => Known(f)'
    BY <1>4, <1>5 DEF Known
<1> QED BY <1>1, <1>3, <1>6, <1>7, <1>8, HandlerKeeps

\* A handler that has deleted a flow, or failed to, is rid of it.
LEMMA DeleteKeeps ==
    ASSUME OneRequest, FInv, NEW j \in Jobs, Delete(j) \/ DeleteFails(j)
    PROVE  AllCaused' /\ AllKnown' /\ AllServed'
<1> USE DEF FInv
<1>1. PICK d \in doomed[j] :
         /\ doomed' = [doomed EXCEPT ![j] = @ \ {d}]
         /\ \/ Remove(d) /\ Trouble(IF job[j].kind = "close" THEN {} ELSE With({MacOf(d)}))
            \/ UNCHANGED <<flows, calls>> /\ Fault({MacOf(d)})
    BY DEF Delete, DeleteFails
<1>2. /\ UNCHANGED <<loginVars, cache, forgotten, jpc, job>> /\ jpc[j] = "deleting"
      /\ flows' \subseteq flows /\ calls \subseteq calls' /\ trouble \subseteq trouble'
    BY <1>1 DEF Delete, DeleteFails, m6, bounds, Remove, Reported, Trouble, Fault
<1>3. /\ Alone(j) /\ jpc'[j] = "deleting" /\ job'[j] = job[j] /\ doomed'[j] = doomed[j] \ {d}
    BY <1>1, <1>2 DEF SShapes, WorkOK, Alone
<1>4. ASSUME NEW f \in flows', f.id = d PROVE MacOf(d) \in trouble'
    BY <1>1, <1>4 DEF Remove, Installed, Fault
<1>5. /\ \A id : Dying(id, j) => id = d \/ Dying(id, j)'
      /\ \A id : Boots(id, j) => id = d \/ Boots(id, j)'
      /\ \A id, r, mac : ~(Hand(id, j) \/ Starts(r, j) \/ Closing(mac, j))
    BY <1>2, <1>3 DEF Dying, Boots, Hand, Starts, Closing, Sweeping
<1>6. ASSUME NEW f \in flows',
             Closing(MacOf(f.id), j) \/ Dying(f.id, j)
      PROVE  Cause(f)'
    BY <1>4, <1>5, <1>6 DEF Cause
<1>7. ASSUME NEW f \in flows', Dying(f.id, j) \/ Hand(f.id, j) \/ Boots(f.id, j)
      PROVE  Known(f)'
    BY <1>4, <1>5, <1>7 DEF Known
<1>8. ASSUME NEW r \in rows, MacOf(d) = r.mac PROVE r.mac \in trouble'
    <2>1. CASE Fault({MacOf(d)})
        BY <1>8, <2>1 DEF Fault
    <2>2. CASE job[j].kind # "close" /\ Trouble(With({MacOf(d)}))
        BY <1>8, <2>2 DEF Trouble, With
    <2>3. CASE job[j].kind = "close"
        <3>1. PICK c : c = job[j]
            OBVIOUS
        <3>2. Waited(c) /\ c.kind = "close"
            BY <1>2, <2>3, <3>1 DEF AllWaited
        <3>3. MacOf(d) = c.host.mac
            BY <2>3, <3>1, Fitting DEF Fits
        <3> QED BY <1>2, <1>8, <3>2, <3>3, CloseHasNone
    <2> QED BY <1>1, <2>1, <2>2, <2>3
<1>9. ASSUME NEW r \in rows,
             Starts(r, j) \/ Drops(r.mac, j) \/ GateOf(r) \in flows \ flows'
      PROVE  Served(r)'
    <2>1. CASE GateOf(r) \in flows \ flows'
        <3>1. d = Gate(HostAt(r))
            BY <1>1, <2>1 DEF Remove, GateOf
        <3>2. MacOf(d) = r.mac
            BY <3>1 DEF Gate, MacOf, HostAt
        <3> QED BY <1>8, <3>2 DEF Served
    <2>2. CASE Drops(r.mac, j)
        <3>1. PICK id \in doomed[j] : id[1] = "gate" /\ MacOf(id) = r.mac
            BY <2>2 DEF Drops
        <3>2. CASE id = d
            BY <1>8, <3>1, <3>2 DEF Served
        <3>3. CASE id # d
            <4>1. Drops(r.mac, j)'
                BY <1>3, <2>2, <3>1, <3>3 DEF Drops, Sweeping
            <4> QED BY <4>1 DEF Served
        <3> QED BY <3>2, <3>3
    <2> QED BY <1>5, <1>9, <2>1, <2>2
<1> QED BY <1>2, <1>3, <1>6, <1>7, <1>9, HandlerKeeps

LEMMA CloseKeeps ==
    ASSUME OneRequest, FInv, NEW j \in Jobs, CloseStep(j)
    PROVE  AllCaused' /\ AllKnown' /\ AllServed'
<1>1. Alone(j)
    BY CloseMoves DEF FInv
<1>2. CASE Lookup(j)
    <2>1. /\ jpc[j] = "expired" /\ UNCHANGED <<loginVars, flows, calls, cache, forgotten>>
          /\ trouble \subseteq trouble'
        BY <1>2 DEF Lookup, m6, Trouble, Fault
    <2>2. \A id, mac, r : ~(\/ Closing(mac, j) \/ Dying(id, j) \/ Boots(id, j)
                            \/ Hand(id, j) \/ Starts(r, j) \/ Drops(mac, j))
        BY <2>1, HoldsNothing DEF FInv
    <2> QED BY <1>1, <2>1, <2>2, HandlerKeeps
<1>3. CASE Closed(j)
    <2>1. /\ jpc[j] = "deleting" /\ doomed[j] = {} /\ ~Sweeping(j)
          /\ UNCHANGED <<loginVars, flows, calls, cache, forgotten, trouble>>
        BY <1>3 DEF Closed, m6, history6
    <2>2. \A id, mac, r : ~(\/ Closing(mac, j) \/ Dying(id, j) \/ Boots(id, j)
                            \/ Hand(id, j) \/ Starts(r, j) \/ Drops(mac, j))
        BY <2>1 DEF Closing, Dying, Boots, Hand, Starts, Drops, Sweeping
    <2> QED BY <1>1, <2>1, <2>2, HandlerKeeps
<1> QED BY <1>2, <1>3, PopKeeps, DeleteKeeps DEF CloseStep

\* The first sweep of M6 finds all gates: it remembers those of the sessions it has
\* read and deletes the others.
LEMMA SweepKeeps ==
    ASSUME FInv, NEW j \in Jobs, SweepStep(j)
    PROVE  AllCaused' /\ AllKnown' /\ AllServed'
<1>1. /\ Alone(j) /\ Sweeping(j) /\ jpc[j] \in {"sweep", "scan", "deleting"}
      /\ jpc'[j] \in {"scan", "deleting"} => job'[j] = job[j]
    BY SweepMoves DEF FInv
<1>2. /\ UNCHANGED <<loginVars, flows, calls, forgotten>> /\ trouble \subseteq trouble'
    BY DEF SweepStep, ReadActive, Scan, PopStale, NoFault, Fault, Trouble, bounds, history6
<1>3. \A id, mac, r : ~(\/ Closing(mac, j) \/ Dying(id, j) \/ Hand(id, j) \/ Starts(r, j)
                        \/ Drops(mac, j))
    BY <1>1 DEF Closing, Dying, Hand, Starts, Drops, Sweeping
<1>4. SUFFICES ASSUME NEW f \in flows, Boots(f.id, j) \/ f.id \in cache \ cache'
               PROVE  Known(f)'
    BY <1>1, <1>2, <1>3, HandlerKeeps
<1>5. CASE ReadActive(j)
    <2>1. jpc[j] = "sweep" /\ GoTo(j, "scan") /\ UNCHANGED <<job, doomed, cache>>
        BY <1>5 DEF ReadActive, m6
    <2>2. jpc'[j] = "scan"
        BY <2>1, MoveOf DEF FInv
    <2>3. Boots(f.id, j)'
        BY <1>1, <1>4, <2>1, <2>2 DEF Boots
    <2> QED BY <2>3 DEF Known
<1>6. CASE Scan(j)
    <2>1. PICK D : D = {Gate(h) : h \in GatesInOnos \ listed[j]}
        OBVIOUS
    <2>2. /\ jpc[j] = "scan" /\ GoTo(j, "deleting") /\ job' = job
          /\ doomed' = [doomed EXCEPT ![j] = D] /\ cache' = cache \cup Adopted(listed[j])
        BY <1>6, <2>1 DEF Scan
    <2>3. jpc'[j] = "deleting" /\ job'[j] = job[j] /\ doomed'[j] = D
        BY <2>2, MoveOf DEF FInv
    <2>4. Boots(f.id, j) /\ f.id \in Flows
        BY <1>4, <2>2 DEF FInv, SShapes, FlowsOK
    <2>5. PICK h \in Hosts : f.id = Gate(h)
        BY <2>4 DEF Boots, Flows, Permit
    <2>6. h \in GatesInOnos
        BY <2>5 DEF GatesInOnos, Installed
    <2>7. f.id \in cache' \/ Boots(f.id, j)'
        BY <2>1, <2>2, <2>3, <2>4, <2>5, <2>6 DEF Adopted, Boots
    <2> QED BY <2>7 DEF Known
<1>7. CASE PopStale(j)
    <2>1. ~Boots(f.id, j)
        BY <1>7 DEF PopStale, Boots
    <2>2. MacOf(f.id) \in trouble'
        BY <1>4, <1>7, <2>1 DEF PopStale, Trouble
    <2> QED BY <2>2 DEF Known
<1> QED BY <1>5, <1>6, <1>7 DEF SweepStep

\* A step in which no handler does anything.
LEMMA QuietLosses ==
    ASSUME UNCHANGED loginVars, jpc' = jpc, job' = job, doomed' = doomed,
           cache \subseteq cache', trouble \subseteq trouble', forgotten \subseteq forgotten'
    PROVE  /\ \A f : Cause(f) => \/ Cause(f)'
                                 \/ CloseAsked(MacOf(f.id)) /\ ~(calls \subseteq calls')
           /\ \A f : Known(f) => Known(f)'
           /\ \A r : Served(r) => \/ Served(r)' \/ GateOf(r) \in flows \ flows'
                                  \/ TokenAsked(r) /\ ~(calls \subseteq calls')
<1>1. PICK J : J = {}
    OBVIOUS
<1>2. /\ \A f : Cause(f) => \/ Cause(f)'
                            \/ CloseAsked(MacOf(f.id)) /\ ~(calls \subseteq calls')
                            \/ \E k \in Jobs \cap J : Closing(MacOf(f.id), k)
                                                        \/ Dying(f.id, k)
      /\ \A f : Known(f) => \/ Known(f)' \/ f.id \in cache \ cache'
                            \/ \E k \in Jobs \cap J : \/ Dying(f.id, k) \/ Hand(f.id, k)
                                                      \/ Boots(f.id, k)
      /\ \A r : Served(r) => \/ Served(r)' \/ GateOf(r) \in flows \ flows'
                             \/ TokenAsked(r) /\ ~(calls \subseteq calls')
                             \/ \E k \in Jobs \cap J : Starts(r, k) \/ Drops(r.mac, k)
    BY Losses
<1> QED BY <1>1, <1>2

LEMMA LostKeeps ==
    ASSUME FInv, NEW c \in calls, Lost(c)
    PROVE  AllCaused' /\ AllKnown' /\ AllServed'
<1>1. /\ UNCHANGED <<loginVars, flows, cache, jpc, job, doomed, forgotten>>
      /\ trouble' = trouble \cup {c.host.mac} /\ calls' = calls \ {c}
    BY DEF Lost, Fault, m6, jobs
<1>2. /\ \A f : Cause(f) => Cause(f)' \/ CloseAsked(MacOf(f.id))
      /\ \A f : Known(f) => Known(f)'
      /\ \A r : Served(r) => Served(r)' \/ TokenAsked(r)
    BY <1>1, QuietLosses
<1>3. ASSUME NEW f, CloseAsked(MacOf(f.id)) PROVE Cause(f)'
    <2>1. MacOf(f.id) \in trouble' \/ CloseAsked(MacOf(f.id))'
        BY <1>1, <1>3 DEF CloseAsked
    <2> QED BY <2>1 DEF Cause
<1>4. ASSUME NEW r, TokenAsked(r) PROVE Served(r)'
    <2>1. r.mac \in trouble' \/ TokenAsked(r)'
        BY <1>1, <1>4 DEF TokenAsked, HostAt
    <2> QED BY <2>1 DEF Served
<1>5. rows' = rows
    BY <1>1 DEF loginVars, tables
<1> QED BY <1>1, <1>2, <1>3, <1>4, <1>5 DEF FInv, AllCaused, AllKnown, AllServed

LEMMA TimeOutKeeps ==
    ASSUME FInv, FlowTimesOut
    PROVE  AllCaused' /\ AllKnown' /\ AllServed'
<1>1. PICK d \in flows :
         Remove(d.id) /\ IF d.id[1] = "gate" THEN Fault({MacOf(d.id)}) ELSE NoFault
    BY DEF FlowTimesOut
<1>2. /\ UNCHANGED <<loginVars, cache, jpc, job, doomed, forgotten>>
      /\ trouble \subseteq trouble' /\ calls \subseteq calls' /\ flows' \subseteq flows
      /\ \A f \in flows \ flows' : f.id = d.id
    BY <1>1 DEF FlowTimesOut, Remove, Reported, Fault, NoFault, m6, jobs
<1>3. /\ \A f : Cause(f) => Cause(f)'
      /\ \A f : Known(f) => Known(f)'
      /\ \A r : Served(r) => Served(r)' \/ GateOf(r) \in flows \ flows'
    BY <1>2, QuietLosses
<1>4. ASSUME NEW r, GateOf(r) \in flows \ flows' PROVE Served(r)'
    <2>1. d.id = Gate(HostAt(r))
        BY <1>2, <1>4 DEF GateOf
    <2>2. r.mac \in trouble'
        BY <1>1, <2>1 DEF Gate, MacOf, HostAt, Fault
    <2> QED BY <2>2 DEF Served
<1>5. rows' = rows
    BY <1>2 DEF loginVars, tables
<1> QED BY <1>2, <1>3, <1>4, <1>5 DEF FInv, AllCaused, AllKnown, AllServed

\* A restart: the gates are all found again, the permissions are forgotten, and what
\* was going on has gone wrong.
LEMMA RestartKeeps ==
    ASSUME FInv, NEW j \in Jobs, Restart(j)
    PROVE  AllCaused' /\ AllKnown' /\ AllServed'
<1> USE DEF FInv
<1>1. /\ UNCHANGED <<loginVars, flows, calls>> /\ trouble \subseteq trouble'
      /\ forgotten' = forgotten \cup {f.id : f \in flows}
      /\ jpc'[j] = "sweep" /\ job'[j].kind = "boot"
    <2>1. job'[j] = [NoCall EXCEPT !.kind = "boot"]
        BY DEF Restart
    <2>2. job'[j].kind = "boot"
        BY <2>1, NoCallFact DEF Call
    <2> QED BY <2>2 DEF Restart, Trouble
<1>2. UNCHANGED <<rows, excused, pc, req>>
    BY <1>1 DEF loginVars, tables, history
<1>3. ASSUME NEW k \in Jobs, jpc[k] # "idle", ~Sweeping(k) PROVE Mac(k) \in trouble'
    BY <1>3 DEF Restart, Trouble
<1>4. ASSUME NEW k \in Jobs, NEW id \in doomed[k], ~Sweeping(k) PROVE MacOf(id) \in trouble'
    <2>1. jpc[k] # "idle"
        BY <1>4, Fitting, FitsFacts
    <2>2. MacOf(id) = Mac(k)
        BY <1>4, Fitting DEF Fits, Sweeping, Mac
    <2> QED BY <1>3, <1>4, <2>1, <2>2
<1>5. ASSUME NEW f \in flows PROVE Cause(f)'
    <2>1. ASSUME NEW k \in Jobs, Closing(MacOf(f.id), k) \/ Dying(f.id, k)
          PROVE  MacOf(f.id) \in trouble'
        <3>1. CASE Closing(MacOf(f.id), k)
            BY <1>3, <3>1 DEF Closing, Sweeping
        <3>2. CASE Dying(f.id, k)
            BY <1>4, <3>2 DEF Dying
        <3> QED BY <2>1, <3>1, <3>2
    <2>2. /\ Old(f.id) => Old(f.id)'
          /\ Taken(MacOf(f.id)) => Taken(MacOf(f.id))'
          /\ CloseAsked(MacOf(f.id)) => CloseAsked(MacOf(f.id))'
          /\ (\E r \in RowOf(HostOf(f.id)) : r.user = f.user) =>
                 (\E r \in RowOf(HostOf(f.id)) : r.user = f.user)'
        BY <1>1, <1>2 DEF Old, Taken, CloseAsked, RowOf
    <2>3. Cause(f)
        BY DEF AllCaused
    <2> QED BY <1>1, <2>1, <2>2, <2>3 DEF Cause
<1>6. ASSUME NEW f \in flows PROVE Known(f)'
    <2>1. f.id[1] = "permit" \/ f.id[1] = "gate"
        BY DEF SShapes, FlowsOK, Flows, Gate, Permit
    <2>2. Old(f.id)' \/ Boots(f.id, j)'
        BY <1>1, <2>1 DEF Old, Boots
    <2> QED BY <2>2 DEF Known
<1>7. ASSUME NEW r \in rows PROVE Served(r)'
    <2>1. ASSUME NEW k \in Jobs, Starts(r, k) PROVE r.mac \in trouble'
        <3>1. job[k].kind = "token" /\ jpc[k] # "idle"
            BY <2>1, Fitting, FitsFacts DEF Starts
        <3>2. Mac(k) = r.mac
            BY <2>1 DEF Starts, HostAt, Mac
        <3> QED BY <1>3, <3>1, <3>2 DEF Sweeping
    <2>2. ASSUME NEW k \in Jobs, Drops(r.mac, k) PROVE r.mac \in trouble'
        BY <1>4, <2>2 DEF Drops
    <2>3. /\ Taken(r.mac) => Taken(r.mac)'
          /\ TokenAsked(r) => TokenAsked(r)'
          /\ LoggingIn(r) => LoggingIn(r)'
        BY <1>1, <1>2 DEF Taken, TokenAsked, LoggingIn
    <2>4. GateOf(r) \in flows => (GateOf(r) \in flows)'
        BY <1>1 DEF GateOf, HostAt
    <2>5. Served(r)
        BY DEF AllServed
    <2> QED BY <1>1, <2>1, <2>2, <2>3, <2>4, <2>5 DEF Served
<1> QED BY <1>1, <1>2, <1>5, <1>6, <1>7 DEF AllCaused, AllKnown, AllServed

LEMMA AloneClosesNothing ==
    ASSUME Shapes, NEW t \in Threads, AloneStep(t)
    PROVE  pc'[t] # "notifying"
<1>1. pc \in [Threads -> Place]
    BY DEF Shapes, RequestsOK
<1> QED BY <1>1 DEF AloneStep, BeginLogin, BeginVisit, BeginLogout, Accepted, Rejected,
        ReadAttempts, CountAttempt, AttemptLost, PassAntiSpoofing, PassValidation, Refused,
        Register, Overlook, Bind, CloseFails, Go, Leave

\* A session is closed only when M6 is told.
LEMMA CloseIsAsked ==
    ASSUME OneRequest, FInv, PortalStep, NEW t \in Threads, CloseSession(t),
           NEW r \in rows, req[t].sid = r.id
    PROVE  CloseAsked(r.mac)'
<1>1. pc[t] = "leaving" /\ pc'[t] = "notifying"
    BY DEF CloseSession, Go, FInv, SShapes, Shapes, RequestsOK
<1>2. PICK u \in Threads : \/ AloneStep(u) \/ SendToken(u) \/ SendClose(u)
                           \/ Answered(u) \/ TimedOut(u)
    BY DEF PortalStep
<1>3. SendClose(t)
    <2>1. u = t
        BY DEF OneRequest
    <2>2. ~AloneStep(u)
        BY <1>1, <2>1, AloneClosesNothing DEF FInv, SShapes
    <2>3. ~(SendToken(u) \/ Answered(u) \/ TimedOut(u))
        BY <1>1, <2>1 DEF SendToken, Welcome, Answered, TimedOut, LoggedIn, LoggedOut
    <2> QED BY <1>2, <2>1, <2>2, <2>3
<1>4. PICK q \in rows : q.id = req[t].sid /\ HostAt(q) = req[t].host
    BY <1>1 DEF FInv, OwnRows
<1>5. q = r
    BY <1>4 DEF FInv, Seen, Shapes, TablesOK
<1>6. r.mac = req[t].host.mac
    BY <1>4, <1>5 DEF HostAt
<1>7. PICK c : c = [kind |-> "close", host |-> req[t].host, user |-> Id(req[t].who), from |-> t]
    OBVIOUS
<1>8. c \in calls' /\ c.kind = "close" /\ c.host.mac = r.mac
    BY <1>3, <1>6, <1>7 DEF SendClose, Ask
<1> QED BY <1>8 DEF CloseAsked

\* What M1 leaves alone in M6.
LEMMA PortalSpares ==
    ASSUME FInv, PortalStep
    PROVE  /\ flows' = flows /\ cache' = cache /\ jpc' = jpc /\ doomed' = doomed
           /\ forgotten' = forgotten
           /\ \A j \in Jobs : /\ job'[j].kind = job[j].kind /\ job'[j].host = job[j].host
                              /\ job'[j].user = job[j].user
           /\ \A c \in calls : \E d \in calls' :
                 d.kind = c.kind /\ d.host = c.host /\ d.user = c.user
           /\ \A mac \in trouble : \/ mac \in trouble'
                                   \/ \E t \in Threads : /\ SendToken(t) /\ Clean(mac)
                                                         /\ mac = req[t].host.mac
<1>1. PICK t \in Threads : \/ AloneStep(t) /\ UNCHANGED sessionVars
                           \/ SendToken(t) \/ SendClose(t) \/ Answered(t) \/ TimedOut(t)
    BY DEF PortalStep
<1>2. CASE TimedOut(t)
    <2>1. calls \subseteq Call /\ \A j \in Jobs : job[j] \in Call
        BY DEF FInv, SShapes, CallsOK, JobOK
    <2>2. ASSUME NEW c \in Call, NEW d, d = IF c.from = t THEN [c EXCEPT !.from = Nobody] ELSE c
          PROVE  d.kind = c.kind /\ d.host = c.host /\ d.user = c.user
        BY <2>2 DEF Call
    <2>3. /\ calls' = {IF c.from = t THEN [c EXCEPT !.from = Nobody] ELSE c : c \in calls}
          /\ \A j \in Jobs : job'[j] = IF job[j].from = t
                                       THEN [job[j] EXCEPT !.from = Nobody] ELSE job[j]
          /\ UNCHANGED <<flows, cache, jpc, doomed, forgotten>> /\ trouble \subseteq trouble'
        BY <1>2 DEF TimedOut, Fault, m6
    <2>4. ASSUME NEW c \in calls
          PROVE  \E d \in calls' : d.kind = c.kind /\ d.host = c.host /\ d.user = c.user
        <3>1. PICK d : d = IF c.from = t THEN [c EXCEPT !.from = Nobody] ELSE c
            OBVIOUS
        <3> QED BY <2>1, <2>2, <2>3, <3>1
    <2>5. \A j \in Jobs : /\ job'[j].kind = job[j].kind /\ job'[j].host = job[j].host
                          /\ job'[j].user = job[j].user
        BY <2>1, <2>2, <2>3
    <2> QED BY <2>3, <2>4, <2>5
<1>3. CASE SendToken(t) \/ SendClose(t)
    BY <1>3 DEF SendToken, SendClose, Ask, m6, jobs, history6
<1>4. CASE UNCHANGED sessionVars
    BY <1>4 DEF sessionVars, m6, jobs, history6
<1> QED BY <1>1, <1>2, <1>3, <1>4 DEF Answered

LEMMA PortalIsLoginStep == PortalStep => LoginNext
BY DEF PortalStep, LoginNext, SendToken, SendClose, Answered, TimedOut

\* What handlers and calls stand for is the same for M1's steps.
LEMMA PortalHolds ==
    ASSUME FInv, PortalStep
    PROVE  /\ \A j \in Jobs : \A mac : Closing(mac, j) => Closing(mac, j)'
           /\ \A j \in Jobs : \A mac : Drops(mac, j) => Drops(mac, j)'
           /\ \A j \in Jobs : \A id : Dying(id, j) => Dying(id, j)'
           /\ \A j \in Jobs : \A id : Hand(id, j) => Hand(id, j)'
           /\ \A j \in Jobs : \A id : Boots(id, j) => Boots(id, j)'
           /\ \A j \in Jobs : \A r : Starts(r, j) => Starts(r, j)'
           /\ \A mac : CloseAsked(mac) => CloseAsked(mac)'
           /\ \A r : TokenAsked(r) => TokenAsked(r)'
           /\ \A id : Old(id) => Old(id)'
<1>1. /\ jpc' = jpc /\ doomed' = doomed /\ forgotten' = forgotten
      /\ \A j \in Jobs : /\ job'[j].kind = job[j].kind /\ job'[j].host = job[j].host
                         /\ job'[j].user = job[j].user
      /\ \A c \in calls : \E d \in calls' :
            d.kind = c.kind /\ d.host = c.host /\ d.user = c.user
    BY PortalSpares
<1>2. \A mac : CloseAsked(mac) => CloseAsked(mac)'
    BY <1>1 DEF CloseAsked
<1>3. \A r : TokenAsked(r) => TokenAsked(r)'
    BY <1>1 DEF TokenAsked, HostAt
<1>4. ASSUME NEW j \in Jobs
      PROVE  /\ \A mac : Closing(mac, j) => Closing(mac, j)'
             /\ \A mac : Drops(mac, j) => Drops(mac, j)'
             /\ \A id : Dying(id, j) => Dying(id, j)'
             /\ \A id : Hand(id, j) => Hand(id, j)'
             /\ \A id : Boots(id, j) => Boots(id, j)'
             /\ \A r : Starts(r, j) => Starts(r, j)'
    BY <1>1 DEF Closing, Drops, Dying, Hand, Boots, Starts, Mac, Sweeping, HostAt
<1>5. \A id : Old(id) => Old(id)'
    BY <1>1 DEF Old
<1> QED BY <1>2, <1>3, <1>4, <1>5

LEMMA PortalFlows ==
    ASSUME OneRequest, FInv, PortalStep
    PROVE  AllCaused' /\ AllKnown'
<1>1. /\ flows' = flows /\ cache' = cache
      /\ \A f \in flows : MacOf(f.id) \in trouble => MacOf(f.id) \in trouble'
    BY PortalSpares DEF Clean
<1>2. ASSUME NEW f \in flows PROVE Known(f)'
    <2>1. Known(f)
        BY DEF FInv, AllKnown
    <2> QED BY <1>1, <2>1, PortalHolds DEF Known
<1>3. ASSUME NEW f \in flows PROVE Cause(f)'
    <2>1. Cause(f)
        BY DEF FInv, AllCaused
    <2>2. ASSUME NEW mac, Taken(mac) PROVE Taken(mac)' \/ CloseAsked(mac)'
        BY <2>2, TakenPasses, PortalIsLoginStep, CloseIsAsked DEF FInv
    <2>3. ASSUME NEW r \in RowOf(HostOf(f.id)), r.user = f.user
          PROVE  \/ \E q \in RowOf(HostOf(f.id))' : q.user = f.user
                 \/ Taken(MacOf(f.id))' \/ CloseAsked(MacOf(f.id))'
        <3>1. r \in rows /\ r.mac = HostOf(f.id).mac
            BY DEF RowOf
        <3>2. r.mac = MacOf(f.id)
            BY <3>1 DEF MacOf, HostOf
        <3>3. r \in rows' \/ Taken(r.mac)' \/ CloseAsked(r.mac)'
            BY <3>1, RowsPass, PortalIsLoginStep, CloseIsAsked DEF FInv
        <3> QED BY <2>3, <3>2, <3>3 DEF RowOf
    <2> QED BY <1>1, <2>1, <2>2, <2>3, PortalHolds DEF Cause
<1> QED BY <1>1, <1>2, <1>3 DEF AllCaused, AllKnown

\* M6 is asked for the gate of the session that has just been registered.
LEMMA TokenIsAsked ==
    ASSUME FInv, NEW t \in Threads, SendToken(t), NEW r \in rows,
           r.id = req[t].sid \/ r.mac = req[t].host.mac
    PROVE  TokenAsked(r)'
<1>1. pc[t] = "bound"
    BY DEF SendToken, Welcome
<1>2. PICK q \in rows : /\ q.id = req[t].sid /\ HostAt(q) = req[t].host
                        /\ q.user = Id(req[t].who)
    BY <1>1 DEF FInv, OwnRows
<1>3. q = r
    <2>1. q.mac = req[t].host.mac
        BY <1>2 DEF HostAt
    <2> QED BY <1>2, <2>1 DEF FInv, Seen, Shapes, TablesOK
<1>4. PICK c : c = [kind |-> "token", host |-> req[t].host, user |-> Id(req[t].who), from |-> t]
    OBVIOUS
<1>5. c \in calls' /\ c.kind = "token" /\ c.host = HostAt(r) /\ c.user = r.user
    BY <1>2, <1>3, <1>4 DEF SendToken, Ask
<1> QED BY <1>5 DEF TokenAsked, HostAt

LEMMA NewRow ==
    ASSUME Shapes, LoginNext, NEW r \in rows', r \notin rows
    PROVE  LoggingIn(r)'
<1>1. PICK t \in Threads : AloneStep(t) \/ Welcome(t) \/ LoggedIn(t)
                             \/ CloseSession(t) \/ LoggedOut(t)
    BY DEF LoginNext
<1>2. ~CloseSession(t)
    BY DEF CloseSession
<1>3. Register(t)
    <2>1. SUFFICES ASSUME ~Register(t) PROVE rows' = rows
        OBVIOUS
    <2>2. CASE AloneStep(t)
        BY <2>1, <2>2 DEF AloneStep, BeginLogin, BeginVisit, BeginLogout, Accepted,
           Rejected, ReadAttempts, CountAttempt, AttemptLost, PassAntiSpoofing,
           PassValidation, Refused, Bind, CloseFails, tables
    <2> QED BY <1>1, <1>2, <2>1, <2>2 DEF Welcome, LoggedIn, LoggedOut, tables
<1>4. PICK new : new = [id |-> SidFor(req[t].host.mac), user |-> Id(req[t].who),
                        who |-> req[t].who, mac |-> req[t].host.mac,
                        ip |-> req[t].host.ip, port |-> req[t].host.port]
    OBVIOUS
<1>5. r = new
    BY <1>3, <1>4 DEF Register
<1>6. pc'[t] = "registered" /\ req'[t].sid = new.id
    BY <1>3, <1>4 DEF Register, Overlook, Shapes, RequestsOK, Request
<1> QED BY <1>5, <1>6 DEF LoggingIn

LEMMA LoginGoesOn ==
    ASSUME OneRequest, FInv, PortalStep, NEW r \in rows, LoggingIn(r)
    PROVE  LoggingIn(r)' \/ TokenAsked(r)'
<1>1. PICK t \in Threads : pc[t] \in {"registered", "bound"} /\ req[t].sid = r.id
    BY DEF LoggingIn
<1>2. \/ AloneStep(t) \/ SendToken(t) \/ SendClose(t) \/ Answered(t) \/ TimedOut(t)
    BY DEF OneRequest, PortalStep
<1>3. CASE AloneStep(t)
    <2>1. Bind(t)
        BY <1>1, <1>3 DEF AloneStep, BeginLogin, BeginVisit, BeginLogout, Accepted,
           Rejected, ReadAttempts, CountAttempt, AttemptLost, PassAntiSpoofing,
           PassValidation, Refused, Register, CloseFails
    <2>2. pc'[t] = "bound" /\ req'[t] = req[t]
        BY <2>1 DEF Bind, Go, FInv, SShapes, Shapes, RequestsOK
    <2> QED BY <1>1, <2>2 DEF LoggingIn
<1>4. CASE SendToken(t)
    BY <1>1, <1>4, TokenIsAsked
<1>5. ~(SendClose(t) \/ Answered(t) \/ TimedOut(t))
    BY <1>1 DEF SendClose, CloseSession, Answered, TimedOut, LoggedIn, LoggedOut
<1> QED BY <1>2, <1>3, <1>4, <1>5

LEMMA PortalServes ==
    ASSUME OneRequest, FInv, PortalStep
    PROVE  AllServed'
<1>1. SUFFICES ASSUME NEW r \in rows' PROVE Served(r)'
    BY DEF AllServed
<1>2. CASE r \notin rows
    <2>1. LoggingIn(r)'
        BY <1>1, <1>2, NewRow, PortalIsLoginStep DEF FInv, Seen
    <2> QED BY <2>1 DEF Served
<1>3. CASE r \in rows
    <2>1. Served(r)
        BY <1>3 DEF FInv, AllServed
    <2>2. CASE r.mac \in trouble
        <3>1. \/ r.mac \in trouble'
              \/ \E t \in Threads : SendToken(t) /\ r.mac = req[t].host.mac
            BY <2>2, PortalSpares
        <3>2. r.mac \in trouble' \/ TokenAsked(r)'
            BY <1>3, <3>1, TokenIsAsked
        <3> QED BY <3>2 DEF Served
    <2>3. CASE Taken(r.mac)
        <3>1. ASSUME NEW t \in Threads, NEW q \in rows,
                     CloseSession(t), req[t].sid = q.id, q.mac = r.mac
              PROVE  FALSE
            <4>1. q = r
                BY <1>3, <3>1 DEF FInv, Seen, Shapes, TablesOK
            <4> QED BY <1>1, <3>1, <4>1 DEF CloseSession
        <3>2. Taken(r.mac)'
            BY <2>3, <3>1, TakenPasses, PortalIsLoginStep DEF FInv
        <3> QED BY <3>2 DEF Served
    <2>4. CASE GateOf(r) \in flows
        <3>1. (GateOf(r) \in flows)'
            BY <2>4, PortalSpares DEF GateOf, HostAt
        <3> QED BY <3>1 DEF Served
    <2>5. CASE LoggingIn(r) \/ TokenAsked(r)
        <3>1. LoggingIn(r)' \/ TokenAsked(r)'
            BY <1>3, <2>5, LoginGoesOn, PortalHolds
        <3> QED BY <3>1 DEF Served
    <2>6. CASE \E j \in Jobs : Starts(r, j) \/ Drops(r.mac, j)
        BY <2>6, PortalHolds DEF Served
    <2> QED BY <2>1, <2>2, <2>3, <2>4, <2>5, <2>6 DEF Served
<1> QED BY <1>2, <1>3

-----------------------------------------------------------------------------
LEMMA FInvImplies == FInv => NoOrphanFlow /\ SessionsServed
<1> SUFFICES ASSUME FInv PROVE NoOrphanFlow /\ SessionsServed
    OBVIOUS
<1>1. \A mac : Taken(mac) => Excused(mac)
    BY DEF Taken, Excused
<1>2. ASSUME NEW j \in Jobs, NEW id \in doomed[j], ~Sweeping(j) PROVE InWork(MacOf(id))
    <2>1. jpc[j] # "idle"
        BY <1>2, Fitting, FitsFacts DEF FInv
    <2>2. MacOf(id) = Mac(j)
        BY <1>2, Fitting DEF FInv, Fits, Sweeping, Mac
    <2> QED BY <1>2, <2>1, <2>2 DEF InWork
<1>3. NoOrphanFlow
    <2>1. SUFFICES ASSUME NEW f \in flows
                   PROVE  \/ \E r \in RowOf(HostOf(f.id)) : r.user = f.user
                          \/ InWork(MacOf(f.id)) \/ Excused(MacOf(f.id))
                          \/ f.id[1] = "permit" /\ f.id \in forgotten
        BY DEF NoOrphanFlow
    <2>2. Cause(f)
        BY DEF FInv, AllCaused
    <2>3. ASSUME NEW j \in Jobs, Closing(MacOf(f.id), j) PROVE InWork(MacOf(f.id))
        BY <2>3 DEF Closing, InWork, Sweeping
    <2>4. ASSUME NEW j \in Jobs, Dying(f.id, j) PROVE InWork(MacOf(f.id))
        BY <1>2, <2>4 DEF Dying
    <2>5. CloseAsked(MacOf(f.id)) => InWork(MacOf(f.id))
        BY DEF CloseAsked, InWork
    <2>6. MacOf(f.id) \in trouble => Excused(MacOf(f.id))
        BY DEF Excused
    <2> QED BY <1>1, <2>2, <2>3, <2>4, <2>5, <2>6 DEF Cause, Old
<1>4. SessionsServed
    <2>1. SUFFICES ASSUME NEW r \in rows
                   PROVE  \/ \E f \in flows : HostOf(f.id) \in Hosts /\ f.id[1] = "gate"
                                                /\ r \in RowOf(HostOf(f.id)) /\ f.user = r.user
                          \/ InWork(r.mac) \/ Excused(r.mac) \/ LoggingIn(r)
        BY DEF SessionsServed, LoggingIn
    <2>2. Served(r)
        BY DEF FInv, AllServed
    <2>3. ASSUME GateOf(r) \in flows
          PROVE  \E f \in flows : HostOf(f.id) \in Hosts /\ f.id[1] = "gate"
                                    /\ r \in RowOf(HostOf(f.id)) /\ f.user = r.user
        <3>1. PICK f \in flows : f = GateOf(r)
            BY <2>3
        <3>2. f.id = Gate(HostAt(r)) /\ f.user = r.user /\ f.id \in Flows
            BY <3>1 DEF GateOf, FInv, SShapes, FlowsOK
        <3>3. HostOf(f.id) = HostAt(r) /\ f.id[1] = "gate" /\ HostOf(f.id) \in Hosts
            BY <3>2, FlowFacts DEF Gate, HostOf
        <3>4. r \in RowOf(HostAt(r))
            BY DEF RowOf, HostAt
        <3> QED BY <3>2, <3>3, <3>4
    <2>4. ASSUME NEW j \in Jobs, Starts(r, j) PROVE InWork(r.mac)
        <3>1. job[j].kind = "token" /\ jpc[j] # "idle" /\ Mac(j) = r.mac
            BY <2>4, Fitting, FitsFacts DEF FInv, Starts, HostAt, Mac
        <3> QED BY <3>1 DEF InWork, Sweeping
    <2>5. ASSUME NEW j \in Jobs, Drops(r.mac, j) PROVE InWork(r.mac)
        BY <1>2, <2>5 DEF Drops
    <2>6. TokenAsked(r) => InWork(r.mac)
        BY DEF TokenAsked, InWork, HostAt
    <2>7. r.mac \in trouble => Excused(r.mac)
        BY DEF Excused
    <2> QED BY <1>1, <2>2, <2>3, <2>4, <2>5, <2>6, <2>7 DEF Served
<1> QED BY <1>3, <1>4

-----------------------------------------------------------------------------
LEMMA CallsOfM6 ==
    ASSUME \/ \E c \in calls : Lost(c) \/ \E j \in Jobs : Accept(j, c)
           \/ \E j \in Jobs : TokenStep(j) \/ CloseStep(j) \/ SweepStep(j)
           \/ \E j \in Jobs : BeginSweep(j) \/ Restart(j)
           \/ FlowTimesOut
    PROVE  /\ UNCHANGED <<rows, pc, req>> /\ trouble \subseteq trouble'
           /\ \A c \in calls' : c \in calls \/ c.kind = "expired"
<1>1. ASSUME NEW f, Remove(f) PROVE \A c \in calls' : c \in calls \/ c.kind = "expired"
    BY <1>1 DEF Remove, Reported
<1>2. ASSUME NEW j \in Jobs, TokenStep(j)
      PROVE  UNCHANGED <<rows, pc, req, calls>> /\ trouble \subseteq trouble'
    BY <1>2 DEF TokenStep, CheckGate, InstallGate, CacheGate, SetGate, InstallPermit,
       CachePermit, SkipPermit, InstallFails, loginVars, tables, NoFault, Fault, history6
<1>3. ASSUME NEW j \in Jobs, Lookup(j) \/ Pop(j) \/ DeleteFails(j) \/ Closed(j)
      PROVE  UNCHANGED <<rows, pc, req, calls>> /\ trouble \subseteq trouble'
    BY <1>3 DEF Lookup, Pop, DeleteFails, Closed, loginVars, tables, Fault, Trouble, history6
<1>4. ASSUME NEW j \in Jobs, Delete(j)
      PROVE  /\ UNCHANGED <<rows, pc, req>> /\ trouble \subseteq trouble'
             /\ \A c \in calls' : c \in calls \/ c.kind = "expired"
    BY <1>1, <1>4 DEF Delete, loginVars, tables, Trouble
<1>5. ASSUME NEW j \in Jobs, SweepStep(j) \/ BeginSweep(j) \/ Restart(j)
      PROVE  UNCHANGED <<rows, pc, req, calls>> /\ trouble \subseteq trouble'
    BY <1>5 DEF SweepStep, ReadActive, Scan, PopStale, BeginSweep, Restart, loginVars, tables,
       NoFault, Fault, Trouble, history6
<1>6. ASSUME NEW c \in calls, Lost(c) \/ \E j \in Jobs : Accept(j, c)
      PROVE  UNCHANGED <<rows, pc, req>> /\ trouble \subseteq trouble' /\ calls' \subseteq calls
    BY <1>6 DEF Lost, Accept, loginVars, tables, Fault, history6
<1>7. CASE FlowTimesOut
    BY <1>1, <1>7 DEF FlowTimesOut, loginVars, tables, NoFault, Fault
<1> QED BY <1>2, <1>3, <1>4, <1>5, <1>6, <1>7 DEF CloseStep

\* A handler keeps its call until it has ended.
LEMMA JobsOfM6 ==
    ASSUME SShapes, JobsFit,
           \/ \E c \in calls : Lost(c) \/ \E j \in Jobs : Accept(j, c)
           \/ \E j \in Jobs : TokenStep(j) \/ CloseStep(j) \/ SweepStep(j)
           \/ \E j \in Jobs : BeginSweep(j) \/ Restart(j)
           \/ FlowTimesOut
    PROVE  \A k \in Jobs : jpc'[k] # "idle" =>
               \/ jpc[k] # "idle" /\ job'[k] = job[k]
               \/ job'[k] \in calls \/ job'[k].kind \in {"sweep", "boot"}
<1>1. SUFFICES ASSUME NEW k \in Jobs, jpc'[k] # "idle"
               PROVE  \/ jpc[k] # "idle" /\ job'[k] = job[k]
                      \/ job'[k] \in calls \/ job'[k].kind \in {"sweep", "boot"}
    OBVIOUS
<1>2. CASE FlowTimesOut \/ \E c \in calls : Lost(c)
    BY <1>1, <1>2 DEF FlowTimesOut, Lost, jobs
<1>3. ASSUME NEW j \in Jobs, TokenStep(j) \/ CloseStep(j) \/ SweepStep(j)
      PROVE  jpc[k] # "idle" /\ job'[k] = job[k]
    <2>1. Alone(j)
        BY <1>3, TokenMoves, CloseMoves, SweepMoves
    <2>2. jpc[j] # "idle"
        <3>1. CASE TokenStep(j)
            BY <3>1 DEF TokenStep, CheckGate, InstallGate, CacheGate, SetGate, InstallPermit,
                        CachePermit, SkipPermit, InstallFails
        <3> QED BY <1>3, <3>1, CloseMoves, SweepMoves
    <2>3. jpc'[j] # "idle" => job'[j] = job[j]
        BY <1>3, TokenMoves, CloseMoves, SweepMoves
    <2> QED BY <1>1, <2>1, <2>2, <2>3 DEF Alone
<1>4. ASSUME NEW j \in Jobs, NEW c \in calls, Accept(j, c)
      PROVE  (jpc[k] # "idle" /\ job'[k] = job[k]) \/ job'[k] \in calls
    BY <1>1, <1>4 DEF Accept, GoTo, SShapes, PlacesOK, JobOK
<1>5. ASSUME NEW j \in Jobs, BeginSweep(j)
      PROVE  (jpc[k] # "idle" /\ job'[k] = job[k]) \/ job'[k].kind = "sweep"
    <2>1. [NoCall EXCEPT !.kind = "sweep"].kind = "sweep"
        BY NoCallFact DEF Call
    <2> QED BY <1>1, <1>5, <2>1 DEF BeginSweep, GoTo, SShapes, PlacesOK, JobOK
<1>6. ASSUME NEW j \in Jobs, Restart(j) PROVE job'[k].kind = "boot"
    <2>1. [NoCall EXCEPT !.kind = "boot"].kind = "boot"
        BY NoCallFact DEF Call
    <2> QED BY <1>1, <1>6, <2>1 DEF Restart
<1> QED BY <1>2, <1>3, <1>4, <1>5, <1>6

LEMMA FInvStep == OneRequest /\ FInv /\ Seen' /\ [Next]_vars => FInv'
<1> SUFFICES ASSUME OneRequest, FInv, Seen', [Next]_vars PROVE FInv'
    OBVIOUS
<1>a. SShapes /\ Seen /\ Shapes /\ OwnRows /\ JobsFit /\ AllWaited
    BY DEF FInv, Seen
<1>1. SShapes'
    BY <1>a, SShapesStep
<1>2. CASE UNCHANGED vars
    <2>1. /\ UNCHANGED <<rows, excused, pc, req, calls, flows, cache, jpc, job, doomed>>
          /\ UNCHANGED <<trouble, forgotten>>
        BY <1>2 DEF vars, loginVars, tables, history, sessionVars, m6, jobs, history6
    <2>2. OwnRows' /\ JobsFit' /\ AllWaited'
        BY <1>a, <2>1 DEF OwnRows, HostAt, Id, JobsFit, Fits, AllWaited, Waited, Waits
    <2>3. AllCaused' /\ AllKnown' /\ AllServed'
        <3>1. /\ jpc' = jpc /\ job' = job /\ doomed' = doomed /\ UNCHANGED loginVars
              /\ trouble \subseteq trouble' /\ forgotten \subseteq forgotten'
              /\ cache \subseteq cache'
            BY <1>2, <2>1 DEF vars
        <3>2. /\ \A f : Cause(f) => Cause(f)'
              /\ \A f : Known(f) => Known(f)'
              /\ \A r : Served(r) => Served(r)'
            BY <2>1, <3>1, QuietLosses
        <3> QED BY <2>1, <3>2 DEF FInv, AllCaused, AllKnown, AllServed
    <2> QED BY <1>1, <2>2, <2>3 DEF FInv
<1>3. CASE PortalStep
    <2>1. OwnRows'
        BY <1>a, <1>3, PortalIsLoginStep, OwnRowsStep
    <2>2. JobsFit' /\ AllWaited'
        BY <1>a, <1>3, OtherFits, WaitedAtM1
    <2>3. AllCaused' /\ AllKnown' /\ AllServed'
        BY <1>3, PortalFlows, PortalServes
    <2> QED BY <1>1, <2>1, <2>2, <2>3 DEF FInv
<1>4. CASE \/ \E c \in calls : Lost(c) \/ \E j \in Jobs : Accept(j, c)
           \/ \E j \in Jobs : TokenStep(j) \/ CloseStep(j) \/ SweepStep(j)
           \/ \E j \in Jobs : BeginSweep(j) \/ Restart(j)
           \/ FlowTimesOut
    <2>1. OwnRows'
        <3>1. UNCHANGED <<rows, pc, req>>
            BY <1>4, CallsOfM6
        <3> QED BY <1>a, <3>1 DEF OwnRows, HostAt, Id
    <2>2. JobsFit'
        BY <1>a, <1>4, TokenMoves, CloseMoves, SweepMoves, BeginMoves, OtherFits
    <2>3. AllWaited'
        BY <1>a, <1>4, CallsOfM6, JobsOfM6, WaitedInM6
    <2>4. AllCaused' /\ AllKnown' /\ AllServed'
        BY <1>4, LostKeeps, BeginKeeps, TokenKeeps, CloseKeeps, SweepKeeps, RestartKeeps,
           TimeOutKeeps
    <2> QED BY <1>1, <2>1, <2>2, <2>3, <2>4 DEF FInv
<1> QED BY <1>2, <1>3, <1>4 DEF Next

LEMMA FInvInit == Init /\ Seen => FInv
<1> SUFFICES ASSUME Init, Seen PROVE FInv
    OBVIOUS
<1>1. SShapes
    BY SShapesInit
<1>2. OwnRows
    BY DEF Init, LoginInit, OwnRows
<1>3. JobsFit
    <2>1. NoCall.kind = "close" /\ NoCall \in Call
        BY NoCallFact
    <2>2. \A j \in Jobs : Fits("idle", NoCall, {})
        BY <2>1, FitsWhen
    <2> QED BY <2>1, <2>2 DEF Init, JobsFit
<1>4. AllWaited /\ AllCaused /\ AllKnown /\ AllServed
    BY DEF Init, LoginInit, AllWaited, AllCaused, AllKnown, AllServed
<1> QED BY <1>1, <1>2, <1>3, <1>4 DEF FInv

LEMMA FInvHolds == OneRequest => (Spec => []FInv)
<1>1. Spec => []Seen
    BY LoginsImplemented, SeenHolds, PTL
<1> SUFFICES ASSUME OneRequest PROVE Spec => []FInv
    OBVIOUS
<1>2. Init /\ Seen => FInv
    BY FInvInit
<1>3. FInv /\ Seen' /\ [Next]_vars => FInv'
    BY FInvStep
<1> QED BY <1>1, <1>2, <1>3, PTL DEF Spec

\* Handled one at a time at M1, requests leave no flow without a session, however
\* many handlers M6 has and whatever is lost, late or restarted: if a flow has none,
\* M6 is about to deal with its MAC, or something has gone wrong with it
\* (m6_traductor.py:2000-2008, 3206-3240).  Two requests at once break it: the close
\* request of one may overtake the token of the other.
THEOREM NoOrphanFlowHolds ==
    ASSUME OneRequest
    PROVE  Spec => []NoOrphanFlow
<1>1. Spec => []FInv
    BY FInvHolds
<1> QED BY <1>1, FInvImplies, PTL

\* And they leave no session without its gate, with the VLAN of its user, once the
\* login has been answered (m6_traductor.py:2036-2068, 3287-3388).
THEOREM SessionsServedHolds ==
    ASSUME OneRequest
    PROVE  Spec => []SessionsServed
<1>1. Spec => []FInv
    BY FInvHolds
<1> QED BY <1>1, FInvImplies, PTL

=============================================================================
