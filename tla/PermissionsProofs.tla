--------------------------- MODULE PermissionsProofs ---------------------------
(***************************************************************************)
(* Theorems about Permissions, for any careers, rows written by hand,      *)
(* dates, number of threads, applications and failures.                    *)
(***************************************************************************)
EXTENDS Permissions, FiniteSetTheorems, TLAPS

\* The rows an operator writes by hand are denials, one of a resource at most.
DenialsByHand == \A x, y \in ByHand : ~x.allow /\ (x.res = y.res => x = y)

Busy(t) == calls[t].step # "idle"

-----------------------------------------------------------------------------
(* Type correctness                                                          *)

\* A call that is not over has a request, and what it works on is one of them.
CallsNamed ==
    /\ \A t \in Applicants : calls[t].step \in {"idle", "insert"}
    /\ \A t \in Admins : Busy(t) =>
          /\ calls[t].request \in Ids /\ calls[t].target \in Ids
          /\ calls[t].action \in DOMAIN Outcome
          /\ calls[t].step # "insert"

\* A row that an application wrote names it.
RowsNamed == \A x \in rows : x.by \in Ids \cup {NoRequest}

TInv == TypeOK /\ CallsNamed /\ RowsNamed

LEMMA TypeInit == Init => TInv
<1> SUFFICES ASSUME Init PROVE TInv
    OBVIOUS
<1>1. Idle \in Call
    BY DEF Idle, Call, Steps, NoRequest
<1>2. Nothing \in Permission
    BY PermissionsAssumption DEF Nothing, Permission, Resources, Never
<1>3. ByHand \subseteq Row
    BY PermissionsAssumption DEF Row, NoRequest
<1>4. calls \in [Applicants \cup Admins -> Call]
    BY <1>1 DEF Init
<1>5. 0 \in 0..MaxTime /\ 0 \in 0..Faults
    BY PermissionsAssumption
<1>6. requests \in Seq([career : Careers, state : {"RECHAZADA", "REVOCADA"} \cup Live])
    BY DEF Init
<1>7. opa \in [resources : BOOLEAN, exceptions : SUBSET Exception]
    BY DEF Init
<1>8. TypeOK
    BY <1>2, <1>3, <1>4, <1>5, <1>6, <1>7 DEF Init, TypeOK
<1>9. CallsNamed
    BY DEF Init, CallsNamed, Busy, Idle
<1>10. RowsNamed
    BY PermissionsAssumption DEF Init, RowsNamed
<1> QED BY <1>8, <1>9, <1>10 DEF TInv

\* A thread's step replaces its own call.
LEMMA StepFact ==
    ASSUME TInv, NEW t \in Applicants \cup Admins, NEW c \in Call, Step(t, c)
    PROVE  /\ calls' \in [Applicants \cup Admins -> Call]
           /\ calls'[t] = c
           /\ \A u \in Applicants \cup Admins : u # t => calls'[u] = calls[u]
BY DEF TInv, TypeOK, Step

LEMMA ApplicantStep ==
    ASSUME TInv, NEW t \in Applicants, NEW c \in Call, Step(t, c),
           c.step \in {"idle", "insert"}, Ids \subseteq Ids'
    PROVE  CallsNamed'
<1>1. /\ calls'[t] = c
      /\ \A u \in Applicants \cup Admins : u # t => calls'[u] = calls[u]
    BY StepFact
<1>2. t \notin Admins
    BY PermissionsAssumption
<1> QED BY <1>1, <1>2 DEF TInv, CallsNamed, Busy

LEMMA AdminStep ==
    ASSUME TInv, NEW t \in Admins, NEW c \in Call, Step(t, c), Ids \subseteq Ids',
           \/ c.step = "idle"
           \/ /\ c.request \in Ids /\ c.target \in Ids
              /\ c.action \in DOMAIN Outcome /\ c.step # "insert"
    PROVE  CallsNamed'
<1>1. /\ calls'[t] = c
      /\ \A u \in Applicants \cup Admins : u # t => calls'[u] = calls[u]
    BY StepFact
<1>2. t \notin Applicants
    BY PermissionsAssumption
<1> QED BY <1>1, <1>2 DEF TInv, CallsNamed, Busy

LEMMA IdleFact == Idle \in Call /\ Idle.step = "idle"
BY DEF Idle, Call, Steps, NoRequest

\* Applications at work are applications.
LEMMA ResolvingFact == ASSUME TInv PROVE Resolving \subseteq Ids
BY DEF TInv, CallsNamed, Resolving, Busy

LEMMA RequestFact ==
    ASSUME TInv, NEW r \in Ids
    PROVE  /\ r \in Nat /\ requests[r].career \in Careers
           /\ requests[r] = [career |-> requests[r].career, state |-> requests[r].state]
           /\ requests[r].state \in {"PENDIENTE", "APROBADA", "RECHAZADA", "REVOCADA"}
<1> DEFINE R == [career : Careers, state : {"RECHAZADA", "REVOCADA"} \cup Live]
<1>1. requests \in Seq(R) /\ r \in 1..Len(requests)
    BY DEF TInv, TypeOK, Ids
<1> HIDE DEF R
<1>2. requests[r] \in R /\ r \in Nat
    BY <1>1
<1> QED BY <1>2 DEF R, Live

LEMMA FaultFact == ASSUME TInv, Fault \/ UNCHANGED faults PROVE faults' \in 0..Faults
BY PermissionsAssumption DEF TInv, TypeOK, Fault

\* An administrator's call in progress.
LEMMA CallFact ==
    ASSUME TInv, NEW t \in Admins, Busy(t)
    PROVE  /\ calls[t] \in Call
           /\ calls[t].request \in Ids /\ calls[t].target \in Ids
           /\ calls[t].action \in {"APROBAR", "RECHAZAR", "REVOCAR"}
           /\ requests[calls[t].request].career \in Careers
           /\ requests[calls[t].target].career \in Careers
<1>1. /\ calls[t] \in Call /\ calls[t].request \in Ids /\ calls[t].target \in Ids
      /\ calls[t].action \in {"APROBAR", "RECHAZAR", "REVOCAR"}
    BY DEF TInv, TypeOK, CallsNamed, Outcome
<1> QED BY <1>1, RequestFact

LEMMA ResourcesFact ==
    ASSUME NEW k \in Careers PROVE ResourcesFor(k) \subseteq Resources
BY DEF ResourcesFor, Resources, Courses

LEMMA AskType == ASSUME TInv, NEW t \in Applicants, Ask(t) PROVE TInv'
<1> DEFINE c == [Idle EXCEPT !.step = "insert"]
<1>1. c \in Call /\ c.step = "insert"
    BY DEF Idle, Call, Steps, NoRequest
<1>2. Step(t, c)
    BY DEF Ask
<1>3. faults' \in 0..Faults /\ overlapped' \in BOOLEAN
    BY FaultFact DEF Ask, TInv, TypeOK
<1> HIDE DEF c
<1>4. CallsNamed'
    BY <1>1, <1>2, ApplicantStep DEF Ask, Ids
<1>5. calls' \in [Applicants \cup Admins -> Call]
    BY <1>1, <1>2, StepFact
<1>6. UNCHANGED <<requests, rows, loggedIn, opa, packet, flows, now, disturbed>>
    BY DEF Ask, network
<1>7. TypeOK'
    BY <1>3, <1>5, <1>6 DEF TInv, TypeOK, Ids
<1>8. RowsNamed'
    BY <1>6 DEF TInv, RowsNamed, Ids
<1> QED BY <1>4, <1>7, <1>8 DEF TInv

\* The list of applications with a new one at its end.
LEMMA InsertFact ==
    ASSUME TInv, NEW t \in Applicants, NEW k \in Careers, Insert(t, k)
    PROVE  /\ requests' \in Seq([career : Careers,
                                 state : {"RECHAZADA", "REVOCADA"} \cup Live])
           /\ Len(requests) \in Nat /\ Len(requests') = Len(requests) + 1
           /\ Ids' = Ids \cup {Len(requests) + 1} /\ Len(requests) + 1 \notin Ids
           /\ \A r \in Ids : requests'[r] = requests[r]
           /\ requests'[Len(requests) + 1] = [career |-> k, state |-> "PENDIENTE"]
<1> DEFINE e == [career |-> k, state |-> "PENDIENTE"]
           R == [career : Careers, state : {"RECHAZADA", "REVOCADA"} \cup Live]
<1>1. e \in R
    BY DEF Live
<1>2. requests \in Seq(R) /\ requests' = Append(requests, e)
    BY DEF TInv, TypeOK, Insert
<1> HIDE DEF e, R
<1>3. /\ requests' \in Seq(R) /\ Len(requests) \in Nat
      /\ Len(requests') = Len(requests) + 1
      /\ \A r \in 1..Len(requests) : requests'[r] = requests[r]
      /\ requests'[Len(requests) + 1] = e
    BY <1>1, <1>2
<1>4. 1..(Len(requests) + 1) = 1..Len(requests) \cup {Len(requests) + 1}
    BY <1>3
<1>5. Len(requests) + 1 \notin 1..Len(requests)
    BY <1>3
<1> QED BY <1>3, <1>4, <1>5 DEF Ids, e, R

LEMMA InsertType ==
    ASSUME TInv, NEW t \in Applicants, NEW k \in Careers, Insert(t, k) PROVE TInv'
<1>1. Ids \subseteq Ids' /\ Len(requests) + 1 \in Ids'
    BY InsertFact
<1>2. Step(t, Idle)
    BY DEF Insert
<1>3. CallsNamed'
    BY <1>1, <1>2, IdleFact, ApplicantStep
<1>4. calls' \in [Applicants \cup Admins -> Call]
    BY <1>2, IdleFact, StepFact
<1>5. disturbed' \subseteq Ids'
    BY <1>1 DEF Insert, LiveIds, TInv, TypeOK
<1>6. UNCHANGED <<rows, loggedIn, opa, packet, flows, now, faults, overlapped>>
    BY DEF Insert, network
<1>7. TypeOK'
    BY <1>4, <1>5, <1>6, InsertFact DEF TInv, TypeOK
<1>8. RowsNamed'
    BY <1>1, <1>6 DEF TInv, RowsNamed
<1> QED BY <1>3, <1>7, <1>8 DEF TInv

LEMMA ReadType ==
    ASSUME TInv, NEW t \in Admins, NEW r \in Ids, NEW a \in DOMAIN Outcome,
           Read(t, r, a)
    PROVE  TInv'
<1> DEFINE c == [Idle EXCEPT !.request = r, !.action = a, !.target = r,
                    !.step = CASE a = "APROBAR"  -> "previous"
                               [] a = "RECHAZAR" -> "mark"
                               [] a = "REVOCAR"  -> "drop"]
<1>1. a \in {"APROBAR", "RECHAZAR", "REVOCAR"} /\ r \in Nat
    BY DEF Outcome, Ids
<1>2. c \in Call /\ c.request = r /\ c.target = r /\ c.action = a /\ c.step # "insert"
    BY <1>1 DEF Idle, Call, Steps, NoRequest, Outcome
<1>3. Step(t, c)
    BY DEF Read
<1> HIDE DEF c
<1>4. CallsNamed'
    BY <1>2, <1>3, AdminStep DEF Read, Ids
<1>5. calls' \in [Applicants \cup Admins -> Call]
    BY <1>2, <1>3, StepFact
<1>6. UNCHANGED <<requests, rows, loggedIn, opa, packet, flows, now, faults>>
    BY DEF Read, network
<1>7. disturbed' \subseteq Ids /\ overlapped' \in BOOLEAN
    BY ResolvingFact DEF Read, TInv, TypeOK
<1>8. TypeOK'
    BY <1>5, <1>6, <1>7 DEF TInv, TypeOK, Ids
<1>9. RowsNamed'
    BY <1>6 DEF TInv, RowsNamed, Ids
<1> QED BY <1>4, <1>8, <1>9 DEF TInv

\* What Previous does to the call.
LEMMA PreviousFact ==
    ASSUME TInv, NEW t \in Admins, Previous(t)
    PROVE  /\ Busy(t) /\ calls[t].step = "previous"
           /\ UNCHANGED <<requests, rows, loggedIn, opa, packet, flows, now, overlapped>>
           /\ faults' \in 0..Faults
           /\ \/ /\ Step(t, [calls[t] EXCEPT !.step = "grant"])
                 /\ UNCHANGED disturbed
              \/ \E p \in LiveIds :
                    /\ p # calls[t].request /\ requests[p].state = "APROBADA"
                    /\ Step(t, [calls[t] EXCEPT !.step = "drop", !.target = p])
                    /\ disturbed' = disturbed \cup {p}
<1>1. Busy(t) /\ calls[t].step = "previous"
    BY DEF Previous, Busy
<1>2. UNCHANGED <<requests, rows, loggedIn, opa, packet, flows, now, overlapped>>
    BY DEF Previous, network
<1>3. faults' \in 0..Faults
    BY FaultFact DEF Previous
<1> QED BY <1>1, <1>2, <1>3 DEF Previous, Blocking

LEMMA PreviousType == ASSUME TInv, NEW t \in Admins, Previous(t) PROVE TInv'
<1>1. /\ calls[t] \in Call /\ Busy(t)
      /\ calls[t].request \in Ids /\ calls[t].target \in Ids
      /\ calls[t].action \in DOMAIN Outcome
      /\ UNCHANGED <<requests, rows, loggedIn, opa, packet, flows, now, overlapped>>
      /\ faults' \in 0..Faults
    BY PreviousFact DEF TInv, TypeOK, CallsNamed
<1>2. CallsNamed' /\ calls' \in [Applicants \cup Admins -> Call] /\ disturbed' \subseteq Ids
    <2>1. CASE /\ Step(t, [calls[t] EXCEPT !.step = "grant"])
               /\ UNCHANGED disturbed
        <3> DEFINE c == [calls[t] EXCEPT !.step = "grant"]
        <3>1. /\ c \in Call /\ c.request = calls[t].request /\ c.target = calls[t].target
              /\ c.action = calls[t].action /\ c.step = "grant"
            BY <1>1 DEF Call, Steps
        <3> HIDE DEF c
        <3>2. Step(t, c)
            BY <2>1 DEF c
        <3> QED BY <1>1, <2>1, <3>1, <3>2, StepFact, AdminStep DEF Ids, TInv, TypeOK
    <2>2. ASSUME NEW p \in LiveIds, disturbed' = disturbed \cup {p},
                 Step(t, [calls[t] EXCEPT !.step = "drop", !.target = p])
          PROVE  /\ CallsNamed' /\ calls' \in [Applicants \cup Admins -> Call]
                 /\ disturbed' \subseteq Ids
        <3> DEFINE c == [calls[t] EXCEPT !.step = "drop", !.target = p]
        <3>1. p \in Ids /\ p \in Nat
            BY DEF LiveIds, Ids
        <3>2. /\ c \in Call /\ c.request = calls[t].request /\ c.target = p
              /\ c.action = calls[t].action /\ c.step = "drop"
            BY <1>1, <3>1 DEF Call, Steps
        <3> HIDE DEF c
        <3>3. Step(t, c)
            BY <2>2 DEF c
        <3> QED BY <1>1, <2>2, <3>1, <3>2, <3>3, StepFact, AdminStep
                DEF Ids, TInv, TypeOK
    <2> QED BY <2>1, <2>2, PreviousFact
<1>3. TypeOK'
    BY <1>1, <1>2 DEF TInv, TypeOK, Ids
<1>4. RowsNamed'
    BY <1>1 DEF TInv, RowsNamed, Ids
<1> QED BY <1>2, <1>3, <1>4 DEF TInv

\* The other steps of a resolution change the call's step and its target at most.
LEMMA DropType == ASSUME TInv, NEW t \in Admins, Drop(t) PROVE TInv'
<1> DEFINE c == [calls[t] EXCEPT !.step = "mark"]
<1>1. Busy(t)
    BY DEF Drop, Busy
<1>2. /\ c \in Call /\ c.request = calls[t].request /\ c.target = calls[t].target
      /\ c.action = calls[t].action /\ c.step = "mark"
    BY <1>1, CallFact DEF Call, Steps
<1>3. Step(t, c)
    BY DEF Drop
<1> HIDE DEF c
<1>4. CallsNamed' /\ calls' \in [Applicants \cup Admins -> Call]
    BY <1>1, <1>2, <1>3, CallFact, StepFact, AdminStep DEF Drop, Ids, TInv, CallsNamed
<1>5. rows' \subseteq rows
    BY DEF Drop
<1>6. faults' \in 0..Faults
    BY FaultFact DEF Drop
<1>7. disturbed' \subseteq Ids
    BY <1>1, CallFact DEF Drop, TInv, TypeOK
<1>8. UNCHANGED <<requests, loggedIn, opa, packet, flows, now, overlapped>>
    BY DEF Drop, network
<1>9. TypeOK'
    BY <1>4, <1>5, <1>6, <1>7, <1>8 DEF TInv, TypeOK, Ids
<1>10. RowsNamed'
    BY <1>5, <1>8 DEF TInv, RowsNamed, Ids
<1> QED BY <1>4, <1>9, <1>10 DEF TInv

\* The rows an approval adds name its application.
LEMMA GrantRows ==
    ASSUME TInv, NEW t \in Admins, NEW e \in Expirations, Grant(t, e)
    PROVE  /\ Busy(t)
           /\ \E R \in SUBSET Resources :
                 /\ rows' = rows \cup {[res |-> x, allow |-> TRUE, expires |-> e,
                                        by |-> calls[t].request] : x \in R}
                 /\ \/ /\ R = ResourcesFor(requests[calls[t].request].career)
                       /\ UNCHANGED <<faults, disturbed>>
                    \/ /\ R = {Grades} /\ Fault
                       /\ disturbed' = disturbed \cup {calls[t].request}
<1>1. Busy(t)
    BY DEF Grant, Busy
<1>2. ResourcesFor(requests[calls[t].request].career) \subseteq Resources
    BY <1>1, CallFact, ResourcesFact
<1>3. {Grades} \subseteq Resources
    BY DEF Resources
<1> QED BY <1>1, <1>2, <1>3 DEF Grant

LEMMA GrantType ==
    ASSUME TInv, NEW t \in Admins, NEW e \in Expirations, Grant(t, e) PROVE TInv'
<1> DEFINE c == [calls[t] EXCEPT !.step = "mark", !.target = calls[t].request]
<1>1. Busy(t)
    BY GrantRows
<1>2. /\ c \in Call /\ c.request = calls[t].request /\ c.target = calls[t].request
      /\ c.action = calls[t].action /\ c.step = "mark"
    BY <1>1, CallFact DEF Call, Steps
<1>3. Step(t, c)
    BY DEF Grant
<1> HIDE DEF c
<1>4. CallsNamed' /\ calls' \in [Applicants \cup Admins -> Call]
    BY <1>1, <1>2, <1>3, CallFact, StepFact, AdminStep DEF Grant, Ids, TInv, CallsNamed
<1>5. PICK R \in SUBSET Resources :
         /\ rows' = rows \cup {[res |-> x, allow |-> TRUE, expires |-> e,
                                by |-> calls[t].request] : x \in R}
         /\ UNCHANGED <<faults, disturbed>>
            \/ (Fault /\ disturbed' = disturbed \cup {calls[t].request})
    BY GrantRows
<1>6. calls[t].request \in Ids /\ calls[t].request \in Nat /\ e \in Nat
    BY <1>1, CallFact, RequestFact, PermissionsAssumption
<1>7. \A x \in rows' : x \in rows \/ (x \in Row /\ x.by = calls[t].request)
    <2> SUFFICES ASSUME NEW x \in rows', x \notin rows
                 PROVE  x \in Row /\ x.by = calls[t].request
        OBVIOUS
    <2>1. PICK y \in R : x = [res |-> y, allow |-> TRUE, expires |-> e,
                              by |-> calls[t].request]
        BY <1>5
    <2> QED BY <1>6, <2>1 DEF Row
<1>8. rows' \subseteq Row
    BY <1>7 DEF TInv, TypeOK
<1>9. faults' \in 0..Faults
    BY <1>5, FaultFact
<1>10. disturbed' \subseteq Ids
    BY <1>5, <1>6 DEF TInv, TypeOK
<1>11. UNCHANGED <<requests, loggedIn, opa, packet, flows, now, overlapped>>
    BY DEF Grant, network
<1>12. TypeOK'
    BY <1>4, <1>8, <1>9, <1>10, <1>11 DEF TInv, TypeOK, Ids
<1>13. RowsNamed'
    BY <1>6, <1>7, <1>11 DEF TInv, RowsNamed, Ids
<1> QED BY <1>4, <1>12, <1>13 DEF TInv

\* The state a resolution writes, and the list of applications with it.
NewState(c) == IF c.target = c.request THEN Outcome[c.action] ELSE "REVOCADA"

LEMMA MarkFact ==
    ASSUME TInv, NEW t \in Admins, Mark(t)
    PROVE  /\ Busy(t) /\ calls[t].step = "mark"
           /\ requests' \in Seq([career : Careers,
                                 state : {"RECHAZADA", "REVOCADA"} \cup Live])
           /\ Len(requests') = Len(requests) /\ Ids' = Ids
           /\ \A r \in Ids : requests'[r].career = requests[r].career
           /\ \A r \in Ids : r # calls[t].target => requests'[r].state = requests[r].state
           /\ \/ /\ requests'[calls[t].target].state = NewState(calls[t])
                 /\ disturbed' = IF NewState(calls[t]) \in Live
                                    /\ LiveIds \ {calls[t].target} # {}
                                 THEN disturbed \cup LiveIds \cup {calls[t].target}
                                 ELSE disturbed
                 /\ UNCHANGED faults
              \/ /\ Fault /\ requests' = requests
                 /\ disturbed' = disturbed \cup {calls[t].target}
<1> DEFINE R == [career : Careers, state : {"RECHAZADA", "REVOCADA"} \cup Live]
           n == NewState(calls[t])
           g == calls[t].target
<1>1. Busy(t) /\ calls[t].step = "mark"
    BY DEF Mark, Busy
<1>2. n \in {"RECHAZADA", "REVOCADA"} \cup Live /\ g \in Ids
    BY <1>1, CallFact DEF NewState, Outcome, Live
<1>3. requests \in Seq(R)
    BY DEF TInv, TypeOK
<1>4. CASE /\ requests' = [requests EXCEPT ![g].state = n]
           /\ disturbed' = IF n \in Live /\ LiveIds \ {g} # {}
                           THEN disturbed \cup LiveIds \cup {g} ELSE disturbed
           /\ UNCHANGED faults
    <2>1. [requests[g] EXCEPT !.state = n] = [career |-> requests[g].career, state |-> n]
        <3>1. PICK k, s : requests[g] = [career |-> k, state |-> s]
            BY <1>2, RequestFact
        <3>2. requests[g].career = k
            BY <3>1
        <3> HIDE DEF n, g
        <3> QED BY <3>1, <3>2
    <2>2. [career |-> requests[g].career, state |-> n] \in R
        BY <1>2, RequestFact
    <2>3. requests' = [requests EXCEPT ![g] = [career |-> requests[g].career, state |-> n]]
        BY <1>4, <2>1
    <2> DEFINE e == [career |-> requests[g].career, state |-> n]
    <2>4. e.career = requests[g].career /\ e.state = n
        OBVIOUS
    <2> HIDE DEF R, e, n
    <2>5. /\ requests' \in Seq(R) /\ Len(requests') = Len(requests)
          /\ \A r \in 1..Len(requests) : requests'[r] = IF r = g THEN e ELSE requests[r]
        BY <1>2, <1>3, <2>2, <2>3 DEF Ids, e
    <2> QED BY <1>1, <1>2, <1>4, <2>4, <2>5 DEF Ids, R, n
<1>5. CASE Fault /\ requests' = requests /\ disturbed' = disturbed \cup {g}
    BY <1>1, <1>3, <1>5 DEF Ids
<1> QED BY <1>4, <1>5 DEF Mark, NewState

LEMMA MarkType == ASSUME TInv, NEW t \in Admins, Mark(t) PROVE TInv'
<1> DEFINE c == IF calls[t].target = calls[t].request THEN Idle
                ELSE [calls[t] EXCEPT !.step = "grant"]
<1>1. Busy(t) /\ Ids' = Ids
    BY MarkFact
<1>2. /\ c \in Call
      /\ \/ c.step = "idle"
         \/ /\ c.request = calls[t].request /\ c.target = calls[t].target
            /\ c.action = calls[t].action /\ c.step = "grant"
    BY <1>1, CallFact, IdleFact DEF Call, Steps
<1>3. Step(t, c)
    BY DEF Mark
<1> HIDE DEF c
<1>4. CallsNamed' /\ calls' \in [Applicants \cup Admins -> Call]
    BY <1>1, <1>2, <1>3, CallFact, StepFact, AdminStep DEF TInv, CallsNamed
<1>5. faults' \in 0..Faults
    BY FaultFact DEF Mark
<1>6. disturbed' \subseteq Ids
    BY <1>1, CallFact, MarkFact DEF TInv, TypeOK, LiveIds
<1>7. UNCHANGED <<rows, loggedIn, opa, packet, flows, now, overlapped>>
    BY DEF Mark, network
<1>8. TypeOK'
    BY <1>1, <1>4, <1>5, <1>6, <1>7, MarkFact DEF TInv, TypeOK
<1>9. RowsNamed'
    BY <1>1, <1>7 DEF TInv, RowsNamed
<1> QED BY <1>4, <1>8, <1>9 DEF TInv

LEMMA GiveUpType ==
    ASSUME TInv, NEW t \in Applicants \cup Admins, GiveUp(t) PROVE TInv'
<1>1. UNCHANGED <<requests, rows, loggedIn, opa, packet, flows, now, overlapped>>
    BY DEF GiveUp, network
<1>2. Step(t, Idle)
    BY DEF GiveUp
<1>3. CallsNamed' /\ calls' \in [Applicants \cup Admins -> Call]
    <2>1. Ids \subseteq Ids'
        BY <1>1 DEF Ids
    <2> QED BY <1>2, <2>1, IdleFact, StepFact, AdminStep, ApplicantStep
<1>4. disturbed' \subseteq Ids
    BY CallFact DEF GiveUp, TInv, TypeOK, CallsNamed, Busy
<1>5. faults' \in 0..Faults
    BY FaultFact DEF GiveUp
<1>6. TypeOK'
    BY <1>1, <1>3, <1>4, <1>5 DEF TInv, TypeOK, Ids
<1>7. RowsNamed'
    BY <1>1 DEF TInv, RowsNamed, Ids
<1> QED BY <1>3, <1>6, <1>7 DEF TInv

\* What permissions can be answered.
LEMMA PermitsFact == ASSUME TInv PROVE Permits \subseteq Permission
<1>1. \A x \in AllowMap : x.res \in Resources /\ x.expires \in Nat
    BY DEF TInv, TypeOK, AllowMap, Exception
<1>2. Rbac \subseteq Resources /\ Never \in Nat
    BY PermissionsAssumption DEF Rbac, Resources, Courses, Never
<1> QED BY <1>1, <1>2 DEF Permits, Granted, Permission

LEMMA QueryType == ASSUME TInv, NEW q \in Resources, Query(q) PROVE TInv'
<1>1. packet' \in Permission
    <2>1. Granted(q) \in Permission
        BY PermissionsAssumption DEF Granted, Permission, Never
    <2> QED BY <2>1, PermitsFact DEF Query
<1>2. faults' \in 0..Faults
    BY FaultFact DEF Query
<1> QED BY <1>1, <1>2 DEF Query, portal, TInv, TypeOK, CallsNamed, RowsNamed, Ids, Busy

\* A step that leaves the portal alone.
LEMMA OtherType ==
    ASSUME TInv, UNCHANGED portal, loggedIn' \in BOOLEAN,
           opa' \in [resources : BOOLEAN, exceptions : SUBSET Exception],
           packet' \in Permission, flows' \subseteq Flow,
           now' \in 0..MaxTime, faults' \in 0..Faults
    PROVE  TInv'
BY DEF portal, TInv, TypeOK, CallsNamed, RowsNamed, Ids, Busy

LEMMA TypeStep == TInv /\ [Next]_vars => TInv'
<1> SUFFICES ASSUME TInv, [Next]_vars PROVE TInv'
    OBVIOUS
<1>1. ASSUME NEW t \in Applicants, Ask(t) PROVE TInv'
    BY <1>1, AskType
<1>2. ASSUME NEW t \in Applicants, NEW k \in Careers, Insert(t, k) PROVE TInv'
    BY <1>2, InsertType
<1>3. ASSUME NEW t \in Admins, NEW r \in Ids, NEW a \in DOMAIN Outcome, Read(t, r, a)
      PROVE  TInv'
    BY <1>3, ReadType
<1>4. ASSUME NEW t \in Admins, Previous(t) PROVE TInv'
    BY <1>4, PreviousType
<1>5. ASSUME NEW t \in Admins, Drop(t) PROVE TInv'
    BY <1>5, DropType
<1>6. ASSUME NEW t \in Admins, Mark(t) PROVE TInv'
    BY <1>6, MarkType
<1>7. ASSUME NEW t \in Admins, NEW e \in Expirations, Grant(t, e) PROVE TInv'
    BY <1>7, GrantType
<1>8. ASSUME NEW t \in Applicants \cup Admins, GiveUp(t) PROVE TInv'
    BY <1>8, GiveUpType
<1>9. CASE Session
    <2>1. disturbed' \subseteq Ids
        BY <1>9 DEF Session, TInv, TypeOK
    <2>2. UNCHANGED <<requests, rows, calls, opa, packet, flows, now, faults, overlapped>>
        BY <1>9 DEF Session, network
    <2>3. loggedIn' \in BOOLEAN
        BY <1>9 DEF Session
    <2> QED BY <2>1, <2>2, <2>3 DEF TInv, TypeOK, CallsNamed, RowsNamed, Ids, Busy
<1>10. Fetched \subseteq Exception
    BY DEF Fetched, Entry, Exception, TInv, TypeOK, Row
<1>11. CASE SyncResources
    <2>1. opa' \in [resources : BOOLEAN, exceptions : SUBSET Exception]
        BY <1>11 DEF SyncResources, TInv, TypeOK
    <2> QED BY <1>11, <2>1, OtherType DEF SyncResources, network, TInv, TypeOK
<1>12. CASE SyncExceptions
    <2>1. opa' \in [resources : BOOLEAN, exceptions : SUBSET Exception]
        BY <1>10, <1>12 DEF SyncExceptions, TInv, TypeOK
    <2> QED BY <1>12, <2>1, OtherType DEF SyncExceptions, network, TInv, TypeOK
<1>13. CASE OpaRestarts
    <2>1. opa' \in [resources : BOOLEAN, exceptions : SUBSET Exception]
        BY <1>13 DEF OpaRestarts
    <2>2. faults' \in 0..Faults
        BY <1>13, FaultFact DEF OpaRestarts
    <2> QED BY <1>13, <2>1, <2>2, OtherType DEF OpaRestarts, network, TInv, TypeOK
<1>14. ASSUME NEW q \in Asked, Query(q) PROVE TInv'
    BY <1>14, QueryType, PermissionsAssumption
<1>15. CASE Check \/ Install \/ NotInstalled
    <2>1. packet \in Permission /\ flows \subseteq Flow /\ now \in Nat
        BY DEF TInv, TypeOK
    <2>2. Nothing \in Permission
        BY PermissionsAssumption DEF Nothing, Permission, Resources, Never
    <2>3. packet' \in Permission
        BY <1>15, <2>1, <2>2 DEF Check, Install, NotInstalled, Permission
    <2>5. flows' \subseteq Flow
        BY <1>15, <2>1 DEF Check, Install, NotInstalled, Flow, Permission
    <2> QED BY <1>15, <2>3, <2>5, OtherType DEF Check, Install, NotInstalled, TInv, TypeOK
<1>16. ASSUME NEW f \in flows, Used(f) \/ FlowDeleted(f) PROVE TInv'
    <2>1. f \in Flow /\ flows \subseteq Flow /\ now \in Nat
        BY DEF TInv, TypeOK
    <2>2. flows' \subseteq Flow
        BY <1>16, <2>1 DEF Used, FlowDeleted, Flow
    <2> QED BY <1>16, <2>2, OtherType DEF Used, FlowDeleted, TInv, TypeOK
<1>17. CASE Tick
    <2>1. now' \in 0..MaxTime
        BY <1>17, PermissionsAssumption DEF Tick, TInv, TypeOK
    <2> QED BY <1>17, <2>1, OtherType DEF Tick, network, TInv, TypeOK
<1>18. CASE UNCHANGED vars
    BY <1>18, OtherType DEF vars, portal, TInv, TypeOK
<1> QED
    BY <1>1, <1>2, <1>3, <1>4, <1>5, <1>6, <1>7, <1>8, <1>9, <1>11, <1>12, <1>13,
       <1>14, <1>15, <1>16, <1>17, <1>18 DEF Next

\* Every variable on the way of a permission keeps its shape
\* (m1_auth.py from 1336 on, m2_policies/sync/sync.py).
THEOREM PermissionsTypeOK == Spec => []TypeOK
<1>1. Spec => []TInv
    BY TypeInit, TypeStep, PTL DEF Spec
<1> QED BY <1>1, PTL DEF TInv

-----------------------------------------------------------------------------
(* One live application                                                      *)

\* As long as nothing overlapped, there is at most one live application, one
\* call about to insert another, which has found none, and one resolution,
\* of an approval that is still pending and replaces nothing.
OneAtATime ==
    /\ \A a, b \in LiveIds : a = b
    /\ \A t, u \in Applicants : Busy(t) /\ Busy(u) => t = u
    /\ \A t \in Applicants : Busy(t) => LiveIds = {}
    /\ \A t, u \in Admins : Busy(t) /\ Busy(u) => t = u
    /\ \A t \in Admins : Busy(t) =>
          /\ calls[t].target = calls[t].request
          /\ calls[t].step = "previous" => calls[t].action = "APROBAR"
          /\ calls[t].action = "APROBAR" =>
                 requests[calls[t].request].state = "PENDIENTE"

OneInv == ~overlapped => OneAtATime

LEMMA OneInit == Init => OneInv
BY DEF Init, OneInv, OneAtATime, LiveIds, Ids, Busy, Idle

\* Only Ask and Read write the history variable.
LEMMA OneFrame ==
    ASSUME OneInv, UNCHANGED <<requests, calls, overlapped>> PROVE OneInv'
BY DEF OneInv, OneAtATime, LiveIds, Ids, Busy

LEMMA OneAsk ==
    ASSUME TInv, OneInv, NEW t \in Applicants, Ask(t) PROVE OneInv'
<1> SUFFICES ASSUME ~overlapped' PROVE OneAtATime'
    BY DEF OneInv
<1>1. OneAtATime /\ UNCHANGED requests
    BY DEF OneInv, Ask
<1>2. LiveIds = {}
    <2>1. ~(faults' > faults)
        BY DEF Ask
    <2>2. faults \in Nat
        BY PermissionsAssumption DEF TInv, TypeOK
    <2> QED BY <2>1, <2>2 DEF Ask, Fault, Blocking
<1>3. \A u \in Applicants \ {t} : calls[u].step # "insert"
    BY DEF Ask
<1>4. \A u \in Applicants \ {t} : ~Busy(u)
    BY <1>3 DEF TInv, CallsNamed, Busy
<1>5. \A u \in Applicants \cup Admins : u # t => calls'[u] = calls[u]
    BY DEF Ask, Step, TInv, TypeOK
<1>6. t \notin Admins
    BY PermissionsAssumption
<1>7. LiveIds' = {}
    BY <1>1, <1>2 DEF LiveIds, Ids
<1> QED BY <1>1, <1>4, <1>5, <1>6, <1>7 DEF OneAtATime, Busy

LEMMA OneInsert ==
    ASSUME TInv, OneInv, NEW t \in Applicants, NEW k \in Careers, Insert(t, k)
    PROVE  OneInv'
<1> SUFFICES ASSUME ~overlapped' PROVE OneAtATime'
    BY DEF OneInv
<1>1. OneAtATime /\ Busy(t)
    BY DEF OneInv, Insert, Busy
<1>2. LiveIds = {} /\ \A u \in Applicants : Busy(u) => u = t
    BY <1>1 DEF OneAtATime
<1>3. LiveIds' \subseteq {Len(requests) + 1}
    BY <1>2, InsertFact DEF LiveIds
<1>4. /\ calls'[t].step = "idle"
      /\ \A u \in Applicants \cup Admins : u # t => calls'[u] = calls[u]
    BY IdleFact, StepFact DEF Insert
<1>5. t \notin Admins
    BY PermissionsAssumption
<1>6. \A u \in Admins : Busy(u) =>
          requests'[calls[u].request].state = requests[calls[u].request].state
    BY CallFact, InsertFact
<1> QED BY <1>1, <1>2, <1>3, <1>4, <1>5, <1>6 DEF OneAtATime, Busy

LEMMA OneRead ==
    ASSUME TInv, OneInv, NEW t \in Admins, NEW r \in Ids, NEW a \in DOMAIN Outcome,
           Read(t, r, a)
    PROVE  OneInv'
<1> SUFFICES ASSUME ~overlapped' PROVE OneAtATime'
    BY DEF OneInv
<1> DEFINE c == [Idle EXCEPT !.request = r, !.action = a, !.target = r,
                    !.step = CASE a = "APROBAR"  -> "previous"
                               [] a = "RECHAZAR" -> "mark"
                               [] a = "REVOCAR"  -> "drop"]
<1>1. a \in {"APROBAR", "RECHAZAR", "REVOCAR"} /\ r \in Nat
    BY DEF Outcome, Ids
<1>2. /\ c \in Call /\ c.request = r /\ c.target = r /\ c.action = a
      /\ c.step = "previous" => a = "APROBAR"
    BY <1>1 DEF Idle, Call, Steps, NoRequest, Outcome
<1>3. Step(t, c)
    BY DEF Read
<1> HIDE DEF c
<1>4. a = "APROBAR" => requests[r].state = "PENDIENTE"
    BY DEF Read, Needed
<1>5. OneAtATime /\ UNCHANGED requests /\ Resolving = {}
    BY DEF OneInv, Read
<1>6. \A u \in Admins : ~Busy(u)
    BY <1>5 DEF Resolving, Busy
<1>7. /\ calls'[t] = c
      /\ \A u \in Applicants \cup Admins : u # t => calls'[u] = calls[u]
    BY <1>2, <1>3, StepFact
<1>8. t \notin Applicants /\ LiveIds' = LiveIds
    BY <1>5, PermissionsAssumption DEF LiveIds, Ids
<1> QED BY <1>2, <1>4, <1>5, <1>6, <1>7, <1>8 DEF OneAtATime, Busy

\* A step of the only resolution that leaves its target alone.
LEMMA OneGoesOn ==
    ASSUME TInv, OneInv, NEW t \in Admins, Busy(t), NEW c \in Call, Step(t, c),
           UNCHANGED overlapped,
           ~overlapped =>
               \/ c.step = "idle"
               \/ /\ c.request = calls[t].request /\ c.target = calls[t].request
                  /\ c.action = calls[t].action /\ c.step # "previous"
                  /\ UNCHANGED requests,
           ~overlapped => LiveIds' \subseteq LiveIds
    PROVE  OneInv'
<1> SUFFICES ASSUME ~overlapped' PROVE OneAtATime'
    BY DEF OneInv
<1>1. OneAtATime
    BY DEF OneInv
<1>2. /\ calls'[t] = c
      /\ \A u \in Applicants \cup Admins : u # t => calls'[u] = calls[u]
    BY StepFact
<1>3. t \notin Applicants
    BY PermissionsAssumption
<1>4. \A u \in Admins : Busy(u) => u = t
    BY <1>1 DEF OneAtATime
<1> QED BY <1>1, <1>2, <1>3, <1>4 DEF OneAtATime, Busy

LEMMA OnePrevious == ASSUME TInv, OneInv, NEW t \in Admins, Previous(t) PROVE OneInv'
<1>1. /\ Busy(t) /\ calls[t].step = "previous" /\ UNCHANGED <<requests, overlapped>>
    BY PreviousFact
<1>2. calls[t].request \in Ids
    BY <1>1, CallFact
<1>3. ASSUME ~overlapped, NEW p \in LiveIds, p # calls[t].request PROVE FALSE
    <2>1. OneAtATime
        BY <1>3 DEF OneInv
    <2>2. requests[calls[t].request].state = "PENDIENTE"
        BY <1>1, <2>1 DEF OneAtATime
    <2>3. calls[t].request \in LiveIds
        BY <1>2, <2>2 DEF LiveIds, Live
    <2> QED BY <1>3, <2>1, <2>3 DEF OneAtATime
<1>4. LiveIds' = LiveIds
    BY <1>1 DEF LiveIds, Ids
<1>5. CASE overlapped
    BY <1>1, <1>5 DEF OneInv
<1>6. CASE ~overlapped
    <2> DEFINE c == [calls[t] EXCEPT !.step = "grant"]
    <2>1. Step(t, c)
        BY <1>3, <1>6, PreviousFact
    <2>2. c \in Call /\ c.step = "grant" /\ c.request = calls[t].request
          /\ c.target = calls[t].target /\ c.action = calls[t].action
        BY <1>1, CallFact DEF Call, Steps
    <2>3. calls[t].target = calls[t].request
        BY <1>1, <1>6 DEF OneInv, OneAtATime
    <2> HIDE DEF c
    <2> QED BY <1>1, <1>4, <2>1, <2>2, <2>3, OneGoesOn
<1> QED BY <1>5, <1>6

LEMMA OneDrop == ASSUME TInv, OneInv, NEW t \in Admins, Drop(t) PROVE OneInv'
<1> DEFINE c == [calls[t] EXCEPT !.step = "mark"]
<1>1. Busy(t) /\ Step(t, c) /\ UNCHANGED <<requests, overlapped>>
    BY DEF Drop, Busy
<1>2. /\ c \in Call /\ c.step = "mark" /\ c.request = calls[t].request
      /\ c.target = calls[t].target /\ c.action = calls[t].action
    BY <1>1, CallFact DEF Call, Steps
<1>3. ~overlapped => calls[t].target = calls[t].request
    BY <1>1 DEF OneInv, OneAtATime
<1>4. LiveIds' = LiveIds
    BY <1>1 DEF LiveIds, Ids
<1> HIDE DEF c
<1> QED BY <1>1, <1>2, <1>3, <1>4, OneGoesOn

LEMMA OneGrant1 ==
    ASSUME TInv, OneInv, NEW t \in Admins, NEW e \in Expirations, Grant(t, e)
    PROVE  OneInv'
<1> DEFINE c == [calls[t] EXCEPT !.step = "mark", !.target = calls[t].request]
<1>1. Busy(t) /\ Step(t, c) /\ UNCHANGED <<requests, overlapped>>
    BY DEF Grant, Busy
<1>2. /\ c \in Call /\ c.step = "mark" /\ c.request = calls[t].request
      /\ c.target = calls[t].request /\ c.action = calls[t].action
    BY <1>1, CallFact DEF Call, Steps
<1>3. LiveIds' = LiveIds
    BY <1>1 DEF LiveIds, Ids
<1> HIDE DEF c
<1> QED BY <1>1, <1>2, <1>3, OneGoesOn

\* What was pending was live, and any other outcome is not.
LEMMA OneMark == ASSUME TInv, OneInv, NEW t \in Admins, Mark(t) PROVE OneInv'
<1> DEFINE c == IF calls[t].target = calls[t].request THEN Idle
                ELSE [calls[t] EXCEPT !.step = "grant"]
<1>1. Busy(t) /\ Step(t, c) /\ UNCHANGED overlapped
    BY DEF Mark, Busy
<1>2. c \in Call
    BY <1>1, CallFact, IdleFact DEF Call, Steps
<1>3. ASSUME ~overlapped
      PROVE  c.step = "idle" /\ LiveIds' \subseteq LiveIds
    <2>1. /\ calls[t].target = calls[t].request
          /\ calls[t].action = "APROBAR" =>
                 requests[calls[t].request].state = "PENDIENTE"
        BY <1>1, <1>3 DEF OneInv, OneAtATime
    <2>2. c.step = "idle"
        BY <2>1, IdleFact
    <2>3. calls[t].action # "APROBAR" => NewState(calls[t]) \notin Live
        BY <1>1, <2>1, CallFact DEF NewState, Outcome, Live
    <2>4. calls[t].target \in Ids
        BY <1>1, CallFact
    <2>5. calls[t].action = "APROBAR" => calls[t].target \in LiveIds
        BY <2>1, <2>4 DEF LiveIds, Live
    <2>6. /\ Ids' = Ids
          /\ \A r \in Ids : r # calls[t].target => requests'[r].state = requests[r].state
          /\ requests' = requests
             \/ requests'[calls[t].target].state = NewState(calls[t])
        BY MarkFact
    <2>7. LiveIds' \subseteq LiveIds
        BY <2>3, <2>4, <2>5, <2>6 DEF LiveIds
    <2> QED BY <2>2, <2>7
<1> HIDE DEF c
<1> QED BY <1>1, <1>2, <1>3, OneGoesOn

LEMMA OneGiveUp ==
    ASSUME TInv, OneInv, NEW t \in Applicants \cup Admins, GiveUp(t) PROVE OneInv'
<1>1. /\ calls'[t].step = "idle"
      /\ \A u \in Applicants \cup Admins : u # t => calls'[u] = calls[u]
      /\ UNCHANGED <<requests, overlapped>>
    BY IdleFact, StepFact DEF GiveUp
<1> QED BY <1>1 DEF OneInv, OneAtATime, LiveIds, Ids, Busy

LEMMA OneStep == ASSUME TInv, OneInv, [Next]_vars PROVE OneInv'
<1>1. ASSUME NEW t \in Applicants, Ask(t) PROVE OneInv'
    BY <1>1, OneAsk
<1>2. ASSUME NEW t \in Applicants, NEW k \in Careers, Insert(t, k) PROVE OneInv'
    BY <1>2, OneInsert
<1>3. ASSUME NEW t \in Admins, NEW r \in Ids, NEW a \in DOMAIN Outcome, Read(t, r, a)
      PROVE  OneInv'
    BY <1>3, OneRead
<1>4. ASSUME NEW t \in Admins, Previous(t) PROVE OneInv'
    BY <1>4, OnePrevious
<1>5. ASSUME NEW t \in Admins, Drop(t) PROVE OneInv'
    BY <1>5, OneDrop
<1>6. ASSUME NEW t \in Admins, Mark(t) PROVE OneInv'
    BY <1>6, OneMark
<1>7. ASSUME NEW t \in Admins, NEW e \in Expirations, Grant(t, e) PROVE OneInv'
    BY <1>7, OneGrant1
<1>8. ASSUME NEW t \in Applicants \cup Admins, GiveUp(t) PROVE OneInv'
    BY <1>8, OneGiveUp
<1>9. CASE UNCHANGED <<requests, calls, overlapped>>
    BY <1>9, OneFrame
<1> QED
    BY <1>1, <1>2, <1>3, <1>4, <1>5, <1>6, <1>7, <1>8, <1>9 DEF Next, vars, portal,
       Session, SyncResources, SyncExceptions, OpaRestarts, Query, Check, Install,
       NotInstalled, Used, FlowDeleted, Tick

\* An invariant of at most one live application needs overlapping calls, or a look
\* that failed, to break: nothing in the table stands against two
\* (m1_auth.py:1342, radius_db_pucp_sdn.sql:327).
THEOREM OneLive == Spec => []OneLiveExplained
<1>1. Spec => [](TInv /\ OneInv)
    <2>1. Init => TInv /\ OneInv
        BY TypeInit, OneInit
    <2>2. TInv /\ OneInv /\ [Next]_vars => (TInv /\ OneInv)'
        BY TypeStep, OneStep
    <2> QED BY <2>1, <2>2, PTL DEF Spec
<1>2. OneInv => OneLiveExplained
    <2> SUFFICES ASSUME OneInv, ~overlapped PROVE ~(Cardinality(LiveIds) > 1)
        BY DEF OneLiveExplained
    <2>1. \A a, b \in LiveIds : a = b
        BY DEF OneInv, OneAtATime
    <2>2. CASE LiveIds = {}
        BY <2>2, FS_EmptySet
    <2>3. ASSUME NEW a \in LiveIds PROVE ~(Cardinality(LiveIds) > 1)
        <3>1. LiveIds = {a}
            BY <2>1
        <3> QED BY <3>1, FS_Singleton
    <2> QED BY <2>2, <2>3
<1> QED BY <1>1, <1>2, PTL

-----------------------------------------------------------------------------
(* Rows and states agree                                                     *)

Quiet == Ids \ disturbed
Approved(r) == requests[r].state = "APROBADA"
HasRows(r) == RowsOf(r) = ResourcesFor(requests[r].career)
HasNone(r) == RowsOf(r) = {}

\* Two live applications were disturbed.
LiveDisturbed == \A a, b \in LiveIds : a # b => a \in disturbed

\* How far the resolution of an undisturbed application has come.
Progress(c) ==
    /\ c.action = "APROBAR" =>
          /\ requests[c.request].state = "PENDIENTE"
          /\ c.step = "drop" => c.target # c.request
          /\ c.step = "mark" /\ c.target = c.request => HasRows(c.request)
          /\ c.step # "mark" \/ c.target # c.request => HasNone(c.request)
    /\ c.action = "RECHAZAR" =>
          c.step = "mark" /\ c.target = c.request /\ HasNone(c.request)
    /\ c.action = "REVOCAR" =>
          /\ c.target = c.request /\ c.step \in {"drop", "mark"}
          /\ c.step = "drop" => HasRows(c.request) /\ Approved(c.request)
          /\ c.step = "mark" => HasNone(c.request)

\* The resolution of an undisturbed application is the only one at work.
ResolvedAlone ==
    \A t \in Admins : Busy(t) => \A r \in Quiet :
        r \in {calls[t].request, calls[t].target} =>
            /\ r = calls[t].request /\ Progress(calls[t])
            /\ \A u \in Admins : Busy(u) => u = t

\* While a resolution is at work, no other application is approved and
\* undisturbed: its deletions by resource take no row of a third one.
NoThird ==
    \A t \in Admins : Busy(t) => \A r \in Quiet :
        Approved(r) => r \in {calls[t].request, calls[t].target}

\* GrantsMatch, by cases.
Settled == \A r \in Quiet : r \notin Resolving =>
    (Approved(r) => HasRows(r)) /\ (~Approved(r) => HasNone(r))

MatchInv == TInv /\ LiveDisturbed /\ ResolvedAlone /\ NoThird /\ Settled

LEMMA MatchInit == Init => MatchInv
<1> SUFFICES ASSUME Init PROVE MatchInv
    OBVIOUS
<1>1. Ids = {} /\ \A t \in Admins : ~Busy(t)
    BY DEF Init, Ids, Busy, Idle
<1> QED
    BY <1>1, TypeInit DEF MatchInv, LiveDisturbed, LiveIds, ResolvedAlone, Quiet,
       NoThird, Settled

\* The applications at work, thread by thread.
LEMMA AtWork ==
    ASSUME NEW r
    PROVE  r \in Resolving <=>
               \E t \in Admins : Busy(t) /\ r \in {calls[t].request, calls[t].target}
BY DEF Resolving, Busy

LEMMA AtWorkNext ==
    ASSUME NEW r
    PROVE  r \in Resolving' <=>
               \E t \in Admins : Busy(t)' /\ r \in {calls'[t].request, calls'[t].target}
BY DEF Resolving, Busy

LEMMA LiveFact ==
    ASSUME NEW r \in Ids PROVE r \in LiveIds <=> requests[r].state \in {"PENDIENTE", "APROBADA"}
BY DEF LiveIds, Live

\* Steps that change nothing the invariant speaks of.
LEMMA MatchFrame ==
    ASSUME MatchInv, TInv', \A t \in Admins : calls'[t] = calls[t],
           UNCHANGED <<requests, rows, loggedIn, disturbed>>
    PROVE  MatchInv'
<1>1. Ids' = Ids /\ Quiet' = Quiet /\ LiveIds' = LiveIds
    BY DEF Ids, Quiet, LiveIds
<1>2. \A t \in Admins : Busy(t)' <=> Busy(t)
    BY DEF Busy
<1>3. \A r : r \in Resolving' <=> r \in Resolving
    BY <1>2, AtWork, AtWorkNext
<1>4. LiveDisturbed'
    BY <1>1 DEF MatchInv, LiveDisturbed
<1>5. \A r : /\ RowsOf(r)' = RowsOf(r) /\ (Approved(r)' <=> Approved(r))
             /\ (HasRows(r)' <=> HasRows(r)) /\ (HasNone(r)' <=> HasNone(r))
    BY DEF RowsOf, Approved, HasRows, HasNone, ResourcesFor
<1>6. \A t \in Admins : Progress(calls[t])' <=> Progress(calls[t])
    BY <1>5 DEF Progress
<1>7. ResolvedAlone'
    BY <1>1, <1>2, <1>6 DEF MatchInv, ResolvedAlone
<1>8. NoThird'
    BY <1>1, <1>2, <1>5 DEF MatchInv, NoThird
<1>9. Settled'
    BY <1>1, <1>3, <1>5 DEF MatchInv, Settled
<1> QED BY <1>4, <1>7, <1>8, <1>9 DEF MatchInv

LEMMA MatchInsert ==
    ASSUME MatchInv, TInv', NEW t \in Applicants, NEW k \in Careers, Insert(t, k)
    PROVE  MatchInv'
<1> PICK n : n = Len(requests) + 1
    OBVIOUS
<1> USE DEF MatchInv
<1>1. /\ Ids' = Ids \cup {n} /\ n \notin Ids /\ n # NoRequest
      /\ \A r \in Ids : requests'[r] = requests[r]
      /\ requests'[n] = [career |-> k, state |-> "PENDIENTE"]
    BY InsertFact DEF NoRequest
<1>2. disturbed \subseteq disturbed' /\ UNCHANGED <<rows, loggedIn>>
    BY DEF Insert
<1>3. \A u \in Admins : calls'[u] = calls[u]
    BY IdleFact, StepFact, PermissionsAssumption DEF Insert
<1>4. \A u \in Admins : Busy(u)' <=> Busy(u)
    BY <1>3 DEF Busy
<1>5. \A r : r \in Resolving' <=> r \in Resolving
    BY <1>3, <1>4, AtWork, AtWorkNext
<1>6. LiveIds' = LiveIds \cup {n}
    BY <1>1 DEF LiveIds, Live
<1>7. LiveDisturbed'
    <2>1. LiveIds # {} => LiveIds' \subseteq disturbed'
        BY <1>6 DEF Insert
    <2> QED BY <1>6, <2>1 DEF LiveDisturbed
<1>8. Quiet' \subseteq Quiet \cup {n}
    BY <1>1, <1>2 DEF Quiet
<1>9. \A r \in Ids : /\ RowsOf(r)' = RowsOf(r) /\ (Approved(r)' <=> Approved(r))
                     /\ (HasRows(r)' <=> HasRows(r)) /\ (HasNone(r)' <=> HasNone(r))
    BY <1>1, <1>2 DEF RowsOf, Approved, HasRows, HasNone, ResourcesFor
<1>10. \A u \in Admins : Busy(u) =>
           /\ calls[u].request \in Ids /\ calls[u].target \in Ids
           /\ Progress(calls[u])' <=> Progress(calls[u])
    <2> SUFFICES ASSUME NEW u \in Admins, Busy(u)
                 PROVE  /\ calls[u].request \in Ids /\ calls[u].target \in Ids
                        /\ Progress(calls[u])' <=> Progress(calls[u])
        OBVIOUS
    <2>1. calls[u].request \in Ids /\ calls[u].target \in Ids
        BY CallFact
    <2> QED BY <1>1, <1>3, <1>9, <2>1 DEF Progress
<1>11. ResolvedAlone'
    BY <1>1, <1>3, <1>4, <1>8, <1>10 DEF ResolvedAlone
<1>12. HasNone(n)' /\ ~Approved(n)'
    BY <1>1, <1>2 DEF RowsOf, HasNone, Approved, TInv, RowsNamed
<1>13. NoThird'
    BY <1>3, <1>4, <1>8, <1>9, <1>12 DEF NoThird, Quiet
<1>14. Settled'
    BY <1>5, <1>8, <1>9, <1>12 DEF Settled, Quiet
<1> QED BY <1>7, <1>11, <1>13, <1>14

\* An undisturbed application whose resolution is at work is the one it is about,
\* and no other resolution is.
LEMMA AloneFact ==
    ASSUME MatchInv, NEW t \in Admins, Busy(t), NEW r \in Quiet, r \in Resolving
    PROVE  /\ r = calls[t].request /\ Progress(calls[t])
           /\ \A u \in Admins : Busy(u) => u = t
<1>1. PICK u \in Admins : Busy(u) /\ r \in {calls[u].request, calls[u].target}
    BY AtWork
<1>2. r = calls[u].request /\ Progress(calls[u]) /\ \A v \in Admins : Busy(v) => v = u
    BY <1>1 DEF MatchInv, ResolvedAlone
<1> QED BY <1>2

\* An undisturbed application nobody works on is not approved while anyone works.
LEMMA ThirdFact ==
    ASSUME MatchInv, NEW t \in Admins, Busy(t), NEW r \in Quiet, r \notin Resolving
    PROVE  ~Approved(r) /\ HasNone(r)
BY AtWork DEF MatchInv, NoThird, Settled

\* The steps of the approval of an undisturbed application but the last, and those
\* of its revocation or rejection.
LEMMA ProgressCases ==
    ASSUME MatchInv, NEW t \in Admins, Busy(t), Progress(calls[t])
    PROVE  \/ /\ calls[t].action = "APROBAR"
              /\ requests[calls[t].request].state = "PENDIENTE"
              /\ calls[t].step = "drop" => calls[t].target # calls[t].request
              /\ calls[t].step = "mark" /\ calls[t].target = calls[t].request
                     => HasRows(calls[t].request)
              /\ calls[t].step # "mark" \/ calls[t].target # calls[t].request
                     => HasNone(calls[t].request)
           \/ /\ calls[t].action = "RECHAZAR" /\ calls[t].step = "mark"
              /\ calls[t].target = calls[t].request /\ HasNone(calls[t].request)
           \/ /\ calls[t].action = "REVOCAR" /\ calls[t].step \in {"drop", "mark"}
              /\ calls[t].target = calls[t].request
              /\ calls[t].step = "drop" =>
                     HasRows(calls[t].request) /\ Approved(calls[t].request)
              /\ calls[t].step = "mark" => HasNone(calls[t].request)
<1>1. calls[t].action \in {"APROBAR", "RECHAZAR", "REVOCAR"}
    BY CallFact DEF MatchInv
<1> QED BY <1>1 DEF Progress

LEMMA MatchRead ==
    ASSUME MatchInv, TInv', NEW t \in Admins, NEW r \in Ids, NEW a \in DOMAIN Outcome,
           Read(t, r, a)
    PROVE  MatchInv'
<1> USE DEF MatchInv
<1>0. PICK c : c = [Idle EXCEPT !.request = r, !.action = a, !.target = r,
                    !.step = CASE a = "APROBAR"  -> "previous"
                               [] a = "RECHAZAR" -> "mark"
                               [] a = "REVOCAR"  -> "drop"]
    OBVIOUS
<1>1. a \in {"APROBAR", "RECHAZAR", "REVOCAR"} /\ r \in Nat
    BY DEF Outcome, Ids
<1>2. /\ c \in Call /\ c.request = r /\ c.target = r /\ c.action = a
      /\ c.step = CASE a = "APROBAR"  -> "previous"
                    [] a = "RECHAZAR" -> "mark"
                    [] a = "REVOCAR"  -> "drop"
    BY <1>0, <1>1 DEF Idle, Call, Steps, NoRequest, Outcome
<1>3. c \in Call /\ Step(t, c)
    BY <1>0, <1>2 DEF Read
<1>4. /\ calls'[t] = c
      /\ \A u \in Admins : u # t => calls'[u] = calls[u]
    BY <1>3, StepFact
<1>5. /\ UNCHANGED <<requests, rows, loggedIn>> /\ ~Busy(t)
      /\ requests[r].state = Needed[a]
      /\ disturbed' = IF Resolving = {} THEN disturbed
                      ELSE disturbed \cup Resolving \cup {r}
    BY DEF Read, Busy
<1>6. \A u \in Admins : u # t => (Busy(u)' <=> Busy(u))
    BY <1>4 DEF Busy
<1>7. /\ Ids' = Ids /\ LiveIds' = LiveIds /\ Quiet' \subseteq Quiet
    BY <1>5 DEF Ids, LiveIds, Quiet
<1>8. \A q : /\ RowsOf(q)' = RowsOf(q) /\ (Approved(q)' <=> Approved(q))
             /\ (HasRows(q)' <=> HasRows(q)) /\ (HasNone(q)' <=> HasNone(q))
    BY <1>5 DEF RowsOf, Approved, HasRows, HasNone, ResourcesFor
<1>9. LiveDisturbed'
    BY <1>5, <1>7 DEF LiveDisturbed
<1>10. \A q : q \in Resolving => q \in Resolving'
    BY <1>4, <1>5, <1>6, AtWork, AtWorkNext
<1>11. Settled'
    BY <1>7, <1>8, <1>10 DEF Settled
<1>12. CASE Resolving # {}
    <2>1. \A q \in Quiet' : q \notin Resolving /\ q # r
        BY <1>5, <1>12 DEF Quiet
    <2>2. PICK v \in Admins : Busy(v)
        BY <1>12 DEF Resolving, Busy
    <2>3. \A q \in Quiet' : ~Approved(q)'
        BY <1>7, <1>8, <2>1, <2>2, ThirdFact
    <2>4. ResolvedAlone'
        <3> SUFFICES ASSUME NEW u \in Admins, Busy(u)', NEW q \in Quiet',
                            q \in {calls'[u].request, calls'[u].target}
                     PROVE  FALSE
            BY DEF ResolvedAlone
        <3>1. u # t
            BY <1>2, <1>4, <2>1
        <3> QED BY <1>4, <1>6, <2>1, <3>1, AtWork
    <2>5. NoThird'
        BY <2>3 DEF NoThird
    <2> QED BY <1>9, <1>11, <2>4, <2>5
<1>13. CASE Resolving = {}
    <2>1. \A u \in Admins : ~Busy(u)
        BY <1>13 DEF Resolving, Busy
    <2>2. \A u \in Admins : Busy(u)' => u = t
        BY <1>6, <2>1
    <2>3. ASSUME r \in Quiet PROVE Progress(c)'
        <3>1. (Approved(r) => HasRows(r)) /\ (~Approved(r) => HasNone(r))
            BY <1>13, <2>3 DEF Settled
        <3>2. a # "REVOCAR" => requests[r].state = "PENDIENTE"
            BY <1>1, <1>5 DEF Needed
        <3>3. a = "REVOCAR" => Approved(r)
            BY <1>5 DEF Needed, Approved
        <3>4. a # "REVOCAR" => HasNone(r)
            BY <3>1, <3>2 DEF Approved
        <3>5. a = "REVOCAR" => HasRows(r)
            BY <3>1, <3>3
        <3> QED BY <1>1, <1>2, <1>5, <1>8, <3>2, <3>3, <3>4, <3>5 DEF Progress
    <2>4. r \in Quiet => Progress(calls[t])'
        BY <1>4, <2>3 DEF Progress
    <2>5. ResolvedAlone'
        <3> SUFFICES ASSUME NEW u \in Admins, Busy(u)', NEW q \in Quiet',
                            q \in {calls'[u].request, calls'[u].target}
                     PROVE  /\ q = calls'[u].request /\ Progress(calls[u])'
                            /\ \A v \in Admins : Busy(v)' => v = u
            BY DEF ResolvedAlone
        <3>1. u = t /\ q = r
            BY <1>2, <1>4, <2>2
        <3>2. Progress(calls[t])'
            BY <1>7, <2>4, <3>1
        <3> QED BY <1>2, <1>4, <2>2, <3>1, <3>2
    <2>6. ASSUME NEW q \in Quiet, Approved(q) PROVE q = r
        <3>1. requests[r].state \in {"PENDIENTE", "APROBADA"}
            BY <1>1, <1>5 DEF Needed
        <3>2. r \in LiveIds /\ q \in LiveIds /\ q \notin disturbed
            BY <2>6, <3>1, LiveFact DEF Quiet, Approved
        <3> QED BY <3>2 DEF LiveDisturbed
    <2>7. NoThird'
        BY <1>2, <1>4, <1>7, <1>8, <2>2, <2>6 DEF NoThird
    <2> QED BY <1>9, <1>11, <2>5, <2>7
<1> QED BY <1>12, <1>13

\* A step of a resolution that stays at work: what it is about stays, and what it
\* leaves undisturbed is as before, but for the application itself.
LEMMA MatchGoesOn ==
    ASSUME MatchInv, TInv', NEW t \in Admins, Busy(t), NEW c \in Call, Step(t, c),
           c.step # "idle", c.request = calls[t].request,
           disturbed \subseteq disturbed', UNCHANGED loggedIn, Ids' = Ids,
           LiveIds' \subseteq LiveIds,
           c.target \in {calls[t].request, calls[t].target} \cup disturbed',
           \A q \in Quiet' : q # c.request =>
               /\ requests'[q].state = requests[q].state
               /\ HasNone(q) => HasNone(q)',
           c.request \in Quiet' /\ Progress(calls[t]) => Progress(c)',
           c.request \in Quiet' => requests'[c.request].state = requests[c.request].state
    PROVE  MatchInv'
<1> USE DEF MatchInv
<1>1. /\ calls'[t] = c
      /\ \A u \in Admins : u # t => calls'[u] = calls[u]
    BY StepFact
<1>2. \A u \in Admins : Busy(u)' <=> Busy(u)
    BY <1>1 DEF Busy
<1>3. Quiet' \subseteq Quiet
    BY DEF Quiet
<1>4. \A q \in Quiet' : Approved(q)' <=> Approved(q)
    BY DEF Approved
<1>5. LiveDisturbed'
    BY DEF LiveDisturbed
<1>6. ASSUME NEW q \in Quiet', q \in Resolving
      PROVE  /\ q = c.request /\ Progress(c)'
             /\ \A u \in Admins : Busy(u) => u = t
    BY <1>3, <1>6, AloneFact
<1>7. \A q \in Quiet' : q \in Resolving' <=> q \in Resolving
    <2> SUFFICES ASSUME NEW q \in Quiet' PROVE q \in Resolving' <=> q \in Resolving
        OBVIOUS
    <2>1. c.target # q \/ c.target \in {calls[t].request, calls[t].target}
        BY DEF Quiet
    <2>2. ASSUME q \in Resolving PROVE q \in Resolving'
        BY <1>1, <1>2, <1>6, <2>2, AtWorkNext
    <2>3. ASSUME q \in Resolving' PROVE q \in Resolving
        <3>1. PICK u \in Admins : Busy(u) /\ q \in {calls'[u].request, calls'[u].target}
            BY <1>2, <2>3, AtWorkNext
        <3>2. q \in {calls[u].request, calls[u].target}
            BY <1>1, <2>1, <3>1
        <3> QED BY <3>1, <3>2, AtWork
    <2> QED BY <2>2, <2>3
<1>8. ResolvedAlone'
    <2> SUFFICES ASSUME NEW u \in Admins, Busy(u)', NEW q \in Quiet',
                        q \in {calls'[u].request, calls'[u].target}
                 PROVE  /\ q = calls'[u].request /\ Progress(calls[u])'
                        /\ \A v \in Admins : Busy(v)' => v = u
        BY DEF ResolvedAlone
    <2>1. q \in Resolving
        BY <1>7, AtWorkNext
    <2>2. u = t /\ q = c.request /\ Progress(c)'
        BY <1>2, <1>6, <2>1
    <2>3. Progress(calls[u])'
        BY <1>1, <2>2 DEF Progress
    <2> QED BY <1>1, <1>2, <1>6, <2>1, <2>2, <2>3
<1>9. NoThird'
    <2> SUFFICES ASSUME NEW u \in Admins, Busy(u)', NEW q \in Quiet', Approved(q)'
                 PROVE  q \in {calls'[u].request, calls'[u].target}
        BY DEF NoThird
    <2>1. q \in Resolving
        BY <1>3, <1>4, ThirdFact
    <2>2. u = t /\ q = c.request
        BY <1>2, <1>6, <2>1
    <2> QED BY <1>1, <2>2
<1>10. Settled'
    <2> SUFFICES ASSUME NEW q \in Quiet', q \notin Resolving'
                 PROVE  ~Approved(q)' /\ HasNone(q)'
        BY DEF Settled
    <2>1. q \notin Resolving /\ ~Approved(q) /\ HasNone(q)
        BY <1>3, <1>7, ThirdFact
    <2>2. q # c.request
        BY <2>1, AtWork
    <2> QED BY <1>4, <2>1, <2>2
<1> QED BY <1>5, <1>8, <1>9, <1>10

LEMMA MatchPrevious == ASSUME MatchInv, TInv', NEW t \in Admins, Previous(t) PROVE MatchInv'
<1>1. /\ Busy(t) /\ calls[t].step = "previous" /\ TInv
      /\ UNCHANGED <<requests, rows, loggedIn>>
    BY PreviousFact DEF MatchInv
<1>2. Ids' = Ids /\ LiveIds' = LiveIds
    BY <1>1 DEF Ids, LiveIds
<1>3. \A q : /\ (HasRows(q)' <=> HasRows(q)) /\ (HasNone(q)' <=> HasNone(q))
    BY <1>1 DEF RowsOf, HasRows, HasNone, ResourcesFor
<1>4. CASE /\ Step(t, [calls[t] EXCEPT !.step = "grant"])
           /\ UNCHANGED disturbed
    <2> PICK c : c = [calls[t] EXCEPT !.step = "grant"]
        OBVIOUS
    <2>1. /\ c \in Call /\ c.step = "grant" /\ c.request = calls[t].request
          /\ c.target = calls[t].target /\ c.action = calls[t].action
        BY <1>1, CallFact DEF Call, Steps
    <2>2. Step(t, c)
        BY <1>4
    <2>3. Progress(calls[t]) => Progress(c)'
        BY <1>1, <1>3, <2>1, ProgressCases DEF Progress
    <2> QED BY <1>1, <1>2, <1>3, <1>4, <2>1, <2>2, <2>3, MatchGoesOn
<1>5. ASSUME NEW p \in LiveIds, p # calls[t].request, disturbed' = disturbed \cup {p},
             Step(t, [calls[t] EXCEPT !.step = "drop", !.target = p])
      PROVE  MatchInv'
    <2> PICK c : c = [calls[t] EXCEPT !.step = "drop", !.target = p]
        OBVIOUS
    <2>0. p \in Nat
        BY DEF LiveIds, Ids
    <2>1. /\ c \in Call /\ c.step = "drop" /\ c.request = calls[t].request
          /\ c.target = p /\ c.action = calls[t].action
        BY <1>1, <2>0, CallFact DEF Call, Steps
    <2>2. Step(t, c)
        BY <1>5
    <2>3. Progress(calls[t]) => Progress(c)'
        BY <1>1, <1>3, <1>5, <2>1, ProgressCases DEF Progress
    <2>4. disturbed \subseteq disturbed' /\ c.target \in disturbed'
        BY <1>5, <2>1
    <2>5. \A q : requests'[q].state = requests[q].state
        BY <1>1
    <2>6. c.step # "idle"
        BY <2>1
    <2>7. c.target \in {calls[t].request, calls[t].target} \cup disturbed'
        BY <2>4
    <2> QED BY <1>1, <1>2, <1>3, <2>1, <2>2, <2>3, <2>4, <2>5, <2>6, <2>7, MatchGoesOn
<1> QED BY <1>1, <1>4, <1>5, PreviousFact

\* Less rows of an application stay none.
LEMMA NoneStays ==
    ASSUME NEW q, rows' \subseteq rows, HasNone(q) PROVE HasNone(q)'
BY DEF HasNone, RowsOf

LEMMA MatchDrop == ASSUME MatchInv, TInv', NEW t \in Admins, Drop(t) PROVE MatchInv'
<1>0. PICK c : c = [calls[t] EXCEPT !.step = "mark"]
    OBVIOUS
<1>1. /\ Busy(t) /\ calls[t].step = "drop" /\ TInv /\ rows' \subseteq rows
      /\ UNCHANGED <<requests, loggedIn>> /\ disturbed \subseteq disturbed'
    BY DEF Drop, Busy, MatchInv
<1>2. Ids' = Ids /\ LiveIds' = LiveIds
    BY <1>1 DEF Ids, LiveIds
<1>3. /\ c \in Call /\ c.step = "mark" /\ c.request = calls[t].request
      /\ c.target = calls[t].target /\ c.action = calls[t].action
    BY <1>0, <1>1, CallFact DEF Call, Steps
<1>4. Step(t, c)
    BY <1>0 DEF Drop
<1>5. calls[t].request \in Ids /\ calls[t].request # NoRequest
    BY <1>1, CallFact DEF Ids, NoRequest
<1>6. ASSUME c.request \in Quiet', Progress(calls[t]) PROVE Progress(c)'
    <2>1. CASE c.action = "APROBAR"
        BY <1>1, <1>3, <1>6, <2>1, NoneStays DEF Progress
    <2>2. CASE c.action = "REVOCAR"
        <3>1. HasRows(c.request) /\ c.target = c.request
            BY <1>1, <1>3, <1>6, <2>2 DEF Progress
        <3>2. rows' = rows \ Deleted(requests[c.request].career)
            BY <1>3, <1>6, <3>1 DEF Drop, Quiet
        <3>3. HasNone(c.request)'
            BY <1>3, <1>5, <3>1, <3>2 DEF HasNone, HasRows, RowsOf, Deleted
        <3> QED BY <1>3, <2>2, <3>1, <3>3 DEF Progress
    <2>3. c.action # "RECHAZAR"
        BY <1>1, <1>3, <1>6 DEF Progress
    <2>4. c.action \in {"APROBAR", "RECHAZAR", "REVOCAR"}
        BY <1>1, <1>3, CallFact
    <2> QED BY <2>1, <2>2, <2>3, <2>4
<1>7. \A q \in Quiet' : /\ requests'[q].state = requests[q].state
                        /\ HasNone(q) => HasNone(q)'
    BY <1>1, NoneStays
<1>8. c.step # "idle" /\ c.target \in {calls[t].request, calls[t].target} \cup disturbed'
    BY <1>3
<1> QED BY <1>1, <1>2, <1>3, <1>4, <1>6, <1>7, <1>8, MatchGoesOn

LEMMA MatchGrant ==
    ASSUME MatchInv, TInv', NEW t \in Admins, NEW e \in Expirations, Grant(t, e)
    PROVE  MatchInv'
<1>0. PICK c : c = [calls[t] EXCEPT !.step = "mark", !.target = calls[t].request]
    OBVIOUS
<1>1. /\ Busy(t) /\ calls[t].step = "grant" /\ TInv
      /\ UNCHANGED <<requests, loggedIn>> /\ disturbed \subseteq disturbed'
    BY DEF Grant, Busy, MatchInv
<1>2. Ids' = Ids /\ LiveIds' = LiveIds
    BY <1>1 DEF Ids, LiveIds
<1>3. /\ c \in Call /\ c.step = "mark" /\ c.request = calls[t].request
      /\ c.target = c.request /\ c.action = calls[t].action
    BY <1>0, <1>1, CallFact DEF Call, Steps
<1>4. Step(t, c)
    BY <1>0 DEF Grant
<1>5. PICK R \in SUBSET Resources :
         /\ rows' = rows \cup {[res |-> x, allow |-> TRUE, expires |-> e,
                                by |-> calls[t].request] : x \in R}
         /\ \/ /\ R = ResourcesFor(requests[calls[t].request].career)
               /\ UNCHANGED disturbed
            \/ disturbed' = disturbed \cup {calls[t].request}
    BY <1>1, GrantRows
<1>6. ASSUME NEW q PROVE RowsOf(q)' = IF q = c.request THEN RowsOf(q) \cup R ELSE RowsOf(q)
    <2> DEFINE N == {[res |-> x, allow |-> TRUE, expires |-> e, by |-> c.request] : x \in R}
    <2>1. rows' = rows \cup N
        BY <1>3, <1>5
    <2>2. \A y \in N : y.by = c.request /\ y.res \in R
        OBVIOUS
    <2>3. ASSUME NEW x \in R PROVE \E y \in N : y.by = c.request /\ y.res = x
        <3>1. [res |-> x, allow |-> TRUE, expires |-> e, by |-> c.request] \in N
            OBVIOUS
        <3> QED BY <3>1
    <2> HIDE DEF N
    <2> QED BY <2>1, <2>2, <2>3 DEF RowsOf
<1>7. ASSUME c.request \in Quiet', Progress(calls[t]) PROVE Progress(c)'
    <2>1. /\ c.action = "APROBAR" /\ requests[c.request].state = "PENDIENTE"
          /\ HasNone(c.request)
        BY <1>1, <1>3, <1>7, ProgressCases
    <2>2. R = ResourcesFor(requests[c.request].career)
        BY <1>3, <1>5, <1>7 DEF Quiet
    <2>3. HasRows(c.request)'
        BY <1>1, <1>6, <2>1, <2>2 DEF HasNone, HasRows, ResourcesFor
    <2> QED BY <1>1, <1>3, <2>1, <2>3 DEF Progress
<1>8. \A q \in Quiet' : q # c.request => /\ requests'[q].state = requests[q].state
                                         /\ HasNone(q) => HasNone(q)'
    BY <1>1, <1>6 DEF HasNone
<1>9. c.step # "idle" /\ c.target \in {calls[t].request, calls[t].target} \cup disturbed'
    BY <1>3
<1> QED BY <1>1, <1>2, <1>3, <1>4, <1>7, <1>8, <1>9, MatchGoesOn

\* The end of a resolution.
LEMMA MatchEnds ==
    ASSUME MatchInv, TInv', NEW t \in Admins, Busy(t), Step(t, Idle),
           disturbed \subseteq disturbed', UNCHANGED <<rows, loggedIn>>, Ids' = Ids,
           LiveDisturbed',
           \A q \in Ids : requests'[q].career = requests[q].career,
           NEW g, g = calls[t].request,
           \A q \in Quiet' : q # g => requests'[q].state = requests[q].state,
           g \in Quiet' /\ Progress(calls[t]) =>
               /\ requests'[g].state = "APROBADA" => HasRows(g)
               /\ requests'[g].state # "APROBADA" => HasNone(g)
    PROVE  MatchInv'
<1> USE DEF MatchInv
<1>1. /\ calls'[t] = Idle
      /\ \A u \in Admins : u # t => calls'[u] = calls[u]
    BY IdleFact, StepFact
<1>2. \A u \in Admins : Busy(u)' => u # t /\ Busy(u) /\ calls'[u] = calls[u]
    BY <1>1, IdleFact DEF Busy
<1>3. Quiet' \subseteq Quiet /\ Quiet' \subseteq Ids
    BY DEF Quiet
<1>4. \A q \in Quiet' : /\ HasRows(q)' <=> HasRows(q)
                        /\ HasNone(q)' <=> HasNone(q)
                        /\ q # g => (Approved(q)' <=> Approved(q))
    BY <1>3 DEF HasRows, HasNone, RowsOf, ResourcesFor, Approved
<1>5. ASSUME NEW q \in Quiet', q \in Resolving
      PROVE  /\ q = g /\ Progress(calls[t])
             /\ \A u \in Admins : Busy(u) => u = t
    BY <1>3, <1>5, AloneFact
<1>6. ResolvedAlone'
    <2> SUFFICES ASSUME NEW u \in Admins, Busy(u)', NEW q \in Quiet',
                        q \in {calls'[u].request, calls'[u].target}
                 PROVE  FALSE
        BY DEF ResolvedAlone
    <2>1. u # t /\ Busy(u) /\ q \in Resolving
        BY <1>2, AtWork
    <2> QED BY <1>5, <2>1
<1>7. NoThird'
    <2> SUFFICES ASSUME NEW u \in Admins, Busy(u)', NEW q \in Quiet', Approved(q)'
                 PROVE  FALSE
        BY DEF NoThird
    <2>1. u # t /\ Busy(u)
        BY <1>2
    <2>2. q \in Resolving
        <3>1. CASE q = g
            BY <3>1, AtWork
        <3>2. CASE q # g
            BY <1>3, <1>4, <3>2, ThirdFact
        <3> QED BY <3>1, <3>2
    <2> QED BY <1>5, <2>1, <2>2
<1>8. Settled'
    <2> SUFFICES ASSUME NEW q \in Quiet', q \notin Resolving'
                 PROVE  (Approved(q)' => HasRows(q)') /\ (~Approved(q)' => HasNone(q)')
        BY DEF Settled
    <2>1. CASE q = g
        <3>1. q \in Resolving
            BY <2>1, AtWork
        <3>2. (Approved(g)' => HasRows(g)) /\ (~Approved(g)' => HasNone(g))
            BY <1>5, <2>1, <3>1 DEF Approved
        <3> QED BY <1>4, <2>1, <3>2
    <2>2. CASE q # g
        <3>1. ~Approved(q) /\ HasNone(q)
            BY <1>3, <1>5, <2>2, ThirdFact
        <3> QED BY <1>4, <2>2, <3>1
    <2> QED BY <2>1, <2>2
<1> QED BY <1>6, <1>7, <1>8

LEMMA MatchMark == ASSUME MatchInv, TInv', NEW t \in Admins, Mark(t) PROVE MatchInv'
<1>0. PICK g : g = calls[t].target
    OBVIOUS
<1>1. /\ Busy(t) /\ calls[t].step = "mark" /\ Ids' = Ids /\ g \in Ids /\ TInv
      /\ \A r \in Ids : requests'[r].career = requests[r].career
      /\ \A r \in Ids : r # g => requests'[r].state = requests[r].state
      /\ UNCHANGED <<rows, loggedIn>>
    BY <1>0, MarkFact, CallFact DEF Mark, MatchInv
<1>2. \/ /\ requests'[g].state = NewState(calls[t])
         /\ disturbed' = IF NewState(calls[t]) \in Live /\ LiveIds \ {g} # {}
                         THEN disturbed \cup LiveIds \cup {g} ELSE disturbed
      \/ requests' = requests /\ disturbed' = disturbed \cup {g}
    BY <1>0, <1>1, MarkFact
<1>3. disturbed \subseteq disturbed'
    BY <1>2
<1>4. \A r \in Ids : r # g => (r \in LiveIds' <=> r \in LiveIds)
    BY <1>1 DEF LiveIds
<1>5. LiveIds \subseteq Ids /\ LiveIds' \subseteq Ids
    BY <1>1 DEF LiveIds
<1>6. LiveDisturbed'
    <2>1. CASE /\ requests'[g].state = NewState(calls[t])
               /\ disturbed' = IF NewState(calls[t]) \in Live /\ LiveIds \ {g} # {}
                               THEN disturbed \cup LiveIds \cup {g} ELSE disturbed
        <3>1. g \in LiveIds' <=> NewState(calls[t]) \in Live
            BY <1>1, <2>1 DEF LiveIds
        <3>2. CASE g \in LiveIds' /\ LiveIds \ {g} # {}
            BY <1>4, <1>5, <2>1, <3>1, <3>2 DEF LiveDisturbed
        <3>3. CASE g \in LiveIds' /\ LiveIds \ {g} = {}
            BY <1>4, <1>5, <3>3 DEF LiveDisturbed
        <3>4. CASE g \notin LiveIds'
            BY <1>3, <1>4, <1>5, <3>4 DEF LiveDisturbed, MatchInv
        <3> QED BY <3>2, <3>3, <3>4
    <2>2. CASE requests' = requests
        <3>1. LiveIds' = LiveIds
            BY <2>2 DEF LiveIds, Ids
        <3> QED BY <1>3, <3>1 DEF LiveDisturbed, MatchInv
    <2> QED BY <1>2, <2>1, <2>2
<1>7. CASE g = calls[t].request
    <2>1. Step(t, Idle)
        BY <1>0, <1>7 DEF Mark
    <2>2. ASSUME g \in Quiet', Progress(calls[t])
          PROVE  /\ requests'[g].state = "APROBADA" => HasRows(g)
                 /\ requests'[g].state # "APROBADA" => HasNone(g)
        <3>1. requests'[g].state = Outcome[calls[t].action]
            BY <1>0, <1>2, <1>7, <2>2 DEF Quiet, NewState
        <3>2. calls[t].action \in {"APROBAR", "RECHAZAR", "REVOCAR"}
            BY <1>1, CallFact
        <3> QED BY <1>0, <1>1, <1>7, <2>2, <3>1, <3>2 DEF Progress, Outcome
    <2> QED BY <1>1, <1>3, <1>6, <1>7, <2>1, <2>2, MatchEnds DEF Quiet
<1>8. CASE g # calls[t].request
    <2>0. PICK c : c = [calls[t] EXCEPT !.step = "grant"]
        OBVIOUS
    <2>1. /\ c \in Call /\ c.step = "grant" /\ c.request = calls[t].request
          /\ c.target = g /\ c.action = calls[t].action
        BY <1>0, <1>1, <2>0, CallFact DEF Call, Steps
    <2>2. Step(t, c)
        BY <1>0, <1>8, <2>0 DEF Mark
    <2>3. NewState(calls[t]) = "REVOCADA"
        BY <1>0, <1>8 DEF NewState
    <2>4. LiveIds' \subseteq LiveIds
        <3>1. g \in LiveIds' => g \in LiveIds
            BY <1>1, <1>2, <2>3 DEF LiveIds, Live
        <3> QED BY <1>4, <1>5, <3>1
    <2>5. \A q \in Quiet' : q # g
        <3> SUFFICES ASSUME g \in Quiet' PROVE FALSE
            OBVIOUS
        <3>1. g \in Quiet /\ g \in Resolving
            BY <1>0, <1>1, <1>3, AtWork DEF Quiet
        <3> QED BY <1>1, <1>8, <3>1, AloneFact
    <2>6. \A q : HasNone(q) => HasNone(q)'
        BY <1>1 DEF HasNone, RowsOf
    <2>7. \A q \in Quiet' : /\ requests'[q].state = requests[q].state
                            /\ HasNone(q) => HasNone(q)'
        BY <1>1, <2>5, <2>6 DEF Quiet
    <2>8. ASSUME c.request \in Quiet', Progress(calls[t]) PROVE Progress(c)'
        <3>1. c.action = "APROBAR" /\ HasNone(c.request)
              /\ requests[c.request].state = "PENDIENTE"
            BY <1>0, <1>1, <1>8, <2>1, <2>8, ProgressCases
        <3>2. HasNone(c.request)' /\ requests'[c.request].state = "PENDIENTE"
            BY <2>6, <2>7, <2>8, <3>1
        <3> QED BY <2>1, <3>1, <3>2 DEF Progress
    <2>9. /\ c.step # "idle"
          /\ c.target \in {calls[t].request, calls[t].target} \cup disturbed'
        BY <1>0, <2>1
    <2> QED BY <1>1, <1>3, <2>1, <2>2, <2>4, <2>7, <2>8, <2>9, MatchGoesOn
<1> QED BY <1>7, <1>8

LEMMA MatchGiveUp ==
    ASSUME MatchInv, TInv', NEW t \in Applicants \cup Admins, GiveUp(t) PROVE MatchInv'
<1>1. /\ calls[t].step # "idle" /\ UNCHANGED <<requests, rows, loggedIn>> /\ Step(t, Idle)
      /\ disturbed' = IF calls[t].step = "mark" THEN disturbed \cup {calls[t].target}
                      ELSE disturbed
    BY DEF GiveUp
<1>2. TInv /\ Ids' = Ids /\ LiveIds' = LiveIds
    BY <1>1 DEF Ids, LiveIds, MatchInv
<1>3. \A u \in Applicants \cup Admins : u # t => calls'[u] = calls[u]
    BY <1>1, <1>2, IdleFact, StepFact
<1>4. CASE t \in Applicants
    <2>1. calls[t].step = "insert"
        BY <1>1, <1>2, <1>4 DEF TInv, CallsNamed
    <2>2. \A u \in Admins : calls'[u] = calls[u]
        BY <1>3, <1>4, PermissionsAssumption
    <2> QED BY <1>1, <2>1, <2>2, MatchFrame
<1>5. CASE t \in Admins
    <2>0. PICK g : g = calls[t].request
        OBVIOUS
    <2>1. LiveDisturbed'
        BY <1>1, <1>2 DEF LiveDisturbed, MatchInv
    <2>2. ASSUME g \in Quiet', Progress(calls[t])
          PROVE  /\ requests'[g].state = "APROBADA" => HasRows(g)
                 /\ requests'[g].state # "APROBADA" => HasNone(g)
        <3>1. ~(calls[t].step = "mark" /\ calls[t].target = g)
            BY <1>1, <2>2 DEF Quiet
        <3> QED BY <1>1, <1>5, <2>0, <2>2, <3>1, ProgressCases DEF Busy, Approved
    <2>3. Busy(t) /\ disturbed \subseteq disturbed'
        BY <1>1 DEF Busy
    <2> QED BY <1>1, <1>2, <1>5, <2>0, <2>1, <2>2, <2>3, MatchEnds
<1> QED BY <1>4, <1>5

\* A login or a logout changes the rows that his own career's assistant has; those
\* it could put at odds are disturbed.
LEMMA MatchSession == ASSUME MatchInv, TInv', Session PROVE MatchInv'
<1>1. /\ UNCHANGED <<requests, rows, calls>> /\ TInv
      /\ disturbed' = disturbed \cup
             {r \in Ids : /\ requests[r].career = Own
                          /\ requests[r].state = "APROBADA" \/ r \in Resolving}
    BY DEF Session, MatchInv
<1>2. /\ Ids' = Ids /\ LiveIds' = LiveIds /\ Quiet' \subseteq Quiet
      /\ \A r : r \in Resolving' <=> r \in Resolving
    BY <1>1 DEF Ids, LiveIds, Quiet, Resolving
<1>3. \A r \in Quiet' : Approved(r) \/ r \in Resolving => requests[r].career # Own
    BY <1>1, <1>2 DEF Quiet, Approved
<1>4. \A r : (HasNone(r)' <=> HasNone(r)) /\ (Approved(r)' <=> Approved(r))
    BY <1>1 DEF HasNone, RowsOf, Approved
<1>5. \A r \in Quiet' : Approved(r) \/ r \in Resolving => (HasRows(r)' <=> HasRows(r))
    BY <1>1, <1>3 DEF HasRows, RowsOf, ResourcesFor
<1>6. LiveDisturbed'
    BY <1>1, <1>2 DEF LiveDisturbed, MatchInv
<1>7. NoThird'
    BY <1>1, <1>2, <1>4 DEF NoThird, Busy, MatchInv
<1>8. Settled'
    BY <1>2, <1>4, <1>5 DEF Settled, MatchInv
<1>9. ResolvedAlone'
    <2> SUFFICES ASSUME NEW u \in Admins, Busy(u)', NEW q \in Quiet',
                        q \in {calls'[u].request, calls'[u].target}
                 PROVE  /\ q = calls'[u].request /\ Progress(calls[u])'
                        /\ \A v \in Admins : Busy(v)' => v = u
        BY DEF ResolvedAlone
    <2>1. /\ \A v \in Admins : Busy(v)' <=> Busy(v)
          /\ q \in {calls[u].request, calls[u].target} /\ q \in Quiet
        BY <1>1, <1>2 DEF Busy
    <2>2. q = calls[u].request /\ Progress(calls[u]) /\ \A v \in Admins : Busy(v) => v = u
        BY <2>1 DEF ResolvedAlone, MatchInv
    <2>3. HasRows(q)' <=> HasRows(q)
        BY <1>5, <2>1, AtWork
    <2>4. Progress(calls[u])'
        BY <1>1, <1>4, <2>2, <2>3 DEF Progress
    <2> QED BY <1>1, <2>1, <2>2, <2>4
<1> QED BY <1>6, <1>7, <1>8, <1>9 DEF MatchInv

LEMMA MatchStep == MatchInv /\ [Next]_vars => MatchInv'
<1> SUFFICES ASSUME MatchInv, [Next]_vars PROVE MatchInv'
    OBVIOUS
<1>0. TInv'
    BY TypeStep DEF MatchInv
<1>1. CASE \E t \in Applicants : Ask(t)
    <2>1. PICK t \in Applicants : Ask(t)
        BY <1>1
    <2>2. PICK c \in Call : Step(t, c)
        <3>1. [Idle EXCEPT !.step = "insert"] \in Call
            BY DEF Idle, Call, Steps, NoRequest
        <3> QED BY <2>1, <3>1 DEF Ask
    <2>3. \A u \in Admins : calls'[u] = calls[u]
        BY <2>2, StepFact, PermissionsAssumption DEF MatchInv
    <2> QED BY <1>0, <2>1, <2>3, MatchFrame DEF Ask
<1>2. CASE \E t \in Applicants, k \in Careers : Insert(t, k)
    BY <1>0, <1>2, MatchInsert
<1>3. CASE \E t \in Admins, r \in Ids, a \in DOMAIN Outcome : Read(t, r, a)
    BY <1>0, <1>3, MatchRead
<1>4. CASE \E t \in Admins : Previous(t) \/ Drop(t) \/ Mark(t)
    BY <1>0, <1>4, MatchPrevious, MatchDrop, MatchMark
<1>5. CASE \E t \in Admins, e \in Expirations : Grant(t, e)
    BY <1>0, <1>5, MatchGrant
<1>6. CASE \E t \in Applicants \cup Admins : GiveUp(t)
    BY <1>0, <1>6, MatchGiveUp
<1>7. CASE Session
    BY <1>0, <1>7, MatchSession
<1>8. CASE UNCHANGED portal /\ UNCHANGED loggedIn
    BY <1>0, <1>8, MatchFrame DEF portal
<1>9. CASE UNCHANGED vars
    BY <1>8, <1>9 DEF vars, portal
<1>10. ASSUME \/ SyncResources \/ SyncExceptions \/ OpaRestarts
              \/ \E r \in Asked : Query(r)
              \/ Check \/ Install \/ NotInstalled
              \/ \E f \in flows : Used(f) \/ FlowDeleted(f)
              \/ Tick
       PROVE  MatchInv'
    BY <1>8, <1>10 DEF SyncResources, SyncExceptions, OpaRestarts, Query, Check,
       Install, NotInstalled, Used, FlowDeleted, Tick
<1> QED BY <1>1, <1>2, <1>3, <1>4, <1>5, <1>6, <1>7, <1>9, <1>10 DEF Next

\* GrantsMatch: whatever the interleaving of applications, approvals, rejections and
\* revocations, each of several transactions (solicitar_jp and resolver_solicitud_jp of
\* m1_auth.py), an application outside of a resolution has its rows of
\* politicas_temporales exactly while it is approved, unless its own resolution was
\* disturbed.
THEOREM RowsAgree == Spec => []GrantsMatch
<1>1. MatchInv => GrantsMatch
    <2> SUFFICES ASSUME MatchInv, NEW r \in Ids \ (disturbed \cup Resolving)
                 PROVE  RowsOf(r) = IF requests[r].state = "APROBADA"
                                    THEN ResourcesFor(requests[r].career) ELSE {}
        BY DEF GrantsMatch
    <2> QED BY DEF MatchInv, Settled, Quiet, Approved, HasRows, HasNone
<1> QED BY <1>1, MatchInit, MatchStep, PTL DEF Spec

-----------------------------------------------------------------------------
(* OPA can answer                                                            *)

\* The rows of applications are permissions, all of one application with one date.
OneGrant ==
    \A x, y \in rows : x.by # NoRequest /\ y.by # NoRequest =>
        x.allow /\ x.by = y.by /\ x.expires = y.expires

Clash(E) == \E x, y \in E : x.res = y.res /\ x.allow = y.allow /\ x # y

OpaInv == disturbed = {} =>
              OneGrant /\ {x \in rows : x.by = NoRequest} = ByHand /\ ~Clash(opa.exceptions)

\* What was disturbed stays so.
LEMMA DisturbedStays == ASSUME TInv, Next PROVE disturbed \subseteq disturbed'
<1>1. ASSUME NEW t \in Applicants, Ask(t) \/ \E k \in Careers : Insert(t, k)
      PROVE  disturbed \subseteq disturbed'
    BY <1>1 DEF Ask, Insert
<1>2. ASSUME NEW t \in Admins,
             \/ \E r \in Ids, a \in DOMAIN Outcome : Read(t, r, a)
             \/ Drop(t) \/ \E e \in Expirations : Grant(t, e)
      PROVE  disturbed \subseteq disturbed'
    BY <1>2 DEF Read, Drop, Grant
<1>3. ASSUME NEW t \in Admins, Previous(t) \/ Mark(t) PROVE disturbed \subseteq disturbed'
    BY <1>3, PreviousFact, MarkFact
<1>4. ASSUME NEW t \in Applicants \cup Admins, GiveUp(t) PROVE disturbed \subseteq disturbed'
    BY <1>4 DEF GiveUp
<1>5. Session => disturbed \subseteq disturbed'
    BY DEF Session
<1>6. ASSUME \/ SyncResources \/ SyncExceptions \/ OpaRestarts
             \/ \E r \in Asked : Query(r)
             \/ Check \/ Install \/ NotInstalled
             \/ \E f \in flows : Used(f) \/ FlowDeleted(f)
             \/ Tick
      PROVE  disturbed \subseteq disturbed'
    BY <1>6 DEF SyncResources, SyncExceptions, OpaRestarts, Query, Check,
       Install, NotInstalled, Used, FlowDeleted, Tick, portal
<1> QED BY <1>1, <1>2, <1>3, <1>4, <1>5, <1>6 DEF Next

\* Rows that agree make exceptions that do.
LEMMA FetchedAgrees ==
    ASSUME DenialsByHand, OneGrant, {x \in rows : x.by = NoRequest} = ByHand
    PROVE  ~Clash(Fetched)
<1> SUFFICES ASSUME NEW x \in rows, NEW y \in rows, Entry(x).res = Entry(y).res,
                    Entry(x).allow = Entry(y).allow
             PROVE  Entry(x) = Entry(y)
    BY DEF Clash, Fetched
<1>1. x.res = y.res /\ x.allow = y.allow
    BY DEF Entry
<1>2. \A z \in rows : /\ z.by = NoRequest => z \in ByHand /\ ~z.allow
                      /\ z.by # NoRequest => z.allow
    BY DEF DenialsByHand, OneGrant
<1>3. CASE x.by = NoRequest
    BY <1>1, <1>2, <1>3 DEF DenialsByHand
<1>4. CASE x.by # NoRequest
    <2>1. x.expires = y.expires
        BY <1>1, <1>2, <1>4 DEF OneGrant
    <2> QED BY <1>1, <2>1 DEF Entry
<1> QED BY <1>3, <1>4

\* An approval that grants while nothing is disturbed finds no row of an application.
LEMMA GrantsAlone ==
    ASSUME MatchInv, NEW t \in Admins, NEW e \in Expirations, Grant(t, e), disturbed = {}
    PROVE  \A x \in rows : x.by = NoRequest
<1> SUFFICES ASSUME NEW x \in rows, x.by # NoRequest PROVE FALSE
    OBVIOUS
<1>1. Busy(t) /\ calls[t].step = "grant" /\ TInv
    BY DEF Grant, Busy, MatchInv
<1>2. x.by \in Quiet /\ ~HasNone(x.by)
    BY <1>1 DEF TInv, RowsNamed, Quiet, HasNone, RowsOf
<1>3. x.by \in Resolving
    BY <1>1, <1>2, ThirdFact
<1>4. x.by = calls[t].request /\ Progress(calls[t])
    BY <1>1, <1>2, <1>3, AloneFact
<1> QED BY <1>1, <1>2, <1>4, ProgressCases

LEMMA OpaGrant ==
    ASSUME DenialsByHand, MatchInv, OpaInv, NEW t \in Admins, NEW e \in Expirations,
           Grant(t, e), disturbed = {}, disturbed' = {}
    PROVE  OpaInv'
<1>1. PICK R \in SUBSET Resources :
         rows' = rows \cup {[res |-> x, allow |-> TRUE, expires |-> e,
                             by |-> calls[t].request] : x \in R}
    BY GrantRows DEF MatchInv
<1>2. calls[t].request # NoRequest
    BY GrantRows, CallFact DEF MatchInv, Ids, NoRequest
<1> DEFINE N == {[res |-> x, allow |-> TRUE, expires |-> e,
                  by |-> calls[t].request] : x \in R}
<1>3. /\ rows' = rows \cup N
      /\ \A y \in N : y.allow = TRUE /\ y.expires = e /\ y.by = calls[t].request
    BY <1>1
<1> HIDE DEF N
<1>4. \A x \in rows : x.by = NoRequest
    BY GrantsAlone
<1>5. OneGrant'
    BY <1>2, <1>3, <1>4 DEF OneGrant
<1>6. {x \in rows' : x.by = NoRequest} = {x \in rows : x.by = NoRequest}
    BY <1>2, <1>3
<1>7. opa' = opa
    BY DEF Grant
<1> QED BY <1>5, <1>6, <1>7 DEF OpaInv, Clash

\* Steps that add no row and no exception.
LEMMA OpaFrame ==
    ASSUME OpaInv, disturbed = {}, rows' \subseteq rows,
           {x \in rows' : x.by = NoRequest} = {x \in rows : x.by = NoRequest},
           opa'.exceptions \subseteq opa.exceptions
    PROVE  OpaInv'
BY DEF OpaInv, OneGrant, Clash

LEMMA OpaStep ==
    ASSUME DenialsByHand, MatchInv, OpaInv, [Next]_vars PROVE OpaInv'
<1> SUFFICES ASSUME disturbed' = {} PROVE OpaInv'
    BY DEF OpaInv
<1>0. disturbed = {} /\ TInv
    BY DisturbedStays DEF MatchInv, vars
<1>1. ASSUME NEW t \in Applicants, Ask(t) \/ \E k \in Careers : Insert(t, k)
      PROVE  OpaInv'
    BY <1>0, <1>1, OpaFrame DEF Ask, Insert
<1>2. ASSUME NEW t \in Admins, Drop(t) PROVE OpaInv'
    <2>1. PICK D : rows' = rows \ D /\ \A x \in D : x.by # NoRequest
        BY <1>2 DEF Drop, Deleted
    <2>2. opa' = opa
        BY <1>2 DEF Drop
    <2> QED BY <1>0, <2>1, <2>2, OpaFrame
<1>3. ASSUME NEW t \in Admins,
             \/ \E r \in Ids, a \in DOMAIN Outcome : Read(t, r, a)
             \/ Previous(t) \/ Mark(t)
      PROVE  OpaInv'
    BY <1>0, <1>3, OpaFrame DEF Read, Previous, Mark
<1>4. ASSUME NEW t \in Admins, NEW e \in Expirations, Grant(t, e) PROVE OpaInv'
    BY <1>0, <1>4, OpaGrant
<1>5. ASSUME NEW t \in Applicants \cup Admins, GiveUp(t) PROVE OpaInv'
    BY <1>0, <1>5, OpaFrame DEF GiveUp
<1>6. CASE Session
    BY <1>0, <1>6, OpaFrame DEF Session
<1>7. CASE SyncResources
    <2>1. opa'.exceptions = opa.exceptions
        BY <1>0, <1>7 DEF SyncResources, TInv, TypeOK
    <2> QED BY <1>0, <1>7, <2>1, OpaFrame DEF SyncResources, portal
<1>8. CASE SyncExceptions
    <2>1. opa'.exceptions = Fetched /\ UNCHANGED rows
        BY <1>0, <1>8 DEF SyncExceptions, portal, TInv, TypeOK
    <2>2. ~Clash(Fetched)
        BY <1>0, FetchedAgrees DEF OpaInv
    <2> QED BY <1>0, <2>1, <2>2 DEF OpaInv, OneGrant, Clash
<1>9. CASE OpaRestarts
    BY <1>0, <1>9, OpaFrame DEF OpaRestarts, portal
<1>10. CASE \E r \in Asked : Query(r)
    BY <1>0, <1>10, OpaFrame DEF Query, portal
<1>11. CASE \/ Check \/ Install \/ NotInstalled
            \/ \E f \in flows : Used(f) \/ FlowDeleted(f)
    BY <1>0, <1>11, OpaFrame DEF Check, Install, NotInstalled, Used, FlowDeleted, portal
<1>12. CASE Tick
    BY <1>0, <1>12, OpaFrame DEF Tick, portal
<1>13. CASE UNCHANGED vars
    BY <1>0, <1>13, OpaFrame DEF vars
<1> QED BY <1>1, <1>2, <1>3, <1>4, <1>5, <1>6, <1>7, <1>8, <1>9, <1>10, <1>11, <1>12,
           <1>13 DEF Next

\* OpaAnswers: where the rows written by hand are denials, one of a resource at most, no
\* history of applications and synchronizations gives policy.rego two exceptions that
\* contradict each other, unless a resolution was disturbed. A permission by hand would
\* do so on its own: every resource is one that an approval writes rows of.
THEOREM OpaNeverStuck ==
    ASSUME DenialsByHand PROVE Spec => []OpaAnswers
<1>1. Init => OpaInv
    <2> SUFFICES ASSUME Init PROVE OpaInv
        OBVIOUS
    <2>1. \A x \in ByHand : x.by = NoRequest
        BY PermissionsAssumption
    <2> QED BY <2>1 DEF Init, OpaInv, OneGrant, Clash
<1>2. MatchInv /\ OpaInv /\ [Next]_vars => OpaInv'
    BY OpaStep
<1>3. OpaInv => OpaAnswers
    BY DEF OpaInv, OpaAnswers, Conflict, Clash, AllowMap, DenyMap
<1> QED BY <1>1, <1>2, <1>3, MatchInit, MatchStep, PTL DEF Spec

-----------------------------------------------------------------------------
\* A permission is in force when its date is looked at, and no flow stays longer than
\* its timeout after its last packet.
InForce(p) == p.checked <= now /\ p.checked < p.expires

DueInv ==
    /\ TypeOK
    /\ packet.checked # Never => InForce(packet)
    /\ \A f \in flows : InForce(f) /\ now < f.last + Timeout(f)

\* The timeout is positive, and what was left of the permission at most.
LEMMA TimeoutFact ==
    ASSUME TypeOK, NEW p, p.checked \in Nat, p.expires \in Nat, p.checked < p.expires
    PROVE  /\ Timeout(p) \in Nat \ {0}
           /\ p.expires # Never => Timeout(p) <= p.expires - p.checked
BY PermissionsAssumption DEF Timeout

LEMMA DueInit == Init => DueInv
<1> SUFFICES ASSUME Init PROVE DueInv
    OBVIOUS
<1>1. TypeOK
    BY TypeInit DEF TInv
<1> QED BY <1>1 DEF Init, DueInv, Nothing

LEMMA DueStep == ASSUME DueInv, TypeOK', [Next]_vars PROVE DueInv'
<1>1. /\ packet \in Permission /\ flows \subseteq Flow /\ now \in 0..MaxTime
      /\ MaxTime \in Nat
    BY PermissionsAssumption DEF DueInv, TypeOK
<1>2. CASE UNCHANGED <<packet, flows, now>>
    BY <1>2 DEF DueInv, InForce, Timeout
<1>3. ASSUME NEW q \in Asked, Query(q) PROVE DueInv'
    <2>1. packet'.checked = Never /\ UNCHANGED <<flows, now>>
        BY <1>3 DEF Query, Permits, Granted
    <2> QED BY <2>1 DEF DueInv, InForce, Timeout
<1>4. CASE Check
    <2>1. UNCHANGED <<flows, now>>
        BY <1>4 DEF Check
    <2>2. packet'.checked # Never => InForce(packet)'
        BY <1>1, <1>4 DEF Check, InForce, Permission, Nothing
    <2> QED BY <2>1, <2>2 DEF DueInv, InForce, Timeout
<1>5. CASE Install
    <2>1. packet' = Nothing /\ UNCHANGED now
        BY <1>5 DEF Install
    <2> DEFINE new == [expires |-> packet.expires, checked |-> packet.checked, last |-> now]
    <2>2. flows' = {new}
        BY <1>5 DEF Install
    <2>3. InForce(packet)
        BY <1>5 DEF Install, DueInv
    <2>4. new.checked <= now /\ new.checked < new.expires /\ new.last = now
        BY <2>3 DEF InForce
    <2>5. new.checked \in Nat /\ new.expires \in Nat
        BY <1>1 DEF Permission
    <2>6. Timeout(new) \in Nat \ {0}
        BY <2>4, <2>5, TimeoutFact DEF DueInv
    <2>7. \A f \in flows' : f.checked <= now /\ f.checked < f.expires /\ now < f.last + Timeout(f)
        BY <1>1, <2>2, <2>4, <2>6
    <2>8. \A f \in flows' : InForce(f)' /\ (now < f.last + Timeout(f))'
        BY <2>1, <2>7 DEF InForce, Timeout
    <2> QED BY <2>1, <2>8 DEF DueInv, Nothing
<1>6. CASE NotInstalled
    BY <1>6 DEF NotInstalled, DueInv, InForce, Timeout, Nothing
<1>7. ASSUME NEW f \in flows, Used(f) PROVE DueInv'
    <2> DEFINE new == [f EXCEPT !.last = now]
    <2>1. UNCHANGED <<packet, now>> /\ flows' = (flows \ {f}) \cup {new}
        BY <1>7 DEF Used
    <2>2. /\ new.checked = f.checked /\ new.expires = f.expires /\ new.last = now
          /\ f.checked \in Nat /\ f.expires \in Nat
        BY <1>1 DEF Flow
    <2>3. InForce(f) /\ f.checked < f.expires
        BY DEF DueInv, InForce
    <2>4. Timeout(new) \in Nat \ {0}
        BY <2>2, <2>3, TimeoutFact DEF DueInv
    <2>5. InForce(new) /\ now < new.last + Timeout(new)
        BY <1>1, <2>2, <2>3, <2>4 DEF InForce
    <2>6. \A g \in flows' : InForce(g) /\ now < g.last + Timeout(g)
        BY <2>1, <2>5 DEF DueInv
    <2> QED BY <2>1, <2>6 DEF DueInv, InForce, Timeout
<1>8. ASSUME NEW f \in flows, FlowDeleted(f) PROVE DueInv'
    BY <1>8 DEF FlowDeleted, DueInv, InForce, Timeout
<1>9. CASE Tick
    <2>1. UNCHANGED packet /\ now' = now + 1
        BY <1>9 DEF Tick
    <2>2. \A f \in flows' : f \in flows /\ now' < f.last + Timeout(f)
        BY <1>9 DEF Tick
    <2>3. \A f \in flows' : InForce(f)'
        BY <1>1, <2>1, <2>2 DEF DueInv, InForce, Flow
    <2>4. \A f \in flows' : (now < f.last + Timeout(f))'
        BY <2>2 DEF Timeout
    <2>5. packet.checked # Never => InForce(packet)'
        BY <1>1, <2>1 DEF DueInv, InForce, Permission
    <2> QED BY <2>1, <2>3, <2>4, <2>5 DEF DueInv
<1> QED
    BY <1>2, <1>3, <1>4, <1>5, <1>6, <1>7, <1>8, <1>9 DEF Next, vars, Ask, Insert, Read,
       Previous, Drop, Grant, Mark, GiveUp, Session, SyncResources, SyncExceptions,
       OpaRestarts, network

\* RunsOut: however long M6 takes from its look at the date (_ttl_permiso) to the flow in
\* ONOS, and however often the flow is used, it outlives its last packet by no more than
\* what was left of the permission at that look.
THEOREM FlowsRunOut == Spec => []RunsOut
<1>1. DueInv => RunsOut
    <2> SUFFICES ASSUME DueInv, NEW f \in flows, f.expires # Never
                 PROVE  now < f.last + (f.expires - f.checked)
        BY DEF RunsOut
    <2>1. f \in Flow /\ now \in Nat
        BY DEF DueInv, TypeOK
    <2>2. f.checked \in Nat /\ f.expires \in Nat /\ f.last \in Nat /\ f.checked < f.expires
        BY <2>1 DEF Flow, DueInv, InForce
    <2>3. Timeout(f) \in Nat /\ Timeout(f) <= f.expires - f.checked
        BY <2>2, TimeoutFact DEF DueInv
    <2> QED BY <2>1, <2>2, <2>3 DEF DueInv
<1> QED BY <1>1, DueInit, DueStep, PermissionsTypeOK, PTL DEF Spec
=============================================================================
