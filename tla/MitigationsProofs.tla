--------------------------- MODULE MitigationsProofs ---------------------------
(***************************************************************************)
(* Theorems about Mitigations, for any handlers, incidents, flows, lifetime *)
(* and behaviour of ONOS.                                                  *)
(***************************************************************************)
EXTENDS Mitigations, TLAPS

\* Adding a rule keeps rules well formed, and what was forgotten stays so.
LEMMA PutFact ==
    ASSUME TypeOK, NEW f \in Flows, NEW i \in Incidents, NEW d \in Nat, Put(f, i, d)
    PROVE  /\ rules' \subseteq Rule
           /\ forgotten' \subseteq Flows
           /\ \A r \in rules' : \/ r.flow = f /\ r.owner = i
                               \/ /\ r \in rules
                                  /\ r.flow \in forgotten => r.flow \in forgotten'
<1>1. [flow |-> f, owner |-> i, until |-> clock + d] \in Rule
    BY ConstantsAssumption DEF TypeOK, Rule
<1> QED BY <1>1 DEF Put, TypeOK

\* Every step keeps the shape of the variables.
LEMMA TypeStep == TypeOK /\ [Next]_vars => TypeOK'
<1> SUFFICES ASSUME TypeOK, [Next]_vars PROVE TypeOK'
    OBVIOUS
<1>1. ASSUME NEW t \in Threads, NEW i \in Incidents, NEW F \in Requests[i],
             NEW d \in Ttls, Mitigate(t, i, F, d)
      PROVE  TypeOK'
    <2>1. F \subseteq Flows /\ d \in Nat
        BY ConstantsAssumption
    <2> QED BY <1>1, <2>1 DEF Mitigate, TypeOK
<1>2. ASSUME NEW t \in Threads, Install(t) PROVE TypeOK'
    <2>1. PICK f \in todo[t] :
             /\ Put(f, incident[t], ttl[t])
             /\ todo' = [todo EXCEPT ![t] = @ \ {f}]
             /\ got' = [got EXCEPT ![t] = @ \cup {f}]
        BY <1>2 DEF Install
    <2>2. f \in Flows /\ incident[t] \in Incidents /\ ttl[t] \in Nat
        BY DEF TypeOK
    <2>3. rules' \subseteq Rule /\ forgotten' \subseteq Flows
        BY <2>1, <2>2, PutFact
    <2> QED BY <1>2, <2>1, <2>2, <2>3 DEF Install, TypeOK
<1>3. ASSUME NEW t \in Threads, InstallFails(t) PROVE TypeOK'
    <2>1. PICK f \in todo[t] :
             /\ UNCHANGED <<rules, forgotten>> \/ Put(f, incident[t], ttl[t])
             /\ todo' = [todo EXCEPT ![t] = @ \ {f}]
        BY <1>3 DEF InstallFails
    <2>2. f \in Flows /\ incident[t] \in Incidents /\ ttl[t] \in Nat
        BY DEF TypeOK
    <2>3. rules' \subseteq Rule /\ forgotten' \subseteq Flows
        BY <2>1, <2>2, PutFact DEF TypeOK
    <2> QED BY <1>3, <2>1, <2>2, <2>3 DEF InstallFails, TypeOK
<1>4. ASSUME NEW t \in Threads, Store(t) PROVE TypeOK'
    <2>1. Entry(t) \in Record
        BY ConstantsAssumption DEF Entry, Record, TypeOK
    <2>2. Dropped(t) \subseteq Flows
        BY DEF Dropped, TypeOK, Rule
    <2> QED BY <1>4, <2>1, <2>2 DEF Store, TypeOK
<1>5. ASSUME NEW t \in Threads, NEW i \in Incidents, Undo(t, i) PROVE TypeOK'
    BY <1>5 DEF Undo, TypeOK, Record
<1>6. ASSUME NEW t \in Threads, Delete(t) PROVE TypeOK'
    BY <1>6 DEF Delete, TypeOK
<1>7. ASSUME NEW t \in Threads, DeleteFails(t) PROVE TypeOK'
    BY <1>7 DEF DeleteFails, TypeOK
<1>8. ASSUME NEW t \in Threads, Mark(t) PROVE TypeOK'
    <2>1. /\ mitigaciones[incident[t]] \subseteq Record
          /\ \A m, n \in mitigaciones[incident[t]] : m = n
        BY DEF TypeOK
    <2>2. /\ Closed(incident[t]) \subseteq Record
          /\ \A m, n \in Closed(incident[t]) : m = n
        BY <2>1 DEF Closed, Record
    <2>3. /\ Marked(t) \subseteq Record
          /\ \A m, n \in Marked(t) : m = n
        BY <2>1, <2>2 DEF Marked
    <2> QED BY <1>8, <2>3 DEF Mark, TypeOK
<1>9. ASSUME NEW i \in Incidents, Notify(i) PROVE TypeOK'
    BY <1>9 DEF Notify, work, TypeOK
<1>10. CASE RuleTimesOut
    BY <1>10 DEF RuleTimesOut, work, TypeOK
<1>11. CASE Tick
    BY <1>11 DEF Tick, work, TypeOK
<1>12. CASE Restart
    BY <1>12 DEF Restart, TypeOK, Rule
<1>13. CASE UNCHANGED vars
    BY <1>13 DEF vars, work, TypeOK
<1> QED
    BY <1>1, <1>2, <1>3, <1>4, <1>5, <1>6, <1>7, <1>8, <1>9, <1>10, <1>11,
       <1>12, <1>13 DEF Next, Step

\* Type correctness of the mitigations, in every reachable state.
THEOREM TypeCorrect == Spec => []TypeOK
<1>1. Init => TypeOK
    BY DEF Init, Empty, TypeOK
<1> QED BY <1>1, TypeStep, PTL DEF Spec

-----------------------------------------------------------------------------
(***************************************************************************)
(* The inductive invariant behind NoHiddenDrop                             *)
(***************************************************************************)
\* A handler at work on the incident has just installed the flow.
Fresh(i, f) ==
    \E t \in Threads : pc[t] = "installing" /\ incident[t] = i /\ f \in got[t]

\* What NoHiddenDrop excuses for good.
Excused(r) == r.owner \in failed \/ r.flow \in forgotten

\* While the record being undone is still in the dictionary, a flow that is not
\* on the list of deletions has been put in by a handler that is still at work.
UndoCovers ==
    \A t \in Threads :
        pc[t] = "deleting" /\ current[t] =>
            \A r \in rules :
                r.owner = incident[t] =>
                    Excused(r) \/ r.flow \in todo[t] \/ Fresh(r.owner, r.flow)

\* A flow that no handler has just installed is named by the record of its incident.
Accounted ==
    \A r \in rules :
        \/ Excused(r)
        \/ Fresh(r.owner, r.flow)
        \/ \E m \in mitigaciones[r.owner] : m.active /\ r.flow \in m.flows

IInv == TypeOK /\ UndoCovers /\ Accounted

LEMMA IInvInit == Init => IInv
BY DEF Init, Empty, IInv, TypeOK, UndoCovers, Accounted

LEMMA IInvStep == IInv /\ [Next]_vars => IInv'
<1> SUFFICES ASSUME IInv, [Next]_vars PROVE IInv'
    OBVIOUS
<1>0. TypeOK /\ TypeOK'
    BY TypeStep DEF IInv
<1>1. ASSUME NEW t \in Threads, NEW i \in Incidents, NEW F \in Requests[i],
             NEW d \in Ttls, Mitigate(t, i, F, d)
      PROVE  IInv'
    <2>1. \A j, f : Fresh(j, f) => Fresh(j, f)'
        BY <1>0, <1>1 DEF Mitigate, Fresh, TypeOK
    <2>2. UndoCovers'
        BY <1>0, <1>1, <2>1 DEF Mitigate, IInv, UndoCovers, Excused, TypeOK
    <2>3. Accounted'
        BY <1>1, <2>1 DEF Mitigate, IInv, Accounted, Excused
    <2> QED BY <1>0, <2>2, <2>3 DEF IInv
<1>2. ASSUME NEW t \in Threads, Install(t) PROVE IInv'
    <2>1. PICK f \in todo[t] :
             /\ Put(f, incident[t], ttl[t])
             /\ todo' = [todo EXCEPT ![t] = @ \ {f}]
             /\ got' = [got EXCEPT ![t] = @ \cup {f}]
        BY <1>2 DEF Install
    <2>2. f \in Flows /\ incident[t] \in Incidents /\ ttl[t] \in Nat
        BY <1>0 DEF TypeOK
    <2>3. \A r \in rules' : \/ r.flow = f /\ r.owner = incident[t]
                            \/ r \in rules /\ (Excused(r) => Excused(r)')
        BY <1>0, <1>2, <2>1, <2>2, PutFact DEF Install, Excused
    <2>4. \A j, g : Fresh(j, g) => Fresh(j, g)'
        BY <1>0, <1>2, <2>1 DEF Install, Fresh, TypeOK
    <2>5. \A r : r.flow = f /\ r.owner = incident[t] => Fresh(r.owner, r.flow)'
        BY <1>0, <1>2, <2>1 DEF Install, Fresh, TypeOK
    <2>6. UndoCovers'
        <3> SUFFICES ASSUME NEW u \in Threads, pc'[u] = "deleting", current'[u],
                            NEW r \in rules', r.owner = incident'[u]
                     PROVE  Excused(r)' \/ r.flow \in todo'[u] \/ Fresh(r.owner, r.flow)'
            BY DEF UndoCovers
        <3>1. /\ pc[u] = "deleting" /\ current[u] /\ incident'[u] = incident[u]
              /\ todo'[u] = todo[u]
            BY <1>0, <1>2, <2>1 DEF Install, TypeOK
        <3>2. CASE r.flow = f /\ r.owner = incident[t]
            BY <2>5, <3>2
        <3>3. CASE r \in rules /\ (Excused(r) => Excused(r)')
            BY <2>4, <3>1, <3>3 DEF IInv, UndoCovers
        <3> QED BY <2>3, <3>2, <3>3
    <2>7. Accounted'
        BY <1>2, <2>3, <2>4, <2>5 DEF Install, IInv, Accounted
    <2> QED BY <1>0, <2>6, <2>7 DEF IInv
<1>3. ASSUME NEW t \in Threads, InstallFails(t) PROVE IInv'
    <2>1. PICK f \in todo[t] :
             /\ UNCHANGED <<rules, forgotten>> \/ Put(f, incident[t], ttl[t])
             /\ todo' = [todo EXCEPT ![t] = @ \ {f}]
        BY <1>3 DEF InstallFails
    <2>2. f \in Flows /\ incident[t] \in Incidents /\ ttl[t] \in Nat
        BY <1>0 DEF TypeOK
    <2>3. failed' = failed \cup {incident[t]}
        BY <1>3 DEF InstallFails
    <2>4. \A r \in rules' : \/ r.owner = incident[t]
                            \/ r \in rules /\ (Excused(r) => Excused(r)')
        <3>1. CASE UNCHANGED <<rules, forgotten>>
            BY <2>3, <3>1 DEF Excused
        <3>2. CASE Put(f, incident[t], ttl[t])
            BY <1>0, <2>2, <2>3, <3>2, PutFact DEF Excused
        <3> QED BY <2>1, <3>1, <3>2
    <2>5. \A j, g : Fresh(j, g) => Fresh(j, g)'
        BY <1>3 DEF InstallFails, Fresh
    <2>6. \A r : r.owner = incident[t] => Excused(r)'
        BY <2>3 DEF Excused
    <2>7. UndoCovers'
        BY <1>0, <1>3, <2>1, <2>4, <2>5, <2>6
        DEF InstallFails, IInv, UndoCovers, TypeOK
    <2>8. Accounted'
        BY <1>3, <2>4, <2>5, <2>6 DEF InstallFails, IInv, Accounted
    <2> QED BY <1>0, <2>7, <2>8 DEF IInv
<1>4. ASSUME NEW t \in Threads, Store(t) PROVE IInv'
    <2> DEFINE i == incident[t]
    <2>1. /\ i \in Incidents /\ mitigaciones'[i] = {Entry(t)}
          /\ Entry(t).flows = got[t] /\ Entry(t).active
          /\ \A j \in Incidents \ {i} : mitigaciones'[j] = mitigaciones[j]
        BY <1>0, <1>4 DEF Store, Entry, TypeOK
    <2>2. rules' = rules /\ \A r : Excused(r) => Excused(r)'
        BY <1>4 DEF Store, Excused
    <2>3. \A j, f : Fresh(j, f) => Fresh(j, f)' \/ (j = i /\ f \in got[t])
        BY <1>0, <1>4 DEF Store, Fresh, TypeOK
    <2>4. UndoCovers'
        <3> SUFFICES ASSUME NEW u \in Threads, pc'[u] = "deleting", current'[u],
                            NEW r \in rules', r.owner = incident'[u]
                     PROVE  Excused(r)' \/ r.flow \in todo'[u] \/ Fresh(r.owner, r.flow)'
            BY DEF UndoCovers
        <3>1. /\ todo' = todo /\ incident' = incident
              /\ pc[u] = "deleting" /\ current[u] /\ incident[u] # i
            BY <1>0, <1>4 DEF Store, TypeOK
        <3> QED BY <2>2, <2>3, <3>1 DEF IInv, UndoCovers
    <2>5. Accounted'
        <3> SUFFICES ASSUME NEW r \in rules
                     PROVE  \/ Excused(r)'
                            \/ Fresh(r.owner, r.flow)'
                            \/ \E m \in mitigaciones'[r.owner] : m.active /\ r.flow \in m.flows
            BY <2>2 DEF Accounted
        <3>1. r.owner \in Incidents
            BY <1>0 DEF TypeOK, Rule
        <3>2. CASE r.owner = i /\ r.flow \in got[t]
            BY <2>1, <3>2
        <3>3. CASE r.owner = i /\ r.flow \notin got[t]
            <4>1. (\E m \in mitigaciones[i] : r.flow \in m.flows) => r.flow \in Dropped(t)
                BY <3>3 DEF Dropped
            <4>2. r.flow \in Dropped(t) => Excused(r)'
                BY <1>4 DEF Store, Excused
            <4> QED BY <2>2, <2>3, <3>3, <4>1, <4>2 DEF IInv, Accounted
        <3>4. CASE r.owner # i
            BY <2>1, <2>2, <2>3, <3>1, <3>4 DEF IInv, Accounted
        <3> QED BY <3>2, <3>3, <3>4
    <2> QED BY <1>0, <2>4, <2>5 DEF IInv
<1>5. ASSUME NEW t \in Threads, NEW i \in Incidents, Undo(t, i) PROVE IInv'
    <2>1. PICK m \in mitigaciones[i] : todo' = [todo EXCEPT ![t] = m.flows]
        BY <1>5 DEF Undo
    <2>2. \A n \in mitigaciones[i] : n = m
        BY <1>0 DEF TypeOK
    <2>3. \A j, f : Fresh(j, f) => Fresh(j, f)'
        BY <1>0, <1>5 DEF Undo, Fresh, TypeOK
    <2>4. rules' = rules /\ \A r : Excused(r) => Excused(r)'
        BY <1>5 DEF Undo, Excused
    <2>5. UndoCovers'
        <3> SUFFICES ASSUME NEW u \in Threads, pc'[u] = "deleting", current'[u],
                            NEW r \in rules, r.owner = incident'[u]
                     PROVE  Excused(r)' \/ r.flow \in todo'[u] \/ Fresh(r.owner, r.flow)'
            BY <2>4 DEF UndoCovers
        <3>1. CASE u = t
            <4>1. incident'[u] = i /\ todo'[u] = m.flows
                BY <1>0, <1>5, <2>1, <3>1 DEF Undo, TypeOK
            <4> QED BY <2>2, <2>3, <2>4, <4>1 DEF IInv, Accounted
        <3>2. CASE u # t
            <4>1. /\ pc[u] = "deleting" /\ current[u]
                  /\ incident'[u] = incident[u] /\ todo'[u] = todo[u]
                BY <1>0, <1>5, <2>1, <3>2 DEF Undo, TypeOK
            <4> QED BY <2>3, <2>4, <4>1 DEF IInv, UndoCovers
        <3> QED BY <3>1, <3>2
    <2>6. Accounted'
        BY <1>5, <2>3, <2>4 DEF Undo, IInv, Accounted
    <2> QED BY <1>0, <2>5, <2>6 DEF IInv
<1>6. ASSUME NEW t \in Threads, Delete(t) PROVE IInv'
    <2>1. PICK f \in todo[t] :
             /\ rules' = {r \in rules : r.flow # f}
             /\ todo' = [todo EXCEPT ![t] = @ \ {f}]
        BY <1>6 DEF Delete
    <2>2. \A j, g : Fresh(j, g) => Fresh(j, g)'
        BY <1>6 DEF Delete, Fresh
    <2>3. \A r : Excused(r) => Excused(r)'
        BY <1>6 DEF Delete, Excused
    <2>4. UndoCovers'
        BY <1>0, <1>6, <2>1, <2>2, <2>3 DEF Delete, IInv, UndoCovers, TypeOK
    <2>5. Accounted'
        BY <1>6, <2>1, <2>2, <2>3 DEF Delete, IInv, Accounted
    <2> QED BY <1>0, <2>4, <2>5 DEF IInv
<1>7. ASSUME NEW t \in Threads, DeleteFails(t) PROVE IInv'
    <2>1. PICK f \in todo[t] :
             /\ UNCHANGED rules \/ rules' = {r \in rules : r.flow # f}
             /\ todo' = [todo EXCEPT ![t] = @ \ {f}]
        BY <1>7 DEF DeleteFails
    <2>2. \A j, g : Fresh(j, g) => Fresh(j, g)'
        BY <1>7 DEF DeleteFails, Fresh
    <2>3. rules' \subseteq rules
        BY <2>1
    <2>4. \A r : Excused(r) \/ r.owner = incident[t] => Excused(r)'
        BY <1>7 DEF DeleteFails, Excused
    <2>5. UndoCovers'
        BY <1>0, <1>7, <2>1, <2>2, <2>3, <2>4 DEF DeleteFails, IInv, UndoCovers, TypeOK
    <2>6. Accounted'
        BY <1>7, <2>2, <2>3, <2>4 DEF DeleteFails, IInv, Accounted
    <2> QED BY <1>0, <2>5, <2>6 DEF IInv
<1>8. ASSUME NEW t \in Threads, Mark(t) PROVE IInv'
    <2> DEFINE i == incident[t]
    <2>1. \A j, f : Fresh(j, f) => Fresh(j, f)'
        BY <1>0, <1>8 DEF Mark, Fresh, TypeOK
    <2>2. rules' = rules /\ \A r : Excused(r) => Excused(r)'
        BY <1>8 DEF Mark, Excused
    <2>3. UndoCovers'
        BY <1>0, <1>8, <2>1, <2>2 DEF Mark, IInv, UndoCovers, TypeOK
    <2>4. Accounted'
        <3>1. CASE current[t]
            <4>1. \A r \in rules : r.owner = i => Excused(r) \/ Fresh(r.owner, r.flow)
                BY <1>8, <3>1 DEF Mark, IInv, UndoCovers
            <4>2. \A r \in rules : r.owner # i => mitigaciones'[r.owner] = mitigaciones[r.owner]
                BY <1>0, <1>8 DEF Mark, TypeOK, Rule
            <4> QED BY <2>1, <2>2, <4>1, <4>2 DEF IInv, Accounted
        <3>2. CASE ~current[t]
            <4>1. mitigaciones' = mitigaciones
                BY <1>0, <1>8, <3>2 DEF Mark, Marked, TypeOK
            <4> QED BY <2>1, <2>2, <4>1 DEF IInv, Accounted
        <3> QED BY <3>1, <3>2
    <2> QED BY <1>0, <2>3, <2>4 DEF IInv
<1>9. ASSUME rules' \subseteq rules,
             UNCHANGED <<mitigaciones, work, failed, forgotten>>
      PROVE  IInv'
    <2>1. \A j, f : Fresh(j, f)' <=> Fresh(j, f)
        BY <1>9 DEF work, Fresh
    <2>2. \A r : Excused(r)' <=> Excused(r)
        BY <1>9 DEF Excused
    <2> QED
        BY <1>0, <1>9, <2>1, <2>2 DEF IInv, work, UndoCovers, Accounted
<1>10. ASSUME NEW i \in Incidents, Notify(i) PROVE IInv'
    BY <1>9, <1>10 DEF Notify
<1>11. CASE RuleTimesOut
    BY <1>9, <1>11 DEF RuleTimesOut
<1>12. CASE Tick
    BY <1>9, <1>12 DEF Tick
<1>13. CASE Restart
    BY <1>0, <1>13 DEF Restart, IInv, UndoCovers, Accounted, Excused, TypeOK
<1>14. CASE UNCHANGED vars
    BY <1>9, <1>14 DEF vars
<1> QED
    BY <1>1, <1>2, <1>3, <1>4, <1>5, <1>6, <1>7, <1>8, <1>10, <1>11, <1>12,
       <1>13, <1>14 DEF Next, Step

LEMMA IInvImplies == IInv => NoHiddenDrop
BY DEF IInv, Accounted, NoHiddenDrop, Excused, Fresh, AtWork

\* No DROP is left in ONOS that M6 does not list and could not undo, however requests
\* (for the same flows or for others), removals and restarts interleave, unless ONOS has
\* failed a call for the incident or M6 has forgotten the flow: a restart emptied the
\* dictionary, or a request for other flows took the record's place.
THEOREM NoHiddenDropHolds == Spec => []NoHiddenDrop
<1>1. Init => IInv
    BY IInvInit
<1>2. IInv /\ [Next]_vars => IInv'
    BY IInvStep
<1> QED BY <1>1, <1>2, IInvImplies, PTL DEF Spec

=============================================================================
