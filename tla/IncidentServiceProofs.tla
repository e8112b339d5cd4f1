------------------------- MODULE IncidentServiceProofs -------------------------
(***************************************************************************)
(* Theorems about IncidentService, for any events, hosts, lifetimes and    *)
(* size of the history, and, where a theorem does not name one, for either *)
(* repository and any number of overlapping calls; and, at the end, about  *)
(* BlockLoop, in which M4 runs together with M6, for any handlers of M6.   *)
(***************************************************************************)
EXTENDS BlockLoop, FiniteSetTheorems, WellFoundedInduction, TLAPS

\* Adding an entry keeps a history a history and puts the entry in front.
LEMMA PrependFact ==
    ASSUME NEW item \in ActionResult, NEW history \in Seq(ActionResult)
    PROVE  /\ Prepend(item, history) \in Seq(ActionResult)
           /\ Prepend(item, history) # <<>>
           /\ Prepend(item, history)[1] = item
<1> DEFINE n == IF Len(history) < HistoryCap THEN Len(history) + 1 ELSE HistoryCap
<1>1. n \in Nat /\ n >= 1 /\ n <= Len(history) + 1
    BY ConstantsAssumption
<1>2. \A i \in 1..n : i # 1 => history[i - 1] \in ActionResult
    BY <1>1
<1>3. Prepend(item, history) = [i \in 1..n |-> IF i = 1 THEN item ELSE history[i - 1]]
    BY DEF Prepend
<1>4. Prepend(item, history) \in [1..n -> ActionResult]
    BY <1>2, <1>3
<1>5. Prepend(item, history) \in Seq(ActionResult)
    BY <1>1, <1>4
<1>6. Prepend(item, history)[1] = item /\ Len(Prepend(item, history)) = n
    BY <1>1, <1>3, <1>4, <1>5
<1> QED BY <1>1, <1>5, <1>6

\* Closing the entries of a history keeps it a history, with none running.
LEMMA LiftAllFact ==
    ASSUME NEW history \in Seq(ActionResult), clock \in Nat \ {0}
    PROVE  /\ LiftAll(history) \in Seq(ActionResult)
           /\ \A i \in DOMAIN LiftAll(history) : ~Live(LiftAll(history)[i])
<1>1. \A i \in 1..Len(history) : history[i] \in ActionResult
    OBVIOUS
<1>2. LiftAll(history) \in [1..Len(history) -> ActionResult]
    BY <1>1 DEF LiftAll, ActionResult
<1>3. LiftAll(history) \in Seq(ActionResult)
    BY <1>2
<1>4. ASSUME NEW i \in 1..Len(history)
      PROVE  ~Live(LiftAll(history)[i])
    <2>1. CASE history[i].status = "EXECUTED"
        <3>1. LiftAll(history)[i] = [history[i] EXCEPT !.until = clock]
            BY <2>1 DEF LiftAll
        <3>2. LiftAll(history)[i].until = clock
            BY <3>1, <1>1 DEF ActionResult
        <3> QED BY <3>2 DEF Live, Never
    <2>2. CASE history[i].status # "EXECUTED"
        BY <2>2 DEF LiftAll, Live
    <2> QED BY <2>1, <2>2
<1> QED BY <1>2, <1>3, <1>4

\* Changing the state of an incident changes nothing else.
LEMMA StateChangeFact ==
    ASSUME NEW r \in Incident, NEW st \in IncidentState
    PROVE  /\ [r EXCEPT !.state = st] \in Incident
           /\ [r EXCEPT !.state = st].state = st
           /\ [r EXCEPT !.state = st].history = r.history
BY DEF Incident

\* A decision keeps the incident well formed and never leaves it EXPIRED.
LEMMA UpdateFact ==
    ASSUME NEW r \in Incident, NEW act \in Decision
    PROVE  /\ Update(r, act) \in Incident
           /\ Update(r, act).history = r.history
           /\ Update(r, act).state = UpdatedState(r, act)
           /\ UpdatedState(r, act) # "EXPIRED"
           /\ UpdatedState(r, act) \in ActiveStates \cup {"MITIGATING"} =>
                 /\ UpdatedState(r, act) = r.state
                 /\ r.state \in ActiveStates => HasActiveAction(r, r.rec)
<1>1. UpdatedState(r, act) \in IncidentState
    BY DEF Incident, UpdatedState, RefreshedState, StateByAction, Decision,
           Actionable, IncidentState, ActiveStates
<1>2. Update(r, act) \in Incident /\ Update(r, act).history = r.history
      /\ Update(r, act).state = UpdatedState(r, act)
    BY <1>1 DEF Update, Incident
<1>3. UpdatedState(r, act) # "EXPIRED"
    BY DEF UpdatedState, RefreshedState, StateByAction, Decision, Actionable
<1>4. UpdatedState(r, act) \in ActiveStates \cup {"MITIGATING"} =>
         /\ UpdatedState(r, act) = r.state
         /\ r.state \in ActiveStates => HasActiveAction(r, r.rec)
    BY DEF UpdatedState, RefreshedState, StateByAction, Decision, Actionable,
           ActiveStates
<1> QED BY <1>2, <1>3, <1>4

\* A result leaves a well-formed incident whose state its newest entry explains.
LEMMA SettledFact ==
    ASSUME NEW r \in Incident, NEW result \in ActionResult
    PROVE  /\ Settled(r, result) \in Incident
           /\ Backed(Settled(r, result))
           /\ Settled(r, result).state \notin {"EXPIRED", "MITIGATING"}
           /\ result.status # "EXECUTED" => Settled(r, result).state = "WATCHING"
<1> DEFINE st == IF result.status = "EXECUTED" THEN StateByAction[result.act]
                                               ELSE "WATCHING"
<1>1. /\ st \in IncidentState /\ st \notin {"EXPIRED", "MITIGATING"}
      /\ st \in ActiveStates =>
            result.status = "EXECUTED" /\ st = StateByAction[result.act]
    BY DEF ActionResult, Actionable, StateByAction, IncidentState, ActiveStates
<1>2. /\ Prepend(result, r.history) \in Seq(ActionResult)
      /\ Prepend(result, r.history) # <<>>
      /\ Prepend(result, r.history)[1] = result
    BY PrependFact DEF Incident
<1>3. /\ Settled(r, result) \in Incident
      /\ Settled(r, result).state = st
      /\ Settled(r, result).history = Prepend(result, r.history)
    BY <1>1, <1>2 DEF Settled, Incident
<1> QED BY <1>1, <1>2, <1>3 DEF Backed

\* The answers to a call, real or simulated, are entries a history may hold.
LEMMA AnswersFact ==
    ASSUME TypeOK, NEW e \in Events, NEW act \in Actionable
    PROVE  /\ Simulated(e, act) \in ActionResult
           /\ Simulated(e, act).status = "SIMULATED"
           /\ task[e].act = act => Answers(e) \subseteq ActionResult
<1>1. act # "MIRROR" => clock + Ttl[act] \in Nat
    BY ConstantsAssumption DEF TypeOK, Actionable
<1> QED
    BY <1>1 DEF Simulated, Answers, AnswerExecuted, AnswerFailed, ActionResult,
                Never, Actionable

LEMMA NewIncidentFact ==
    /\ NewIncident \in Incident
    /\ IdleTask \in Task
    /\ [busy |-> FALSE, copy |-> NewIncident] \in [busy : BOOLEAN, copy : Incident]
<1>1. <<>> \in Seq(ActionResult)
    OBVIOUS
<1>2. NewIncident \in Incident
    BY <1>1 DEF NewIncident, Incident, IncidentState, Decision
<1> QED BY <1>2 DEF IdleTask, Task, Decision

LEMMA HeldFact ==
    ASSUME TypeOK, NEW e \in Events
    PROVE  Held(e) \in Incident
BY ConstantsAssumption DEF TypeOK, Held, Task

-----------------------------------------------------------------------------
(***************************************************************************)
(* Type correctness                                                        *)
(***************************************************************************)
LEMMA InitType == Init => TypeOK
BY NewIncidentFact DEF Init, TypeOK, InFlight, IdleTask

LEMMA NextType == TypeOK /\ [Next]_vars => TypeOK'
<1> SUFFICES ASSUME TypeOK, [Next]_vars
             PROVE  TypeOK'
    OBVIOUS
<1> USE ConstantsAssumption
<1>1. ASSUME NEW e \in Events, Receive(e)
      PROVE  TypeOK'
    <2>1. incident[HostOf[e]] \in Incident
        BY DEF TypeOK
    <2> DEFINE c == IF Persistence = "mysql" THEN incident[HostOf[e]] ELSE NewIncident
    <2>2. [pc |-> "deciding", act |-> "LOG", copy |-> c] \in Task
        BY <2>1, NewIncidentFact DEF Task, Decision
    <2> QED BY <1>1, <2>2 DEF TypeOK, Receive, InFlight
<1>2. ASSUME NEW e \in Events, NEW act \in Decision, DecideOnly(e, act)
      PROVE  TypeOK'
    <2>1. Update(Held(e), act) \in Incident
        BY HeldFact, UpdateFact
    <2>2. [IdleTask EXCEPT !.pc = "done"] \in Task
        BY NewIncidentFact DEF IdleTask, Task
    <2> QED BY <1>2, <2>1, <2>2 DEF TypeOK, DecideOnly, Save, InFlight, IdleTask
<1>3. ASSUME NEW e \in Events, NEW act \in Decision, DecideSimulated(e, act)
      PROVE  TypeOK'
    <2>1. act \in Actionable
        BY <1>3 DEF DecideSimulated, ShouldExecute
    <2>2. Simulated(e, act) \in ActionResult
        BY <2>1, AnswersFact
    <2>3. Settled(Update(Held(e), act), Simulated(e, act)) \in Incident
        BY <2>2, HeldFact, UpdateFact, SettledFact
    <2>4. [IdleTask EXCEPT !.pc = "done"] \in Task
        BY NewIncidentFact DEF IdleTask, Task
    <2> QED BY <1>3, <2>2, <2>3, <2>4 DEF TypeOK, DecideSimulated, Save, InFlight, IdleTask
<1>4. ASSUME NEW e \in Events, NEW act \in Decision, DecideCall(e, act)
      PROVE  TypeOK'
    <2> DEFINE r == [Update(Held(e), act) EXCEPT !.state = "MITIGATING"]
               c == IF Persistence = "mysql" THEN r ELSE NewIncident
    <2>1. r \in Incident
        BY HeldFact, UpdateFact DEF Incident, IncidentState
    <2>2. [pc |-> "calling", act |-> act, copy |-> c] \in Task
        BY <2>1, NewIncidentFact DEF Task
    <2> QED BY <1>4, <2>1, <2>2 DEF TypeOK, DecideCall, Save, InFlight, ShouldExecute
<1>5. ASSUME NEW e \in Events, Complete(e)
      PROVE  TypeOK'
    <2>1. PICK result \in Answers(e) :
             /\ Save(HostOf[e], Settled(Held(e), result))
             /\ actions' = actions \cup {result}
        BY <1>5 DEF Complete, Record
    <2>2. task[e].act \in Actionable
        BY <1>5 DEF Complete, Record, TypeOK, InFlight
    <2>3. result \in ActionResult
        BY <2>1, <2>2, AnswersFact
    <2>4. Settled(Held(e), result) \in Incident
        BY <2>3, HeldFact, SettledFact
    <2>5. [IdleTask EXCEPT !.pc = "done"] \in Task
        BY NewIncidentFact DEF IdleTask, Task
    <2> QED BY <1>5, <2>1, <2>3, <2>4, <2>5 DEF TypeOK, Complete, Record, Save, InFlight, IdleTask
<1>6. ASSUME NEW e \in Events, Raise(e)
      PROVE  TypeOK'
    <2>1. [IdleTask EXCEPT !.pc = "raised"] \in Task
        BY NewIncidentFact DEF IdleTask, Task
    <2> QED BY <1>6, <2>1 DEF TypeOK, Raise, InFlight, IdleTask
<1>7. ASSUME NEW h \in Hosts, MarkBegin(h)
      PROVE  TypeOK'
    <2>1. incident[h] \in Incident /\ "EXPIRED" \in IncidentState
        BY DEF TypeOK, IncidentState
    <2>2. [incident[h] EXCEPT !.state = "EXPIRED"] \in Incident
        BY <2>1, StateChangeFact
    <2>3. incident' \in [Hosts -> Incident]
        BY <1>7, <2>2 DEF TypeOK, MarkBegin
    <2>4. marking' \in [Hosts -> [busy : BOOLEAN, copy : Incident]]
        BY <1>7, <2>1, NewIncidentFact DEF TypeOK, MarkBegin
    <2> QED BY <1>7, <2>3, <2>4 DEF TypeOK, MarkBegin, InFlight
<1>8. ASSUME NEW h \in Hosts, MarkEnd(h)
      PROVE  TypeOK'
    <2> DEFINE r == IF Persistence = "mysql"
                    THEN [marking[h].copy EXCEPT !.state = "EXPIRED"]
                    ELSE incident[h]
    <2>1. r \in Incident
        <3>1. /\ marking[h].copy \in Incident /\ incident[h] \in Incident
              /\ "EXPIRED" \in IncidentState
            BY DEF TypeOK, IncidentState
        <3> QED BY <3>1, StateChangeFact
    <2>2. LiftAll(r.history) \in Seq(ActionResult)
        BY <2>1, LiftAllFact DEF TypeOK, Incident
    <2>3. [r EXCEPT !.history = LiftAll(r.history)] \in Incident
        BY <2>1, <2>2 DEF Incident
    <2> QED BY <1>8, <2>3, NewIncidentFact DEF TypeOK, MarkEnd, Save, InFlight
<1>9. CASE Tick
    BY <1>9 DEF TypeOK, Tick, InFlight
<1>10. CASE Restart
    <2>1. [IdleTask EXCEPT !.pc = "lost"] \in Task
        BY NewIncidentFact DEF IdleTask, Task
    <2> QED BY <1>10, <2>1, NewIncidentFact DEF TypeOK, Restart, InFlight, IdleTask
<1>11. CASE UNCHANGED vars
    BY <1>11 DEF TypeOK, vars, InFlight
<1> QED
    BY <1>1, <1>2, <1>3, <1>4, <1>5, <1>6, <1>7, <1>8, <1>9, <1>10, <1>11
    DEF Next, Decide

\* Every reachable state is well typed, for all values of the constants.
THEOREM TypeCorrect == Spec => []TypeOK
BY InitType, NextType, PTL DEF Spec

-----------------------------------------------------------------------------
(***************************************************************************)
(* The state of an incident is backed by its newest entry                  *)
(***************************************************************************)
\* The copies that calls hold are backed too, or saving them would break it.
BackedInv ==
    /\ TypeOK
    /\ StateBacked
    /\ \A e \in Events : Backed(task[e].copy)

LEMMA BackedIdle == Backed(NewIncident) /\ Backed(IdleTask.copy)
BY DEF Backed, NewIncident, IdleTask, ActiveStates

LEMMA BackedUpdate ==
    ASSUME NEW r \in Incident, NEW act \in Decision, Backed(r)
    PROVE  Backed(Update(r, act))
BY UpdateFact DEF Backed

LEMMA BackedHeld ==
    ASSUME BackedInv, NEW e \in Events
    PROVE  Backed(Held(e))
BY ConstantsAssumption DEF BackedInv, StateBacked, Held

LEMMA BackedStep == BackedInv /\ [Next]_vars => BackedInv'
<1> SUFFICES ASSUME BackedInv, [Next]_vars
             PROVE  StateBacked' /\ (\A e \in Events : Backed(task[e].copy))'
    BY NextType DEF BackedInv
<1> USE ConstantsAssumption
<1>t. TypeOK /\ TypeOK'
    BY NextType DEF BackedInv
<1>b. \A r : Backed(r)' <=> Backed(r)
    BY DEF Backed
<1>1. ASSUME NEW e \in Events, Receive(e)
      PROVE  StateBacked' /\ (\A e_2 \in Events : Backed(task[e_2].copy))'
    <2>1. StateBacked'
        BY <1>1 DEF Receive, BackedInv, StateBacked, Backed
    <2>2. Backed(task'[e].copy)
        BY <1>1, <1>t, BackedIdle DEF Receive, BackedInv, StateBacked, TypeOK
    <2>3. \A e_2 \in Events : e_2 # e => task'[e_2] = task[e_2]
        BY <1>1, <1>t DEF Receive, TypeOK
    <2> QED BY <2>1, <2>2, <2>3 DEF BackedInv, Backed
<1>2. ASSUME NEW e \in Events, NEW r \in Incident, Backed(r), Save(HostOf[e], r),
             NEW t \in Task, Backed(t.copy), task' = [task EXCEPT ![e] = t]
      PROVE  StateBacked' /\ (\A e_2 \in Events : Backed(task[e_2].copy))'
    <2>1. \A h \in Hosts : Backed(incident'[h])
        BY <1>2, <1>t DEF Save, BackedInv, StateBacked, TypeOK
    <2>2. \A e_2 \in Events : Backed(task'[e_2].copy)
        BY <1>2, <1>t DEF BackedInv, TypeOK
    <2> QED BY <2>1, <2>2 DEF StateBacked, Backed
<1>d. /\ [IdleTask EXCEPT !.pc = "done"] \in Task
      /\ Backed([IdleTask EXCEPT !.pc = "done"].copy)
    BY NewIncidentFact, BackedIdle DEF IdleTask, Task
<1>3. ASSUME NEW e \in Events, NEW act \in Decision, DecideOnly(e, act)
      PROVE  StateBacked' /\ (\A e_2 \in Events : Backed(task[e_2].copy))'
    <2>1. Update(Held(e), act) \in Incident /\ Backed(Update(Held(e), act))
        BY <1>t, HeldFact, UpdateFact, BackedHeld, BackedUpdate
    <2> QED BY <1>2, <1>3, <1>d, <2>1 DEF DecideOnly
<1>4. ASSUME NEW e \in Events, NEW act \in Decision, DecideSimulated(e, act)
      PROVE  StateBacked' /\ (\A e_2 \in Events : Backed(task[e_2].copy))'
    <2>1. Simulated(e, act) \in ActionResult
        BY <1>4, <1>t, AnswersFact DEF DecideSimulated, ShouldExecute
    <2>2. LET r == Settled(Update(Held(e), act), Simulated(e, act))
          IN r \in Incident /\ Backed(r)
        BY <1>t, <2>1, HeldFact, UpdateFact, SettledFact
    <2> QED BY <1>2, <1>4, <1>d, <2>2 DEF DecideSimulated
<1>5. ASSUME NEW e \in Events, NEW act \in Decision, DecideCall(e, act)
      PROVE  StateBacked' /\ (\A e_2 \in Events : Backed(task[e_2].copy))'
    <2> DEFINE r == [Update(Held(e), act) EXCEPT !.state = "MITIGATING"]
               c == IF Persistence = "mysql" THEN r ELSE NewIncident
    <2>1. r \in Incident /\ Backed(r)
        <3>1. "MITIGATING" \in IncidentState \ ActiveStates
            BY DEF IncidentState, ActiveStates
        <3> QED BY <1>t, <3>1, HeldFact, UpdateFact, StateChangeFact DEF Backed
    <2>2. [pc |-> "calling", act |-> act, copy |-> c] \in Task /\ Backed(c)
        BY <2>1, NewIncidentFact, BackedIdle DEF Task
    <2> QED BY <1>2, <1>5, <2>1, <2>2 DEF DecideCall
<1>6. ASSUME NEW e \in Events, Complete(e)
      PROVE  StateBacked' /\ (\A e_2 \in Events : Backed(task[e_2].copy))'
    <2>1. PICK result \in Answers(e) : Save(HostOf[e], Settled(Held(e), result))
        BY <1>6 DEF Complete, Record
    <2>2. result \in ActionResult
        BY <1>6, <1>t, <2>1, AnswersFact DEF Complete, Record, TypeOK, InFlight
    <2>3. Settled(Held(e), result) \in Incident /\ Backed(Settled(Held(e), result))
        BY <1>t, <2>2, HeldFact, SettledFact
    <2> QED BY <1>2, <1>6, <1>d, <2>1, <2>3 DEF Complete, Record
<1>7. ASSUME NEW e \in Events, Raise(e)
      PROVE  StateBacked' /\ (\A e_2 \in Events : Backed(task[e_2].copy))'
    BY <1>7, <1>t, BackedIdle
    DEF Raise, BackedInv, StateBacked, Backed, TypeOK, IdleTask
<1>8. ASSUME NEW h \in Hosts, MarkBegin(h)
      PROVE  StateBacked' /\ (\A e_2 \in Events : Backed(task[e_2].copy))'
    <2>1. "EXPIRED" \in IncidentState \ ActiveStates
        BY DEF IncidentState, ActiveStates
    <2>2. Backed([incident[h] EXCEPT !.state = "EXPIRED"])
        BY <1>t, <2>1, StateChangeFact DEF Backed, TypeOK
    <2>3. \A h_2 \in Hosts : Backed(incident'[h_2])
        BY <1>8, <1>t, <2>2 DEF MarkBegin, BackedInv, StateBacked, TypeOK
    <2> QED BY <1>8, <2>3 DEF MarkBegin, BackedInv, StateBacked, Backed
<1>9. ASSUME NEW h \in Hosts, MarkEnd(h)
      PROVE  StateBacked' /\ (\A e_2 \in Events : Backed(task[e_2].copy))'
    <2> DEFINE r == IF Persistence = "mysql"
                    THEN [marking[h].copy EXCEPT !.state = "EXPIRED"]
                    ELSE incident[h]
    <2>1. r \in Incident /\ Backed(r)
        <3>1. /\ marking[h].copy \in Incident /\ incident[h] \in Incident
              /\ "EXPIRED" \in IncidentState \ ActiveStates
            BY <1>t DEF TypeOK, IncidentState, ActiveStates
        <3> QED BY <3>1, StateChangeFact DEF Backed, BackedInv, StateBacked
    <2> DEFINE s == [r EXCEPT !.history = LiftAll(r.history)]
    <2>2. s.state = r.state /\ s.history = LiftAll(r.history)
        BY <2>1 DEF Incident
    <2>3. Backed(s)
        <3> SUFFICES ASSUME r.state \in ActiveStates
                     PROVE  /\ s.history # <<>>
                            /\ s.history[1].status = "EXECUTED"
                            /\ r.state = StateByAction[s.history[1].act]
            BY <2>2 DEF Backed
        <3>1. r.history \in Seq(ActionResult) /\ 1 \in 1..Len(r.history)
            BY <2>1 DEF Backed, Incident
        <3>2. r.history[1] \in ActionResult
            BY <3>1
        <3>3. s.history[1] = [r.history[1] EXCEPT !.until = clock]
            BY <2>1, <2>2, <3>1 DEF LiftAll, Backed
        <3>4. /\ s.history[1].status = r.history[1].status
              /\ s.history[1].act = r.history[1].act
            BY <3>2, <3>3 DEF ActionResult
        <3>5. s.history # <<>>
            BY <2>2, <3>1 DEF LiftAll
        <3> QED BY <2>1, <3>4, <3>5 DEF Backed
    <2>4. \A h_2 \in Hosts : Backed(incident'[h_2])
        BY <1>9, <1>t, <2>3 DEF MarkEnd, Save, BackedInv, StateBacked, TypeOK
    <2> QED BY <1>9, <2>4 DEF MarkEnd, BackedInv, StateBacked, Backed
<1>10. CASE Tick
    BY <1>10 DEF Tick, BackedInv, StateBacked, Backed
<1>11. CASE Restart
    <2>1. \A h \in Hosts : Backed(incident'[h])
        BY <1>11, BackedIdle DEF Restart, BackedInv, StateBacked
    <2>2. \A e \in Events : Backed(task'[e].copy)
        BY <1>11, BackedIdle DEF Restart, BackedInv, IdleTask
    <2> QED BY <2>1, <2>2 DEF StateBacked, Backed
<1>12. CASE UNCHANGED vars
    BY <1>12 DEF vars, BackedInv, StateBacked, Backed
<1> QED
    BY <1>1, <1>3, <1>4, <1>5, <1>6, <1>7, <1>8, <1>9, <1>10, <1>11, <1>12
    DEF Next, Decide

\* MIRRORING, CONTAINED and BLOCKED always name the newest executed action.
THEOREM StateBackedHolds == Spec => []StateBacked
<1>1. Init => BackedInv
    BY InitType, BackedIdle DEF Init, BackedInv, StateBacked
<1>2. BackedInv => StateBacked
    BY DEF BackedInv
<1> QED BY <1>1, <1>2, BackedStep, PTL DEF Spec

-----------------------------------------------------------------------------
(***************************************************************************)
(* EXPIRED means that nothing runs                                         *)
(***************************************************************************)
\* With MySQL the running expire handler shows nothing before it saves, and a
\* restart may drop it: there EXPIRED is lifted even while the handler is busy.
ExpiredLifted ==
    \A h \in Hosts :
        /\ incident[h].state = "EXPIRED"
        /\ ~marking[h].busy \/ Persistence = "mysql"
        => Lifted(incident[h])

ExpiredInv == TypeOK /\ ExpiredLifted

\* A step that saves an incident in another state and leaves the rest alone.
LEMMA ExpiredSave ==
    ASSUME ExpiredInv, NEW h \in Hosts, NEW r, Save(h, r),
           r.state # "EXPIRED", UNCHANGED <<marking, clock>>
    PROVE  ExpiredLifted'
BY DEF ExpiredInv, ExpiredLifted, Save, TypeOK, Lifted, Live

LEMMA ExpiredStep == ExpiredInv /\ [Next]_vars => ExpiredInv'
<1> SUFFICES ASSUME ExpiredInv, [Next]_vars
             PROVE  ExpiredLifted'
    BY NextType DEF ExpiredInv
<1> USE ConstantsAssumption
<1>t. TypeOK
    BY DEF ExpiredInv
<1>1. ASSUME NEW e \in Events, Receive(e) \/ Raise(e)
      PROVE  ExpiredLifted'
    BY <1>1 DEF Receive, Raise, ExpiredInv, ExpiredLifted, Lifted, Live
<1>2. ASSUME NEW e \in Events, NEW act \in Decision, DecideOnly(e, act)
      PROVE  ExpiredLifted'
    <2>1. Update(Held(e), act).state # "EXPIRED"
        BY <1>t, HeldFact, UpdateFact
    <2> QED BY <1>2, <2>1, ExpiredSave DEF DecideOnly
<1>3. ASSUME NEW e \in Events, NEW act \in Decision, DecideSimulated(e, act)
      PROVE  ExpiredLifted'
    <2>1. Simulated(e, act) \in ActionResult
        BY <1>3, <1>t, AnswersFact DEF DecideSimulated, ShouldExecute
    <2>2. Settled(Update(Held(e), act), Simulated(e, act)).state # "EXPIRED"
        BY <1>t, <2>1, HeldFact, UpdateFact, SettledFact
    <2> QED BY <1>3, <2>2, ExpiredSave DEF DecideSimulated
<1>4. ASSUME NEW e \in Events, NEW act \in Decision, DecideCall(e, act)
      PROVE  ExpiredLifted'
    <2> DEFINE r == [Update(Held(e), act) EXCEPT !.state = "MITIGATING"]
    <2>1. r.state # "EXPIRED"
        BY <1>t, HeldFact, UpdateFact, StateChangeFact DEF IncidentState
    <2> QED BY <1>4, <2>1, ExpiredSave DEF DecideCall
<1>5. ASSUME NEW e \in Events, Complete(e)
      PROVE  ExpiredLifted'
    <2>1. PICK result \in Answers(e) : Save(HostOf[e], Settled(Held(e), result))
        BY <1>5 DEF Complete, Record
    <2>2. result \in ActionResult
        BY <1>5, <1>t, <2>1, AnswersFact DEF Complete, Record, TypeOK, InFlight
    <2>3. Settled(Held(e), result).state # "EXPIRED"
        BY <1>t, <2>2, HeldFact, SettledFact
    <2> QED BY <1>5, <2>1, <2>3, ExpiredSave DEF Complete, Record
<1>6. ASSUME NEW h \in Hosts, MarkBegin(h)
      PROVE  ExpiredLifted'
    <2>1. marking'[h].busy
        BY <1>6, <1>t DEF MarkBegin, TypeOK
    <2>2. \A h_2 \in Hosts : h_2 # h =>
              incident'[h_2] = incident[h_2] /\ marking'[h_2] = marking[h_2]
        BY <1>6, <1>t DEF MarkBegin, TypeOK
    <2>3. clock' = clock
        BY <1>6 DEF MarkBegin
    <2>4. Persistence = "mysql" => incident' = incident
        BY <1>6 DEF MarkBegin
    <2> QED BY <2>1, <2>2, <2>3, <2>4 DEF ExpiredInv, ExpiredLifted, Lifted, Live
<1>7. ASSUME NEW h \in Hosts, MarkEnd(h)
      PROVE  ExpiredLifted'
    <2> DEFINE r == IF Persistence = "mysql"
                    THEN [marking[h].copy EXCEPT !.state = "EXPIRED"]
                    ELSE incident[h]
               s == [r EXCEPT !.history = LiftAll(r.history)]
    <2>1. r \in Incident
        <3>1. /\ marking[h].copy \in Incident /\ incident[h] \in Incident
              /\ "EXPIRED" \in IncidentState
            BY <1>t DEF TypeOK, IncidentState
        <3> QED BY <3>1, StateChangeFact
    <2>2. s.history = LiftAll(r.history)
        BY <2>1 DEF Incident
    <2>3. Lifted(s)
        BY <1>t, <2>1, <2>2, LiftAllFact DEF TypeOK, Incident, Lifted
    <2>4. incident'[h] = s /\ clock' = clock
        BY <1>7, <1>t DEF MarkEnd, Save, TypeOK
    <2>5. \A h_2 \in Hosts : h_2 # h =>
              incident'[h_2] = incident[h_2] /\ marking'[h_2] = marking[h_2]
        BY <1>7, <1>t DEF MarkEnd, Save, TypeOK
    <2>6. Lifted(incident[h])'
        BY <2>3, <2>4 DEF Lifted, Live
    <2>7. ASSUME NEW h_2 \in Hosts, h_2 # h
          PROVE  /\ incident'[h_2] = incident[h_2] /\ marking'[h_2] = marking[h_2]
                 /\ Lifted(incident[h_2]) => Lifted(incident[h_2])'
        BY <2>4, <2>5, <2>7 DEF Lifted, Live
    <2> QED BY <2>6, <2>7 DEF ExpiredInv, ExpiredLifted
<1>8. CASE Tick
    <2>1. ASSUME NEW h \in Hosts, Lifted(incident[h])
          PROVE  Lifted(incident[h])'
        <3>1. incident[h].history \in Seq(ActionResult)
            BY <1>t DEF TypeOK, Incident
        <3>2. \A i \in DOMAIN incident[h].history : incident[h].history[i].until \in Nat
            <4>1. \A i \in DOMAIN incident[h].history :
                     incident[h].history[i] \in ActionResult
                BY <3>1
            <4> QED BY <4>1 DEF ActionResult
        <3> QED BY <1>8, <1>t, <2>1, <3>2 DEF Tick, TypeOK, Lifted, Live, Never
    <2> QED BY <1>8, <2>1 DEF Tick, ExpiredInv, ExpiredLifted
<1>9. CASE Restart
    <2>1. CASE Persistence = "mysql"
        <3>1. incident' = incident /\ clock' = clock
            BY <1>9, <2>1 DEF Restart
        <3> QED BY <2>1, <3>1 DEF ExpiredInv, ExpiredLifted, Lifted, Live
    <2>2. CASE Persistence = "memory"
        BY <1>9, <2>2 DEF Restart, ExpiredLifted, NewIncident
    <2> QED BY <2>1, <2>2
<1>10. CASE UNCHANGED vars
    BY <1>10 DEF vars, ExpiredInv, ExpiredLifted, Lifted, Live
<1> QED
    BY <1>1, <1>2, <1>3, <1>4, <1>5, <1>6, <1>7, <1>8, <1>9, <1>10
    DEF Next, Decide

\* A settled EXPIRED incident has no action left that would pass for running.
THEOREM ExpiredIsLiftedHolds == Spec => []ExpiredIsLifted
<1>1. Init => ExpiredInv
    BY InitType DEF Init, ExpiredInv, ExpiredLifted, NewIncident
<1>2. ExpiredInv => ExpiredIsLifted
    BY DEF ExpiredInv, ExpiredLifted, ExpiredIsLifted
<1> QED BY <1>1, <1>2, ExpiredStep, PTL DEF Spec

-----------------------------------------------------------------------------
(***************************************************************************)
(* MITIGATING has a call to explain it                                     *)
(***************************************************************************)
\* The copy of a call that is being decided may be saved with the state it has.
ExplainedInv ==
    /\ TypeOK
    /\ MitigatingExplained
    /\ \A e \in Events :
          task[e].pc = "deciding" =>
             /\ e \in eventKeys
             /\ task[e].copy.state = "MITIGATING" => Explained(HostOf[e])

\* What explains a host goes on explaining it when only another event's call,
\* or a call that had not left yet, moves.
LEMMA ExplainedStays ==
    ASSUME TypeOK, NEW e \in Events, NEW h \in Hosts, NEW t, Explained(h),
           task' = [task EXCEPT ![e] = t], eventKeys \subseteq eventKeys',
           \/ e \notin eventKeys
           \/ task[e].pc = "deciding"
           \/ t.pc \in {"calling", "raised", "lost"}
           \/ HostOf[e] # h
    PROVE  Explained(h)'
BY DEF Explained, TypeOK

LEMMA ExplainedStep == ExplainedInv /\ [Next]_vars => ExplainedInv'
<1> DEFINE Rest == \A e \in Events :
                      task[e].pc = "deciding" =>
                         /\ e \in eventKeys
                         /\ task[e].copy.state = "MITIGATING" => Explained(HostOf[e])
<1> SUFFICES ASSUME ExplainedInv, [Next]_vars
             PROVE  MitigatingExplained' /\ Rest'
    BY NextType DEF ExplainedInv
<1> USE ConstantsAssumption
<1>t. TypeOK /\ \A e \in Events : HostOf[e] \in Hosts
    BY DEF ExplainedInv
<1>h. ASSUME NEW e \in Events, task[e].pc = "deciding", Held(e).state = "MITIGATING"
      PROVE  Explained(HostOf[e])
    BY <1>h, <1>t DEF Held, ExplainedInv, MitigatingExplained
<1>i. /\ IdleTask.copy.state # "MITIGATING"
      /\ \A c \in {"done", "raised", "lost"} : [IdleTask EXCEPT !.pc = c].pc = c
    BY DEF IdleTask, NewIncident
<1>1. ASSUME NEW e \in Events, Receive(e)
      PROVE  MitigatingExplained' /\ Rest'
    <2> DEFINE t == task'[e]
    <2>1. /\ task' = [task EXCEPT ![e] = t] /\ e \notin eventKeys
          /\ eventKeys' = eventKeys \cup {e} /\ incident' = incident
          /\ t.copy.state = "MITIGATING" => incident[HostOf[e]].state = "MITIGATING"
        BY <1>1, <1>t DEF Receive, TypeOK, NewIncident
    <2>2. \A h \in Hosts : Explained(h) => Explained(h)'
        BY <2>1, <1>t, ExplainedStays
    <2>3. MitigatingExplained'
        BY <2>1, <2>2 DEF ExplainedInv, MitigatingExplained
    <2>4. Rest'
        BY <2>1, <2>2, <1>t DEF ExplainedInv, MitigatingExplained, TypeOK
    <2> QED BY <2>3, <2>4
<1>2. ASSUME NEW e \in Events, task[e].pc = "deciding", NEW r, Save(HostOf[e], r),
             r.state = "MITIGATING" =>
                \/ Explained(HostOf[e])
                \/ task'[e].pc = "calling",
             NEW t, task' = [task EXCEPT ![e] = t], t.pc \in {"done", "calling"},
             UNCHANGED eventKeys
      PROVE  MitigatingExplained' /\ Rest'
    <2>1. \A h \in Hosts : Explained(h) => Explained(h)'
        BY <1>2, <1>t, ExplainedStays
    <2>2. task'[e].pc = "calling" => Explained(HostOf[e])'
        BY <1>2, <1>t DEF ExplainedInv, Explained
    <2>3. MitigatingExplained'
        BY <1>2, <1>t, <2>1, <2>2 DEF Save, ExplainedInv, MitigatingExplained, TypeOK
    <2>4. Rest'
        BY <1>2, <1>t, <2>1 DEF ExplainedInv, TypeOK
    <2> QED BY <2>3, <2>4
<1>3. ASSUME NEW e \in Events, NEW act \in Decision, DecideOnly(e, act)
      PROVE  MitigatingExplained' /\ Rest'
    <2>1. Update(Held(e), act).state = "MITIGATING" => Held(e).state = "MITIGATING"
        BY <1>t, HeldFact, UpdateFact
    <2> QED BY <1>2, <1>3, <1>h, <1>i, <2>1 DEF DecideOnly
<1>4. ASSUME NEW e \in Events, NEW act \in Decision, DecideSimulated(e, act)
      PROVE  MitigatingExplained' /\ Rest'
    <2>1. Simulated(e, act) \in ActionResult
        BY <1>4, <1>t, AnswersFact DEF DecideSimulated, ShouldExecute
    <2>2. Settled(Update(Held(e), act), Simulated(e, act)).state # "MITIGATING"
        BY <1>t, <2>1, HeldFact, UpdateFact, SettledFact
    <2> QED BY <1>2, <1>4, <1>i, <2>2 DEF DecideSimulated
<1>5. ASSUME NEW e \in Events, NEW act \in Decision, DecideCall(e, act)
      PROVE  MitigatingExplained' /\ Rest'
    <2>1. task'[e].pc = "calling"
        BY <1>5, <1>t DEF DecideCall, TypeOK
    <2> QED BY <1>2, <1>5, <2>1 DEF DecideCall
<1>6. ASSUME NEW e \in Events, Complete(e)
      PROVE  MitigatingExplained' /\ Rest'
    <2>1. PICK result \in Answers(e) : Save(HostOf[e], Settled(Held(e), result))
        BY <1>6 DEF Complete, Record
    <2>2. result \in ActionResult
        BY <1>6, <1>t, <2>1, AnswersFact DEF Complete, Record, TypeOK, InFlight
    <2>3. Settled(Held(e), result).state # "MITIGATING"
        BY <1>t, <2>2, HeldFact, SettledFact
    <2>4. incident'[HostOf[e]].state # "MITIGATING"
        BY <1>t, <2>1, <2>3 DEF Save, TypeOK
    <2>5. \A h \in Hosts : h # HostOf[e] /\ Explained(h) => Explained(h)'
        BY <1>6, <1>t, ExplainedStays DEF Complete, Record
    <2>6. MitigatingExplained'
        BY <1>t, <2>1, <2>4, <2>5 DEF Save, ExplainedInv, MitigatingExplained, TypeOK
    <2>7. Rest'
        BY <1>6, <1>t, <1>i DEF Complete, Record, LoopFree, TypeOK
    <2> QED BY <2>6, <2>7
<1>7. ASSUME NEW e \in Events, Raise(e)
      PROVE  MitigatingExplained' /\ Rest'
    <2>1. \A h \in Hosts : Explained(h) => Explained(h)'
        BY <1>7, <1>t, <1>i, ExplainedStays DEF Raise
    <2>2. MitigatingExplained'
        BY <1>7, <2>1 DEF Raise, ExplainedInv, MitigatingExplained
    <2>3. Rest'
        BY <1>7, <1>t, <1>i DEF Raise, LoopFree, TypeOK
    <2> QED BY <2>2, <2>3
<1>8. ASSUME NEW h \in Hosts, MarkBegin(h)
      PROVE  MitigatingExplained' /\ Rest'
    <2>1. \A h_2 \in Hosts : incident'[h_2].state = "MITIGATING" =>
                             incident[h_2].state = "MITIGATING"
        <3>1. [incident[h] EXCEPT !.state = "EXPIRED"].state = "EXPIRED"
            BY <1>t DEF TypeOK, Incident
        <3> QED BY <1>8, <1>t, <3>1 DEF MarkBegin, TypeOK
    <2> QED BY <1>8, <2>1 DEF MarkBegin, ExplainedInv, MitigatingExplained, Explained
<1>9. ASSUME NEW h \in Hosts, MarkEnd(h)
      PROVE  MitigatingExplained' /\ Rest'
    <2> DEFINE r == IF Persistence = "mysql"
                    THEN [marking[h].copy EXCEPT !.state = "EXPIRED"]
                    ELSE incident[h]
               s == [r EXCEPT !.history = LiftAll(r.history)]
    <2>1. s.state = "MITIGATING" => incident[h].state = "MITIGATING"
        BY <1>t, StateChangeFact DEF TypeOK, Incident, IncidentState
    <2>2. \A h_2 \in Hosts : incident'[h_2].state = "MITIGATING" =>
                             incident[h_2].state = "MITIGATING"
        BY <1>9, <1>t, <2>1 DEF MarkEnd, Save, TypeOK
    <2> QED BY <1>9, <2>2 DEF MarkEnd, ExplainedInv, MitigatingExplained, Explained
<1>10. CASE Tick
    BY <1>10 DEF Tick, ExplainedInv, MitigatingExplained, Explained
<1>11. CASE Restart
    <2>1. Rest'
        BY <1>11, <1>i DEF Restart, TypeOK
    <2>2. CASE Persistence = "mysql"
        <3>1. \A h \in Hosts : Explained(h) => Explained(h)'
            <4>1. [IdleTask EXCEPT !.pc = "lost"].pc = "lost"
                BY <1>i
            <4>2. \A e \in Events :
                     task[e].pc \in {"calling", "raised", "lost"} =>
                        task'[e].pc \in {"calling", "raised", "lost"}
                BY <1>11, <4>1 DEF Restart
            <4>3. eventKeys' = eventKeys
                BY <1>11, <2>2 DEF Restart
            <4> QED BY <1>t, <4>2, <4>3 DEF Explained, TypeOK
        <3> QED BY <1>11, <2>1, <2>2, <3>1
                DEF Restart, ExplainedInv, MitigatingExplained
    <2>3. CASE Persistence = "memory"
        BY <1>11, <2>1, <2>3 DEF Restart, MitigatingExplained, NewIncident
    <2> QED BY <2>2, <2>3
<1>12. CASE UNCHANGED vars
    BY <1>12 DEF vars, ExplainedInv, MitigatingExplained, Explained
<1> QED
    BY <1>1, <1>3, <1>4, <1>5, <1>6, <1>7, <1>8, <1>9, <1>10, <1>11, <1>12
    DEF Next, Decide

\* MITIGATING is never left behind by calls that all recorded their result.
THEOREM MitigatingExplainedHolds == Spec => []MitigatingExplained
<1>1. Init => ExplainedInv
    BY InitType DEF Init, ExplainedInv, MitigatingExplained, NewIncident, IdleTask
<1>2. ExplainedInv => MitigatingExplained
    BY DEF ExplainedInv
<1> QED BY <1>1, <1>2, ExplainedStep, PTL DEF Spec

-----------------------------------------------------------------------------
(***************************************************************************)
(* A decided event leaves no lapsed action on show                         *)
(***************************************************************************)
\* What an event finds lapsed it does not leave displayed as running.
THEOREM ActiveMeansRunningHolds == Spec => ActiveMeansRunning
<1> USE ConstantsAssumption
<1>1. ASSUME TypeOK, TypeOK', [Next]_vars
      PROVE  [\A e \in Events :
                /\ task[e].pc = "deciding" /\ task'[e].pc = "done"
                /\ incident'[HostOf[e]].state \in ActiveStates
                => \E i \in DOMAIN incident'[HostOf[e]].history :
                      Live(incident[HostOf[e]].history[i])']_vars
    <2> SUFFICES ASSUME NEW e \in Events, Next,
                        task[e].pc = "deciding", task'[e].pc = "done",
                        incident'[HostOf[e]].state \in ActiveStates
                 PROVE  \E i \in DOMAIN incident'[HostOf[e]].history :
                           Live(incident[HostOf[e]].history[i])'
        BY <1>1 DEF vars
    <2>1. PICK act \in Decision : DecideOnly(e, act) \/ DecideSimulated(e, act)
        <3>1. [IdleTask EXCEPT !.pc = "lost"].pc = "lost"
            BY DEF IdleTask
        <3>2. ~Restart
            BY <3>1 DEF Restart
        <3>3. ~\E h \in Hosts : MarkBegin(h) \/ MarkEnd(h)
            BY DEF MarkBegin, MarkEnd
        <3>4. ~\E e_2 \in Events : Receive(e_2) \/ Complete(e_2) \/ Raise(e_2)
            BY <1>1 DEF Receive, Complete, Record, Raise, LoopFree
        <3>5. ~Tick
            BY DEF Tick
        <3>6. PICK e_2 \in Events : Decide(e_2)
            BY <3>2, <3>3, <3>4, <3>5 DEF Next
        <3>7. e_2 = e
            BY <3>6, <1>1 DEF Decide, DecideOnly, DecideSimulated, DecideCall, TypeOK
        <3>8. \A a \in Decision : ~DecideCall(e, a)
            BY <1>1 DEF DecideCall, TypeOK
        <3> QED BY <3>6, <3>7, <3>8 DEF Decide
    <2>2. HostOf[e] \in Hosts /\ incident \in [Hosts -> Incident]
        BY <1>1 DEF TypeOK
    <2>3. CASE DecideSimulated(e, act)
        <3> DEFINE r == Settled(Update(Held(e), act), Simulated(e, act))
        <3>1. /\ Simulated(e, act) \in ActionResult
              /\ Simulated(e, act).status = "SIMULATED"
            BY <1>1, <2>3, AnswersFact DEF DecideSimulated, ShouldExecute
        <3>2. r.state = "WATCHING"
            BY <1>1, <3>1, HeldFact, UpdateFact, SettledFact
        <3>3. incident'[HostOf[e]] = r
            BY <2>2, <2>3 DEF DecideSimulated, Save
        <3> QED BY <3>2, <3>3 DEF ActiveStates
    <2>4. CASE DecideOnly(e, act)
        <3> DEFINE r == Update(Held(e), act)
        <3>1. incident'[HostOf[e]] = r /\ clock' = clock
            BY <2>2, <2>4 DEF DecideOnly, Save
        <3>2. /\ r.history = Held(e).history
              /\ HasActiveAction(Held(e), Held(e).rec)
            BY <1>1, <3>1, HeldFact, UpdateFact DEF ActiveStates
        <3>3. PICK i \in DOMAIN Held(e).history : Live(Held(e).history[i])
            BY <3>2 DEF HasActiveAction
        <3>4. incident'[HostOf[e]].history[i] = Held(e).history[i]
            BY <3>1, <3>2
        <3> QED BY <3>1, <3>2, <3>3, <3>4 DEF Live
    <2> QED BY <2>1, <2>3, <2>4
<1> QED BY <1>1, TypeCorrect, PTL DEF Spec, ActiveMeansRunning

-----------------------------------------------------------------------------
(***************************************************************************)
(* One event after the other starts no action twice                        *)
(***************************************************************************)
\* Where the entries of a history go when one is added in front.
LEMMA PrependEntries ==
    ASSUME NEW item \in ActionResult, NEW history \in Seq(ActionResult),
           NEW i \in DOMAIN Prepend(item, history)
    PROVE  /\ i \in Nat \ {0}
           /\ i = 1 => Prepend(item, history)[i] = item
           /\ i # 1 => /\ i - 1 \in DOMAIN history
                       /\ Prepend(item, history)[i] = history[i - 1]
<1> DEFINE n == IF Len(history) < HistoryCap THEN Len(history) + 1 ELSE HistoryCap
<1>1. n \in Nat /\ n >= 1 /\ n <= Len(history) + 1
    BY ConstantsAssumption
<1>2. Prepend(item, history) = [k \in 1..n |-> IF k = 1 THEN item ELSE history[k - 1]]
    BY DEF Prepend
<1> QED BY <1>1, <1>2

\* Only the newest executed entry of an action may run still.
NewestOnly(history) ==
    \A i, j \in DOMAIN history :
        i < j /\ history[i].act = history[j].act /\ history[i].status = "EXECUTED"
            => ~Live(history[j])

NoneLive(history, act) == \A i \in DOMAIN history : history[i].act = act => ~Live(history[i])

Open == {"deciding", "calling"}

SerialInv ==
    /\ TypeOK
    /\ \A e, f \in Events : task[e].pc \in Open /\ task[f].pc \in Open => e = f
    /\ \A h \in Hosts : NewestOnly(incident[h].history)
    /\ \A h \in Hosts : NewestOnly(marking[h].copy.history)
    /\ \A e \in Events : NewestOnly(task[e].copy.history)
    /\ \A e \in Events : task[e].pc = "calling" => NoneLive(Held(e).history, task[e].act)

\* What has_active_action finds is all there is to find.
LEMMA ActiveIsNewest ==
    ASSUME NEW r \in Incident, NEW act, NewestOnly(r.history), ~HasActiveAction(r, act)
    PROVE  NoneLive(r.history, act)
<1> SUFFICES ASSUME NEW i \in DOMAIN r.history, r.history[i].act = act, Live(r.history[i])
             PROVE  FALSE
    BY DEF NoneLive
<1>1. PICK j \in 1..(i - 1) : r.history[j].act = act /\ r.history[j].status = "EXECUTED"
    BY DEF HasActiveAction
<1>2. j \in DOMAIN r.history /\ j < i
    BY <1>1 DEF Incident
<1> QED BY <1>1, <1>2 DEF NewestOnly

LEMMA NewestPrepend ==
    ASSUME NEW item \in ActionResult, NEW history \in Seq(ActionResult),
           NewestOnly(history),
           item.status = "EXECUTED" => NoneLive(history, item.act)
    PROVE  NewestOnly(Prepend(item, history))
<1> DEFINE new == Prepend(item, history)
<1> SUFFICES ASSUME NEW i \in DOMAIN new, NEW j \in DOMAIN new, i < j,
                    new[i].act = new[j].act, new[i].status = "EXECUTED"
             PROVE  ~Live(new[j])
    BY DEF NewestOnly
<1>1. /\ i \in Nat \ {0} /\ j \in Nat \ {0}
      /\ j - 1 \in DOMAIN history /\ new[j] = history[j - 1]
    BY PrependEntries
<1>2. CASE i = 1
    <2>1. new[i] = item
        BY <1>2, PrependEntries
    <2> QED BY <1>1, <2>1 DEF NoneLive
<1>3. CASE i # 1
    <2>1. i - 1 \in DOMAIN history /\ new[i] = history[i - 1] /\ i - 1 < j - 1
        BY <1>1, <1>3, PrependEntries
    <2> QED BY <1>1, <2>1 DEF NewestOnly
<1> QED BY <1>2, <1>3

LEMMA NewestLifted ==
    ASSUME NEW history \in Seq(ActionResult), clock \in Nat \ {0}
    PROVE  /\ NewestOnly(LiftAll(history))
           /\ \A act : NoneLive(LiftAll(history), act)
BY LiftAllFact DEF NewestOnly, NoneLive

\* What has ended stays so.
LEMMA EndedLater ==
    ASSUME NEW history \in Seq(ActionResult), clock \in Nat \ {0}, clock' \in Nat,
           clock <= clock'
    PROVE  /\ NewestOnly(history) => NewestOnly(history)'
           /\ \A act : NoneLive(history, act) => NoneLive(history, act)'
<1>1. \A i \in DOMAIN history : ~Live(history[i]) => ~Live(history[i])'
    <2>1. \A i \in DOMAIN history : history[i] \in ActionResult
        OBVIOUS
    <2>2. \A i \in DOMAIN history : history[i].until \in Nat
        BY <2>1 DEF ActionResult
    <2> QED BY <2>2 DEF Live, Never
<1> QED BY <1>1 DEF NewestOnly, NoneLive

LEMMA NoneInFlight ==
    ASSUME SerialInv, MaxInFlight = 1, Cardinality(InFlight) < MaxInFlight
    PROVE  InFlight = {}
<1> SUFFICES ASSUME NEW e \in InFlight PROVE FALSE
    OBVIOUS
<1>1. InFlight = {e}
    BY DEF SerialInv, InFlight, Open
<1>2. Cardinality({e}) = 1
    BY FS_Singleton
<1> QED BY <1>1, <1>2

\* A step of the call of e, after which the incident of its host has a history in
\* which only the newest runs, and with which no other call is left open.
LEMMA SerialSave ==
    ASSUME SerialInv, NEW e \in Events, task[e].pc \in Open,
           NEW r \in Incident, Save(HostOf[e], r), NewestOnly(r.history),
           NEW t \in Task, task' = [task EXCEPT ![e] = t], NewestOnly(t.copy.history),
           t.pc = "calling" =>
              /\ NoneLive(r.history, t.act)
              /\ Persistence = "mysql" => t.copy = r,
           t.pc # "deciding", clock' = clock, marking' = marking, TypeOK'
    PROVE  SerialInv'
<1>1. TypeOK /\ HostOf[e] \in Hosts
    BY ConstantsAssumption DEF SerialInv
<1>2. \A f \in Events : f # e => task[f].pc \notin Open /\ task'[f] = task[f]
    BY <1>1 DEF SerialInv, TypeOK
<1>3. task'[e] = t
    BY <1>1 DEF TypeOK
<1>4. \A h \in Hosts : incident'[h] = (IF h = HostOf[e] THEN r ELSE incident[h])
    BY <1>1 DEF Save, TypeOK
<1>5. \A k : NewestOnly(k)' = NewestOnly(k) /\ \A a : NoneLive(k, a)' = NoneLive(k, a)
    BY DEF NewestOnly, NoneLive, Live
<1>6. \A f, g \in Events : task'[f].pc \in Open /\ task'[g].pc \in Open => f = g
    BY <1>2
<1>7. \A h \in Hosts : NewestOnly(incident'[h].history)
    BY <1>4 DEF SerialInv
<1>8. \A f \in Events : NewestOnly(task'[f].copy.history)
    BY <1>2, <1>3 DEF SerialInv
<1>9. ASSUME NEW f \in Events, task'[f].pc = "calling"
      PROVE  /\ f = e
             /\ NoneLive(IF Persistence = "mysql" THEN task'[f].copy.history
                         ELSE incident'[HostOf[f]].history, task'[f].act)
    BY <1>1, <1>2, <1>3, <1>4, <1>9 DEF Open
<1>10. \A h \in Hosts : NewestOnly(incident[h].history)'
    BY <1>5, <1>7
<1>11. \A f \in Events : NewestOnly(task[f].copy.history)'
    BY <1>5, <1>8
<1>12. \A h \in Hosts : NewestOnly(marking[h].copy.history)'
    BY <1>5 DEF SerialInv
<1>13. \A f \in Events : (task[f].pc = "calling" =>
                            NoneLive(Held(f).history, task[f].act))'
    BY <1>5, <1>9 DEF Held
<1> QED BY <1>6, <1>10, <1>11, <1>12, <1>13 DEF SerialInv

\* When only the newest entry of an action runs, one does.
LEMMA SerialOne == SerialInv => OneLivePerKind
<1> SUFFICES ASSUME SerialInv, NEW h \in Hosts,
                    NEW i \in DOMAIN incident[h].history,
                    NEW j \in DOMAIN incident[h].history,
                    Live(incident[h].history[i]), Live(incident[h].history[j]),
                    incident[h].history[i].act = incident[h].history[j].act
             PROVE  i = j
    BY DEF OneLivePerKind
<1>1. i \in Nat /\ j \in Nat
    BY DEF SerialInv, TypeOK, Incident
<1>2. ~(i < j) /\ ~(j < i)
    BY DEF SerialInv, NewestOnly, Live
<1> QED BY <1>1, <1>2

\* A result is recorded, whatever end it has.
LEMMA SerialRecord ==
    ASSUME SerialInv, TypeOK', NEW e \in Events, NEW result \in ActionResult,
           result.act = task[e].act, Record(e, result)
    PROVE  SerialInv'
<1>1. TypeOK /\ Held(e) \in Incident /\ NewestOnly(Held(e).history)
    BY ConstantsAssumption, HeldFact DEF Held, SerialInv
<1>2. /\ Settled(Held(e), result) \in Incident
      /\ Settled(Held(e), result).history = Prepend(result, Held(e).history)
    BY <1>1, SettledFact DEF Settled, Incident
<1>3. NoneLive(Held(e).history, result.act)
    BY DEF SerialInv, Record
<1>4. NewestOnly(Prepend(result, Held(e).history))
    BY <1>1, <1>3, NewestPrepend DEF Incident
<1>5. PICK t \in Task : t = [IdleTask EXCEPT !.pc = "done"] /\ t.pc = "done"
                        /\ t.copy = NewIncident
    <2>1. /\ [IdleTask EXCEPT !.pc = "done"] \in Task
          /\ [IdleTask EXCEPT !.pc = "done"].pc = "done"
          /\ [IdleTask EXCEPT !.pc = "done"].copy = NewIncident
        BY NewIncidentFact DEF IdleTask, Task
    <2> QED BY <2>1
<1>6. NewestOnly(t.copy.history)
    BY <1>5 DEF NewIncident, NewestOnly
<1> QED BY <1>1, <1>2, <1>4, <1>5, <1>6, SerialSave DEF Record, Open

LEMMA SerialStep ==
    ASSUME MaxInFlight = 1, SerialInv, [Next]_vars
    PROVE  SerialInv'
<1> USE ConstantsAssumption
<1>t. TypeOK /\ TypeOK' /\ (\A e \in Events : HostOf[e] \in Hosts)
    BY NextType DEF SerialInv
<1>n. /\ NewIncident.history = <<>> /\ IdleTask.copy = NewIncident
      /\ NewestOnly(NewIncident.history)
    BY DEF NewIncident, IdleTask, NewestOnly
<1>k. clock' = clock =>
         \A k : NewestOnly(k)' = NewestOnly(k) /\ \A a : NoneLive(k, a)' = NoneLive(k, a)
    BY DEF NewestOnly, NoneLive, Live
<1>d. [IdleTask EXCEPT !.pc = "done"] \in Task
      /\ [IdleTask EXCEPT !.pc = "done"].pc = "done"
      /\ [IdleTask EXCEPT !.pc = "done"].copy = NewIncident
    BY NewIncidentFact DEF IdleTask, Task
<1>h. \A e \in Events : Held(e) \in Incident /\ NewestOnly(Held(e).history)
    BY <1>t, HeldFact DEF Held, SerialInv
<1>1. ASSUME NEW e \in Events, Receive(e) PROVE SerialInv'
    <2> DEFINE c == IF Persistence = "mysql" THEN incident[HostOf[e]] ELSE NewIncident
    <2>1. /\ task' = [task EXCEPT ![e] = [pc |-> "deciding", act |-> "LOG", copy |-> c]]
          /\ incident' = incident /\ marking' = marking /\ clock' = clock
        BY <1>1 DEF Receive
    <2>2. InFlight = {} /\ LoopFree
        BY <1>1, NoneInFlight DEF Receive
    <2>3. \A f \in Events : task[f].pc \notin Open
        BY <2>2 DEF Open, InFlight, LoopFree
    <2>4. /\ task'[e].pc = "deciding" /\ task'[e].copy = c
          /\ \A f \in Events : f # e => task'[f] = task[f]
        BY <2>1, <1>t DEF TypeOK
    <2>5. NewestOnly(c.history)
        BY <1>n, <1>t DEF SerialInv
    <2>6. \A f \in Events : NewestOnly(task'[f].copy.history) /\ task'[f].pc # "calling"
        BY <2>3, <2>4, <2>5 DEF SerialInv, Open
    <2>7. \A f, g \in Events : task'[f].pc \in Open /\ task'[g].pc \in Open => f = g
        BY <2>3, <2>4
    <2>8. \A f \in Events : NewestOnly(task[f].copy.history)'
        BY <2>1, <2>6, <1>k
    <2>9. \A h \in Hosts : NewestOnly(incident[h].history)'
                             /\ NewestOnly(marking[h].copy.history)'
        BY <2>1, <1>k DEF SerialInv
    <2> QED BY <2>6, <2>7, <2>8, <2>9, <1>t DEF SerialInv
<1>2. ASSUME NEW e \in Events, NEW act \in Decision, DecideOnly(e, act) PROVE SerialInv'
    <2>1. /\ Update(Held(e), act) \in Incident
          /\ Update(Held(e), act).history = Held(e).history
        BY <1>h, UpdateFact
    <2> QED BY <1>2, <2>1, <1>d, <1>h, <1>n, <1>t, SerialSave DEF DecideOnly, Open
<1>3. ASSUME NEW e \in Events, NEW act \in Decision, DecideSimulated(e, act)
      PROVE  SerialInv'
    <2> DEFINE u == Update(Held(e), act)
               result == Simulated(e, act)
    <2>1. result \in ActionResult /\ result.status = "SIMULATED"
        BY <1>3, <1>t, AnswersFact DEF DecideSimulated, ShouldExecute
    <2>2. u \in Incident /\ u.history = Held(e).history
        BY <1>h, UpdateFact
    <2>3. /\ Settled(u, result) \in Incident
          /\ Settled(u, result).history = Prepend(result, u.history)
        BY <2>1, <2>2, SettledFact DEF Settled, Incident
    <2>4. NewestOnly(Prepend(result, u.history))
        BY <2>1, <2>2, <1>h, NewestPrepend DEF Incident
    <2> QED BY <1>3, <2>3, <2>4, <1>d, <1>n, <1>t, SerialSave DEF DecideSimulated, Open
<1>4. ASSUME NEW e \in Events, NEW act \in Decision, DecideCall(e, act) PROVE SerialInv'
    <2> DEFINE r == [Update(Held(e), act) EXCEPT !.state = "MITIGATING"]
               t == [pc |-> "calling", act |-> act,
                     copy |-> IF Persistence = "mysql" THEN r ELSE NewIncident]
    <2>1. /\ r \in Incident /\ r.history = Held(e).history
        <3>1. Update(Held(e), act) \in Incident /\ "MITIGATING" \in IncidentState
              /\ Update(Held(e), act).history = Held(e).history
            BY <1>h, UpdateFact DEF IncidentState
        <3> QED BY <3>1, StateChangeFact
    <2>2. act \in Actionable /\ NoneLive(Held(e).history, act)
        BY <1>4, <1>h, ActiveIsNewest DEF DecideCall, ShouldExecute
    <2>3. t \in Task /\ NewestOnly(t.copy.history)
        BY <2>1, <2>2, <1>h, <1>n, NewIncidentFact DEF Task
    <2>4. /\ task[e].pc \in Open /\ Save(HostOf[e], r) /\ task' = [task EXCEPT ![e] = t]
          /\ clock' = clock /\ marking' = marking
        BY <1>4 DEF DecideCall, Open
    <2>5. t.pc = "calling" /\ t.act = act /\ (Persistence = "mysql" => t.copy = r)
        OBVIOUS
    <2> HIDE DEF r, t
    <2> QED BY <2>1, <2>2, <2>3, <2>4, <2>5, <1>h, <1>t, SerialSave
<1>5. ASSUME NEW e \in Events, Complete(e) PROVE SerialInv'
    <2>1. PICK result \in Answers(e) : Record(e, result)
        BY <1>5 DEF Complete
    <2>2. task[e].pc = "calling" /\ task[e].act \in Actionable
        BY <2>1, <1>t DEF Record, TypeOK, InFlight
    <2>3. result \in ActionResult /\ result.act = task[e].act
        BY <2>1, <2>2, <1>t, AnswersFact DEF Answers, AnswerExecuted, AnswerFailed
    <2> QED BY <2>1, <2>3, <1>t, SerialRecord
<1>6. ASSUME NEW e \in Events, Raise(e) PROVE SerialInv'
    <2>1. /\ task' = [task EXCEPT ![e] = [IdleTask EXCEPT !.pc = "raised"]]
          /\ incident' = incident /\ marking' = marking /\ clock' = clock
          /\ task[e].pc = "calling"
        BY <1>6 DEF Raise
    <2>2. /\ task'[e].pc = "raised" /\ task'[e].copy = NewIncident
          /\ \A f \in Events : f # e => task'[f] = task[f] /\ task[f].pc \notin Open
        BY <2>1, <1>t DEF TypeOK, IdleTask, SerialInv, Open
    <2>3. \A f \in Events : NewestOnly(task'[f].copy.history) /\ task'[f].pc \notin Open
        BY <2>2, <1>n DEF SerialInv, Open
    <2>4. \A f \in Events : NewestOnly(task[f].copy.history)'
        BY <2>1, <2>3, <1>k
    <2>5. \A h \in Hosts : NewestOnly(incident[h].history)'
                             /\ NewestOnly(marking[h].copy.history)'
        BY <2>1, <1>k DEF SerialInv
    <2> QED BY <2>3, <2>4, <2>5, <1>t DEF SerialInv, Open
<1>7. ASSUME NEW h \in Hosts, MarkBegin(h) PROVE SerialInv'
    <2>1. /\ task' = task /\ clock' = clock
          /\ \A g \in Hosts : incident'[g].history = incident[g].history
        <3>1. [incident[h] EXCEPT !.state = "EXPIRED"].history = incident[h].history
            BY <1>t, StateChangeFact DEF TypeOK, IncidentState
        <3> QED BY <1>7, <3>1, <1>t DEF MarkBegin, TypeOK
    <2>2. \A g \in Hosts : marking'[g].copy \in {marking[g].copy, incident[g], NewIncident}
        BY <1>7, <1>t DEF MarkBegin, TypeOK
    <2>3. \A g \in Hosts : NewestOnly(marking'[g].copy.history)
        BY <2>2, <1>n DEF SerialInv
    <2>4. \A f \in Events : Held(f)'.history = Held(f).history
        BY <2>1, <1>t DEF Held
    <2>5. \A f \in Events : task[f].pc = "calling" =>
             NoneLive(Held(f)'.history, task[f].act)
        BY <2>4 DEF SerialInv
    <2>6. \A f \in Events : (task[f].pc = "calling" =>
                               NoneLive(Held(f).history, task[f].act))'
        BY <2>1, <2>5, <1>k
    <2>7. \A g \in Hosts : NewestOnly(incident'[g].history)
        BY <2>1 DEF SerialInv
    <2>8. \A g \in Hosts : NewestOnly(incident[g].history)'
                             /\ NewestOnly(marking[g].copy.history)'
        BY <2>1, <2>3, <2>7, <1>k
    <2>9. \A f \in Events : NewestOnly(task[f].copy.history)'
        BY <2>1, <1>k DEF SerialInv
    <2> QED BY <2>1, <2>6, <2>8, <2>9, <1>t DEF SerialInv
<1>8. ASSUME NEW h \in Hosts, MarkEnd(h) PROVE SerialInv'
    <2> DEFINE r == IF Persistence = "mysql"
                    THEN [marking[h].copy EXCEPT !.state = "EXPIRED"]
                    ELSE incident[h]
               s == [r EXCEPT !.history = LiftAll(r.history)]
    <2>1. r \in Incident
        BY <1>t, StateChangeFact DEF TypeOK, IncidentState
    <2>2. /\ s.history = LiftAll(r.history) /\ NewestOnly(s.history)
          /\ \A a : NoneLive(s.history, a)
        BY <2>1, <1>t, NewestLifted DEF TypeOK, Incident
    <2>3. /\ Save(h, s) /\ task' = task /\ clock' = clock
          /\ marking' = [marking EXCEPT ![h] = [busy |-> FALSE, copy |-> NewIncident]]
        BY <1>8 DEF MarkEnd
    <2> HIDE DEF s
    <2>4. \A g \in Hosts : incident'[g] = (IF g = h THEN s ELSE incident[g])
        BY <2>3, <1>t DEF Save, TypeOK
    <2>5. \A g \in Hosts : NewestOnly(marking'[g].copy.history)
        BY <2>3, <1>n, <1>t DEF SerialInv, TypeOK
    <2>6. ASSUME NEW f \in Events, task[f].pc = "calling"
          PROVE  NoneLive(Held(f)'.history, task[f].act)
        BY <2>2, <2>3, <2>4, <2>6, <1>t DEF Held, SerialInv
    <2>7. \A f \in Events : (task[f].pc = "calling" =>
                               NoneLive(Held(f).history, task[f].act))'
        BY <2>3, <2>6, <1>k
    <2>8. \A g \in Hosts : NewestOnly(incident'[g].history)
        BY <2>2, <2>4 DEF SerialInv
    <2>9. \A g \in Hosts : NewestOnly(incident[g].history)'
                             /\ NewestOnly(marking[g].copy.history)'
        BY <2>3, <2>5, <2>8, <1>k
    <2>10. \A f \in Events : NewestOnly(task[f].copy.history)'
        BY <2>3, <1>k DEF SerialInv
    <2> QED BY <2>3, <2>7, <2>9, <2>10, <1>t DEF SerialInv
<1>9. CASE Tick
    <2>1. /\ clock' = clock + 1 /\ clock \in Nat \ {0}
          /\ UNCHANGED <<task, incident, marking>>
        BY <1>9, <1>t DEF Tick, TypeOK
    <2>2. \A k \in Seq(ActionResult) :
             /\ NewestOnly(k) => NewestOnly(k)'
             /\ \A a : NoneLive(k, a) => NoneLive(k, a)'
        BY <2>1, EndedLater
    <2>3. /\ \A h \in Hosts : incident[h].history \in Seq(ActionResult)
          /\ \A h \in Hosts : marking[h].copy.history \in Seq(ActionResult)
          /\ \A e \in Events : /\ task[e].copy.history \in Seq(ActionResult)
                               /\ Held(e).history \in Seq(ActionResult)
        BY <1>t, <1>h DEF TypeOK, Incident, Task
    <2>4. \A e \in Events : Held(e)' = Held(e)
        BY <2>1 DEF Held
    <2>5. /\ \A h \in Hosts : NewestOnly(incident[h].history)'
          /\ \A h \in Hosts : NewestOnly(marking[h].copy.history)'
          /\ \A e \in Events : NewestOnly(task[e].copy.history)'
        BY <2>1, <2>2, <2>3 DEF SerialInv
    <2>6. \A e \in Events : (task[e].pc = "calling" =>
                               NoneLive(Held(e).history, task[e].act))'
        BY <2>1, <2>2, <2>3, <2>4 DEF SerialInv
    <2> QED BY <2>1, <2>5, <2>6, <1>t DEF SerialInv
<1>10. CASE Restart
    <2>1. /\ \A e \in Events : task'[e].pc \notin Open
          /\ \A e \in Events : task'[e].copy \in {task[e].copy, NewIncident}
        BY <1>10, <1>t DEF Restart, TypeOK, IdleTask, Open
    <2>2. /\ \A h \in Hosts : incident'[h] \in {incident[h], NewIncident}
          /\ \A h \in Hosts : marking'[h].copy = NewIncident
          /\ clock' = clock
        BY <1>10, <1>t DEF Restart, TypeOK
    <2>3. /\ \A h \in Hosts : NewestOnly(incident'[h].history)
          /\ \A h \in Hosts : NewestOnly(marking'[h].copy.history)
          /\ \A e \in Events : NewestOnly(task'[e].copy.history)
        BY <2>1, <2>2, <1>n DEF SerialInv
    <2>4. /\ \A h \in Hosts : NewestOnly(incident[h].history)'
          /\ \A h \in Hosts : NewestOnly(marking[h].copy.history)'
          /\ \A e \in Events : NewestOnly(task[e].copy.history)'
        BY <2>2, <2>3, <1>k
    <2> QED BY <2>1, <2>4, <1>t DEF SerialInv, Open
<1>11. CASE UNCHANGED vars
    <2>1. UNCHANGED <<task, incident, marking, clock>>
        BY <1>11 DEF vars
    <2>2. \A e \in Events : Held(e)' = Held(e)
        BY <2>1 DEF Held
    <2> QED BY <2>1, <2>2, <1>k, <1>t DEF SerialInv
<1> QED
    BY <1>1, <1>2, <1>3, <1>4, <1>5, <1>6, <1>7, <1>8, <1>9, <1>10, <1>11
       DEF Next, Decide

\* While requests to M6 do not overlap, should_execute (incident_manager.py:91-99) keeps
\* one running action of a kind, with either repository, through lapses, lifts, failures
\* and restarts.  Two events at the await at once may both start one
\* (service.py:75-105): that the sources wait for an answer is all that prevents it.
THEOREM OneLivePerKindHolds ==
    ASSUME MaxInFlight = 1
    PROVE  Spec => []OneLivePerKind
<1>1. Init => SerialInv
    <2> SUFFICES ASSUME Init PROVE SerialInv
        OBVIOUS
    <2>1. NewIncident.history = <<>> /\ IdleTask.copy = NewIncident /\ IdleTask.pc = "idle"
          /\ NewestOnly(NewIncident.history)
        BY DEF NewIncident, IdleTask, NewestOnly
    <2> QED BY <2>1, InitType DEF Init, SerialInv, Open
<1>2. SerialInv /\ [Next]_vars => SerialInv'
    BY SerialStep
<1> QED BY <1>1, <1>2, SerialOne, PTL DEF Spec

-----------------------------------------------------------------------------
(***************************************************************************)
(* What has been lifted stays lifted                                       *)
(***************************************************************************)
\* With incidents in memory nobody saves an old one: a history is kept, closed, gone
\* with the rest, or has the result of a call added in front.
LEMMA HistoryStep ==
    ASSUME Persistence = "memory", TypeOK, [Next]_vars, NEW h \in Hosts
    PROVE  LET k == incident[h].history
               m == incident'[h].history
           IN \/ m = k
              \/ m = LiftAll(k) /\ clock' = clock
              \/ m = <<>>
              \/ \E e \in Events, item \in ActionResult :
                    /\ task[e].pc \in Open /\ task'[e].pc = "done"
                    /\ item.ev = e /\ m = Prepend(item, k)
                    /\ clock' = clock /\ eventKeys' = eventKeys
<1> DEFINE k == incident[h].history
           m == incident'[h].history
           Goal == \/ m = k
                   \/ m = LiftAll(k) /\ clock' = clock
                   \/ m = <<>>
                   \/ \E e \in Events, item \in ActionResult :
                         /\ task[e].pc \in Open /\ task'[e].pc = "done"
                         /\ item.ev = e /\ m = Prepend(item, k)
                         /\ clock' = clock /\ eventKeys' = eventKeys
<1> SUFFICES Goal
    OBVIOUS
<1> USE ConstantsAssumption
<1>h. \A e \in Events : Held(e) = incident[HostOf[e]] /\ Held(e) \in Incident
    BY HeldFact DEF Held
<1>s. ASSUME NEW g \in Hosts, NEW r, Save(g, r), g = h => r.history = k
      PROVE  m = k
    BY <1>s DEF Save, TypeOK
<1>1. ASSUME NEW e \in Events, NEW act \in Decision, DecideOnly(e, act) PROVE Goal
    <2>1. HostOf[e] = h => Update(Held(e), act).history = k
        BY <1>h, UpdateFact
    <2> QED BY <1>1, <1>s, <2>1 DEF DecideOnly
<1>2. ASSUME NEW e \in Events, NEW act \in Decision, DecideCall(e, act) PROVE Goal
    <2>1. /\ Update(Held(e), act) \in Incident /\ "MITIGATING" \in IncidentState
          /\ Update(Held(e), act).history = Held(e).history
        BY <1>h, UpdateFact DEF IncidentState
    <2>2. [Update(Held(e), act) EXCEPT !.state = "MITIGATING"].history = Held(e).history
        BY <2>1, StateChangeFact
    <2> QED BY <1>2, <1>s, <1>h, <2>2 DEF DecideCall
<1>p. ASSUME NEW e \in Events, NEW item \in ActionResult, item.ev = e,
             NEW r \in Incident, r.history = Held(e).history,
             Save(HostOf[e], Settled(r, item)), task[e].pc \in Open,
             task' = [task EXCEPT ![e] = [IdleTask EXCEPT !.pc = "done"]],
             clock' = clock, eventKeys' = eventKeys
      PROVE  Goal
    <2>1. task'[e].pc = "done"
        BY <1>p DEF TypeOK, IdleTask
    <2>2. Settled(r, item).history = Prepend(item, r.history)
        BY <1>p DEF Settled, Incident
    <2>3. HostOf[e] = h => m = Prepend(item, k)
        BY <1>p, <1>h, <2>2 DEF Save, TypeOK
    <2>4. HostOf[e] # h => m = k
        BY <1>p DEF Save, TypeOK
    <2> QED BY <1>p, <2>1, <2>3, <2>4
<1>3. ASSUME NEW e \in Events, NEW act \in Decision, DecideSimulated(e, act) PROVE Goal
    <2>1. /\ Simulated(e, act) \in ActionResult /\ Simulated(e, act).ev = e
        BY <1>3, AnswersFact DEF DecideSimulated, ShouldExecute, Simulated
    <2>2. /\ Update(Held(e), act) \in Incident
          /\ Update(Held(e), act).history = Held(e).history
        BY <1>h, UpdateFact
    <2> QED BY <1>3, <1>p, <2>1, <2>2 DEF DecideSimulated, Open
<1>4. ASSUME NEW e \in Events, Complete(e) PROVE Goal
    <2>1. PICK item \in Answers(e) : Record(e, item)
        BY <1>4 DEF Complete
    <2>2. task[e].pc = "calling" /\ task[e].act \in Actionable
        BY <2>1 DEF Record, TypeOK, InFlight
    <2>3. item \in ActionResult /\ item.ev = e
        BY <2>1, <2>2, AnswersFact DEF Answers, AnswerExecuted, AnswerFailed
    <2> QED BY <1>p, <1>h, <2>1, <2>2, <2>3 DEF Record, Open
<1>5. ASSUME NEW e \in Events, Receive(e) \/ Raise(e) PROVE Goal
    BY <1>5 DEF Receive, Raise
<1>6. ASSUME NEW g \in Hosts, MarkBegin(g) PROVE Goal
    <2>1. [incident[g] EXCEPT !.state = "EXPIRED"].history = incident[g].history
        BY StateChangeFact DEF TypeOK, IncidentState
    <2> QED BY <1>6, <2>1 DEF MarkBegin, TypeOK
<1>7. ASSUME NEW g \in Hosts, MarkEnd(g) PROVE Goal
    <2>1. /\ Save(g, [incident[g] EXCEPT !.history = LiftAll(incident[g].history)])
          /\ clock' = clock
        BY <1>7 DEF MarkEnd
    <2>2. [incident[g] EXCEPT !.history = LiftAll(incident[g].history)].history
             = LiftAll(incident[g].history)
        BY DEF TypeOK, Incident
    <2> QED BY <2>1, <2>2 DEF Save, TypeOK
<1>8. CASE Tick
    BY <1>8 DEF Tick
<1>9. CASE Restart
    BY <1>9 DEF Restart, NewIncident
<1>10. CASE UNCHANGED vars
    BY <1>10 DEF vars
<1> QED
    BY <1>1, <1>2, <1>3, <1>4, <1>5, <1>6, <1>7, <1>8, <1>9, <1>10 DEF Next, Decide

\* Each event adds one entry to the history of its host, and is done then.
OnceInv ==
    /\ \A e \in Events : task[e].pc \in Open => e \in eventKeys
    /\ \A h \in Hosts :
          LET k == incident[h].history
          IN /\ \A i \in DOMAIN k : k[i].ev \in eventKeys /\ task[k[i].ev].pc = "done"
             /\ \A i, j \in DOMAIN k : k[i].ev = k[j].ev => i = j

\* The entries of a history that is closed are those it had.
LEMMA LiftEntries ==
    ASSUME NEW history \in Seq(ActionResult), NEW i \in DOMAIN LiftAll(history)
    PROVE  i \in DOMAIN history /\ LiftAll(history)[i].ev = history[i].ev
<1>1. i \in 1..Len(history) /\ i \in DOMAIN history /\ history[i] \in ActionResult
    BY DEF LiftAll
<1> QED BY <1>1 DEF LiftAll, ActionResult

\* An event that is done stays so, until M4 has forgotten that it had it.
LEMMA DoneStays ==
    ASSUME Persistence = "memory", TypeOK, OnceInv, [Next]_vars
    PROVE  /\ \/ eventKeys \subseteq eventKeys'
              \/ \A h \in Hosts : incident'[h].history = <<>>
           /\ \A e \in Events : task'[e].pc \in Open => e \in eventKeys'
           /\ \A e \in eventKeys : task[e].pc = "done" => task'[e].pc = "done"
<1> USE DEF OnceInv
<1>t. /\ task \in [Events -> Task] /\ eventKeys \subseteq Events
      /\ \A c \in {"done", "raised", "lost"} : [IdleTask EXCEPT !.pc = c].pc = c
    BY DEF TypeOK, IdleTask
<1>1. ASSUME NEW e \in Events, Receive(e)
      PROVE  /\ eventKeys \subseteq eventKeys'
             /\ \A f \in Events : task'[f].pc \in Open => f \in eventKeys'
             /\ \A f \in eventKeys : task[f].pc = "done" => task'[f].pc = "done"
    BY <1>1, <1>t DEF Receive
<1>2. ASSUME NEW e \in Events, NEW t, task[e].pc \in Open,
             task' = [task EXCEPT ![e] = t], eventKeys' = eventKeys
      PROVE  /\ eventKeys \subseteq eventKeys'
             /\ \A f \in Events : task'[f].pc \in Open => f \in eventKeys'
             /\ \A f \in eventKeys : task[f].pc = "done" => task'[f].pc = "done"
    BY <1>2, <1>t DEF Open
<1>3. ASSUME NEW e \in Events, Decide(e) \/ Complete(e) \/ Raise(e)
      PROVE  /\ task[e].pc \in Open /\ eventKeys' = eventKeys
             /\ \E t : task' = [task EXCEPT ![e] = t]
    BY <1>3 DEF Decide, DecideOnly, DecideSimulated, DecideCall, Complete, Record, Raise,
               Open
<1>4. CASE Restart
    BY <1>4, <1>t DEF Restart, NewIncident, Open
<1>5. CASE task' = task /\ eventKeys' = eventKeys
    BY <1>5
<1> QED BY <1>1, <1>2, <1>3, <1>4, <1>5 DEF Next, MarkBegin, MarkEnd, Tick, vars

LEMMA OnceStep ==
    ASSUME Persistence = "memory", TypeOK, OnceInv, [Next]_vars
    PROVE  OnceInv'
<1>1. /\ \A e \in Events : task'[e].pc \in Open => e \in eventKeys'
      /\ \/ eventKeys \subseteq eventKeys'
         \/ \A h \in Hosts : incident'[h].history = <<>>
      /\ \A e \in eventKeys : task[e].pc = "done" => task'[e].pc = "done"
    BY DoneStays
<1>2. ASSUME NEW h \in Hosts, NEW m, m = incident'[h].history
      PROVE  /\ \A i \in DOMAIN m : m[i].ev \in eventKeys' /\ task'[m[i].ev].pc = "done"
             /\ \A i, j \in DOMAIN m : m[i].ev = m[j].ev => i = j
    <2> DEFINE k == incident[h].history
    <2>1. /\ \A i \in DOMAIN k : k[i].ev \in eventKeys /\ task[k[i].ev].pc = "done"
          /\ \A i, j \in DOMAIN k : k[i].ev = k[j].ev => i = j
        BY DEF OnceInv
    <2>2. k \in Seq(ActionResult)
        BY DEF TypeOK, Incident
    <2>3. CASE m = <<>>
        BY <2>3
    <2>4. CASE m # <<>> /\ m = k
        BY <1>1, <1>2, <2>1, <2>4
    <2>5. CASE m # <<>> /\ m = LiftAll(k)
        <3>1. \A i \in DOMAIN m : i \in DOMAIN k /\ m[i].ev = k[i].ev
            BY <2>2, <2>5, LiftEntries
        <3>2. eventKeys \subseteq eventKeys'
            BY <1>1, <1>2, <2>5
        <3> QED BY <1>1, <2>1, <3>1, <3>2
    <2>6. ASSUME NEW e \in Events, NEW item \in ActionResult,
                 task[e].pc \in Open, task'[e].pc = "done", item.ev = e,
                 m = Prepend(item, k), eventKeys' = eventKeys
          PROVE  /\ \A i \in DOMAIN m : m[i].ev \in eventKeys' /\ task'[m[i].ev].pc = "done"
                 /\ \A i, j \in DOMAIN m : m[i].ev = m[j].ev => i = j
        <3>1. \A i \in DOMAIN m :
                 /\ i \in Nat \ {0}
                 /\ i = 1 => m[i] = item
                 /\ i # 1 => i - 1 \in DOMAIN k /\ m[i] = k[i - 1]
            BY <2>2, <2>6, PrependEntries
        <3>2. e \in eventKeys
            BY <2>6 DEF OnceInv
        <3>3. \A i \in DOMAIN k : k[i].ev # e
            BY <2>1, <2>6 DEF Open
        <3>4. \A i, j \in DOMAIN m : m[i].ev = m[j].ev => i = j
            <4> SUFFICES ASSUME NEW i \in DOMAIN m, NEW j \in DOMAIN m, m[i].ev = m[j].ev
                         PROVE  i = j
                OBVIOUS
            <4>1. CASE i = 1 \/ j = 1
                BY <4>1, <3>1, <3>3, <2>6
            <4>2. CASE i # 1 /\ j # 1
                <5>1. i - 1 = j - 1
                    BY <4>2, <3>1, <2>1
                <5> QED BY <5>1, <3>1
            <4> QED BY <4>1, <4>2
        <3>5. \A i \in DOMAIN m : m[i].ev \in eventKeys' /\ task'[m[i].ev].pc = "done"
            BY <1>1, <2>1, <2>6, <3>1, <3>2
        <3> QED BY <3>4, <3>5
    <2> QED BY <1>2, <2>3, <2>4, <2>5, <2>6, HistoryStep
<1> QED BY <1>1, <1>2 DEF OnceInv

\* While incidents are kept in memory, an executed action that has ended, by its time
\* or by the expire handler, is never taken for running again, however calls,
\* lapses and the handler's thread interleave: an entry is written once, and closed
\* in place (incident_manager.py:114-140).  With MySQL each works on a copy and saves
\* all of it, so that the theorem would be false.
THEOREM LiftIsFinalHolds ==
    ASSUME Persistence = "memory"
    PROVE  Spec => LiftIsFinal
<1> DEFINE A == \A h \in Hosts :
                  \A i \in DOMAIN incident[h].history, j \in DOMAIN incident'[h].history :
                     /\ incident[h].history[i].ev = incident'[h].history[j].ev
                     /\ incident[h].history[i].status = "EXECUTED"
                     /\ ~Live(incident[h].history[i])
                     => ~Live(incident[h].history[j])'
<1>1. Init => OnceInv
    BY DEF Init, OnceInv, NewIncident, IdleTask, Open
<1>2. TypeOK /\ OnceInv /\ [Next]_vars => OnceInv'
    BY OnceStep
<1>3. TypeOK /\ OnceInv /\ TypeOK' /\ [Next]_vars => A
    <2> SUFFICES ASSUME TypeOK, OnceInv, TypeOK', [Next]_vars, NEW h \in Hosts,
                        NEW k, k = incident[h].history, NEW m, m = incident'[h].history,
                        NEW i \in DOMAIN k, NEW j \in DOMAIN m, k[i].ev = m[j].ev,
                        k[i].status = "EXECUTED", ~Live(k[i])
                 PROVE  ~Live(m[j])'
        OBVIOUS
    <2>1. /\ k \in Seq(ActionResult) /\ m \in Seq(ActionResult)
          /\ \A a, b \in DOMAIN k : k[a].ev = k[b].ev => a = b
          /\ \A a \in DOMAIN k : k[a].ev \in eventKeys /\ task[k[a].ev].pc = "done"
        BY DEF TypeOK, Incident, OnceInv
    <2>2. /\ clock \in Nat \ {0} /\ clock' \in Nat \ {0} /\ clock <= clock'
        <3>1. clock' = clock \/ clock' = clock + 1
            BY DEF Next, vars, Receive, Decide, DecideOnly, DecideSimulated, DecideCall,
                   Complete, Record, Raise, MarkBegin, MarkEnd, Tick, Restart
        <3>2. clock \in Nat \ {0} /\ clock' \in Nat \ {0}
            BY DEF TypeOK
        <3> QED BY <3>1, <3>2
    <2>3. k[i] \in ActionResult /\ k[i].until \in Nat
        <3>1. k[i] \in ActionResult
            BY <2>1
        <3> QED BY <3>1 DEF ActionResult
    <2>4. ~Live(k[i])'
        BY <2>2, <2>3 DEF Live, Never
    <2>5. CASE m = k
        BY <2>1, <2>4, <2>5
    <2>6. CASE m = LiftAll(k) /\ clock' = clock
        <3>1. ~Live(LiftAll(k)[j])
            BY <2>1, <2>2, <2>6, LiftAllFact
        <3> QED BY <2>6, <3>1 DEF Live
    <2>7. CASE m = <<>>
        BY <2>7
    <2>8. ASSUME NEW e \in Events, NEW item \in ActionResult,
                 task[e].pc \in Open, item.ev = e, m = Prepend(item, k)
          PROVE  ~Live(m[j])'
        <3>1. /\ j = 1 => m[j] = item
              /\ j # 1 => j - 1 \in DOMAIN k /\ m[j] = k[j - 1]
            BY <2>1, <2>8, PrependEntries
        <3>2. j # 1
            BY <2>1, <2>8, <3>1 DEF Open
        <3>3. m[j] = k[i]
            BY <2>1, <3>1, <3>2
        <3> QED BY <2>4, <3>3
    <2> QED BY <2>5, <2>6, <2>7, <2>8, HistoryStep
<1>4. TypeOK /\ OnceInv /\ TypeOK' /\ [Next]_vars => [A]_vars
    BY <1>3
<1> QED BY <1>1, <1>2, <1>4, TypeCorrect, PTL DEF Spec, LiftIsFinal

\* Any set of numbers that is not empty has a least one.
LEMMA LeastNumber ==
    ASSUME NEW T \in SUBSET Nat, T # {}
    PROVE  \E n \in T : \A k \in T : n <= k
<1>1. PICK R : IsWellFoundedOn(R, Nat) /\ \A m, n \in Nat : <<m, n>> \in R <=> m < n
    <2>1. \A m, n \in Nat : <<m, n>> \in OpToRel(<, Nat) <=> m < n
        BY DEF OpToRel
    <2> QED BY <2>1, NatLessThanWellFounded, Zenon
<1>2. PICK n \in T : \A k \in T : ~(<<k, n>> \in R)
    <2>1. T \subseteq Nat /\ T # {} /\ IsWellFoundedOn(R, Nat)
        BY <1>1
    <2> QED BY ONLY <2>1, WFMin, Zenon
<1>3. \A k \in T : k \in Nat /\ n \in Nat /\ ~(k < n)
    BY <1>1, <1>2
<1> QED BY <1>2, <1>3

\* A set of numbers that some number bounds has a latest one, if not 0.
LEMMA LatestFact ==
    ASSUME NEW S \in SUBSET Nat, NEW b \in Nat, \A n \in S : n <= b
    PROVE  Latest(S) \in S \cup {0} /\ \A n \in S : n <= Latest(S)
<1>1. PICK T \in SUBSET Nat : T = {n \in Nat : \A k \in S : k <= n}
    OBVIOUS
<1>2. PICK m \in T : \A k \in T : m <= k
    <2>1. b \in T
        BY <1>1
    <2> QED BY <2>1, LeastNumber
<1>3. m \in S \cup {0}
    <2> SUFFICES ASSUME m \notin S, m # 0 PROVE FALSE
        OBVIOUS
    <2>1. m - 1 \in Nat /\ \A k \in S : k <= m - 1
        BY <1>1, <1>2
    <2> QED BY <1>1, <1>2, <2>1
<1>4. \E n \in S \cup {0} : \A k \in S : k <= n
    BY <1>1, <1>2, <1>3
<1> QED BY <1>4 DEF Latest

\* Nothing later than the latest is left out.
LEMMA LatestIs ==
    ASSUME NEW S \in SUBSET Nat, NEW m \in S \cup {0}, \A n \in S : n <= m
    PROVE  Latest(S) = m
<1>0. m \in Nat
    OBVIOUS
<1>1. Latest(S) \in S \cup {0} /\ \A n \in S : n <= Latest(S)
    BY <1>0, LatestFact
<1>2. S \cup {0} \subseteq Nat
    OBVIOUS
<1>3. Latest(S) \in Nat
    BY ONLY <1>1, <1>2
<1>4. m <= Latest(S) /\ Latest(S) <= m
    BY <1>0, <1>1, <1>3
<1> QED BY <1>0, <1>3, <1>4

\* What two sets of numbers have in common at the end they keep when the clock goes on.
LEMMA LatestLater ==
    ASSUME NEW S \in SUBSET Nat, NEW T \in SUBSET Nat, NEW b \in Nat, NEW c \in Nat,
           \A n \in S \cup T : n <= b, Latest(S) = Latest(T)
    PROVE  Latest({n \in S : n > c}) = Latest({n \in T : n > c})
<1>1. /\ Latest(S) \in S \cup {0} /\ \A n \in S : n <= Latest(S)
      /\ Latest(T) \in T \cup {0} /\ \A n \in T : n <= Latest(T)
    BY LatestFact
<1>2. CASE Latest(S) > c
    <2>1. Latest({n \in S : n > c}) = Latest(S)
        BY <1>1, <1>2, LatestIs
    <2>2. Latest({n \in T : n > c}) = Latest(S)
        BY <1>1, <1>2, LatestIs
    <2> QED BY <2>1, <2>2
<1>3. CASE ~(Latest(S) > c)
    <2>a. S \cup {0} \subseteq Nat
        OBVIOUS
    <2>b. Latest(S) \in Nat
        BY ONLY <1>1, <2>a
    <2>0. Latest(T) = Latest(S) /\ Latest(S) <= c
        BY ONLY <1>1, <1>3, <2>b, c \in Nat, Latest(S) = Latest(T)
    <2>1. \A n \in S \cup T : n \in Nat /\ n <= Latest(S)
        BY <1>1, <2>0
    <2>2. \A n \in S \cup T : ~(n > c)
        BY <2>0, <2>1, <2>b
    <2>3. {n \in S : n > c} = {} /\ {n \in T : n > c} = {}
        BY <2>2
    <2> QED BY <2>3
<1> QED BY <1>2, <1>3

-----------------------------------------------------------------------------
\* No block lasts longer than the two lifetimes together.
Longest == Ttl["TEMP_BLOCK"] + Ttl["BLOCK"]

\* A history has room for its entries, and what has been executed ends, and in time.
Ends(history) ==
    /\ Len(history) <= HistoryCap
    /\ \A i \in DOMAIN history :
          history[i].status = "EXECUTED" =>
              history[i].until # Never /\ history[i].until <= clock + Longest

LEMMA LongestFact ==
    /\ Longest \in Nat
    /\ \A act \in Actionable : act # "MIRROR" => /\ Ttl[act] \in Nat \ {0}
                                                 /\ Ttl[act] <= Longest
BY ConstantsAssumption DEF Longest, Actionable

\* What runs ends later than now, and no later than the longest block from now.
LEMMA LiveEndsFact ==
    ASSUME NEW history \in Seq(ActionResult), Ends(history), clock \in Nat \ {0}
    PROVE  /\ LiveEnds(history) \in SUBSET Nat
           /\ \A n \in LiveEnds(history) : n > clock /\ n <= clock + Longest
<1> SUFFICES ASSUME NEW n \in LiveEnds(history)
             PROVE  n \in Nat /\ n > clock /\ n <= clock + Longest
    OBVIOUS
<1>1. PICK i \in DOMAIN history : n = history[i].until /\ Live(history[i])
    BY DEF LiveEnds
<1>2. history[i] \in ActionResult
    OBVIOUS
<1> QED BY <1>1, <1>2, LongestFact DEF Ends, Live, ActionResult

LEMMA NothingRuns == LiveEnds(<<>>) = {} /\ Ends(<<>>)
BY ConstantsAssumption DEF LiveEnds, Ends

\* An entry in front is one more that may run, unless one that does is pushed out.
LEMMA LiveEndsPrepend ==
    ASSUME NEW item \in ActionResult, NEW history \in Seq(ActionResult),
           Len(history) <= HistoryCap,
           ~(Len(history) = HistoryCap /\ Live(history[HistoryCap]))
    PROVE  LiveEnds(Prepend(item, history)) =
               LiveEnds(history) \cup {n \in {item.until} : Live(item)}
<1> DEFINE new == Prepend(item, history)
           n == IF Len(history) < HistoryCap THEN Len(history) + 1 ELSE HistoryCap
<1>1. n \in Nat /\ n >= 1 /\ n <= Len(history) + 1
    BY ConstantsAssumption
<1>2. new = [k \in 1..n |-> IF k = 1 THEN item ELSE history[k - 1]]
    BY DEF Prepend
<1>3. DOMAIN new = 1..n /\ new[1] = item
    BY <1>1, <1>2
<1>4. ASSUME NEW m \in LiveEnds(new)
      PROVE  m \in LiveEnds(history) \cup {k \in {item.until} : Live(item)}
    <2>1. PICK i \in DOMAIN new : m = new[i].until /\ Live(new[i])
        BY <1>4 DEF LiveEnds
    <2>2. i = 1 \/ (i - 1 \in DOMAIN history /\ new[i] = history[i - 1])
        BY PrependEntries
    <2> QED BY <1>3, <2>1, <2>2 DEF LiveEnds
<1>5. ASSUME NEW m \in LiveEnds(history)
      PROVE  m \in LiveEnds(new)
    <2>1. PICK i \in DOMAIN history : m = history[i].until /\ Live(history[i])
        BY <1>5 DEF LiveEnds
    <2>2. i \in Nat /\ i >= 1 /\ i <= Len(history)
        OBVIOUS
    <2>3. i # HistoryCap \/ Len(history) # HistoryCap
        BY <2>1
    <2>4. i + 1 \in 1..n
        BY <2>2, <2>3, ConstantsAssumption
    <2>5. new[i + 1] = history[i]
        BY <1>2, <2>2, <2>4
    <2> QED BY <1>3, <2>1, <2>4, <2>5 DEF LiveEnds
<1>6. Live(item) => item.until \in LiveEnds(new)
    BY <1>1, <1>3 DEF LiveEnds
<1> QED BY <1>4, <1>5, <1>6

LEMMA EndsPrepend ==
    ASSUME NEW item \in ActionResult, NEW history \in Seq(ActionResult), Ends(history),
           item.status = "EXECUTED" => item.until # Never /\ item.until <= clock + Longest
    PROVE  Ends(Prepend(item, history))
<1> DEFINE new == Prepend(item, history)
           n == IF Len(history) < HistoryCap THEN Len(history) + 1 ELSE HistoryCap
<1>1. n \in Nat /\ n <= HistoryCap
    BY ConstantsAssumption
<1>2. new = [k \in 1..n |-> IF k = 1 THEN item ELSE history[k - 1]]
    BY DEF Prepend
<1>3. Len(new) = n
    BY <1>1, <1>2
<1>4. ASSUME NEW i \in DOMAIN new, new[i].status = "EXECUTED"
      PROVE  new[i].until # Never /\ new[i].until <= clock + Longest
    <2>1. new[i] = item \/ (i - 1 \in DOMAIN history /\ new[i] = history[i - 1])
        BY PrependEntries
    <2> QED BY <1>4, <2>1 DEF Ends
<1> QED BY <1>1, <1>3, <1>4 DEF Ends

\* What has been lifted runs no more.
LEMMA LiveEndsLifted ==
    ASSUME NEW history \in Seq(ActionResult), Ends(history), clock \in Nat \ {0}
    PROVE  LiveEnds(LiftAll(history)) = {} /\ Ends(LiftAll(history))
<1>1. \A i \in DOMAIN LiftAll(history) : ~Live(LiftAll(history)[i])
    BY LiftAllFact
<1>2. LiveEnds(LiftAll(history)) = {}
    BY <1>1 DEF LiveEnds
<1>3. Len(LiftAll(history)) = Len(history)
    BY DEF LiftAll
<1>4. ASSUME NEW i \in 1..Len(history), LiftAll(history)[i].status = "EXECUTED"
      PROVE  LiftAll(history)[i].until = clock
    <2>1. history[i] \in ActionResult
        OBVIOUS
    <2>2. history[i].status = "EXECUTED"
        BY <1>4 DEF LiftAll
    <2>3. LiftAll(history)[i] = [history[i] EXCEPT !.until = clock]
        BY <2>2 DEF LiftAll
    <2> QED BY <2>1, <2>3 DEF ActionResult
<1>5. DOMAIN LiftAll(history) = 1..Len(history)
    BY DEF LiftAll
<1>6. \A i \in DOMAIN LiftAll(history) :
         LiftAll(history)[i].status = "EXECUTED" =>
             /\ LiftAll(history)[i].until # Never
             /\ LiftAll(history)[i].until <= clock + Longest
    BY <1>4, <1>5, LongestFact DEF Never
<1> QED BY <1>2, <1>3, <1>6 DEF Ends

\* What runs when the clock has gone on is what ends later.
LEMMA LiveEndsLater ==
    ASSUME NEW history \in Seq(ActionResult), Ends(history), clock \in Nat \ {0},
           clock' \in Nat, clock' >= clock
    PROVE  /\ LiveEnds(history)' = {n \in LiveEnds(history) : n > clock'}
           /\ Ends(history)'
<1>1. \A i \in DOMAIN history : history[i] \in ActionResult
    OBVIOUS
<1>2. \A i \in DOMAIN history : history[i].until \in Nat
    BY <1>1 DEF ActionResult
<1>3. \A i \in DOMAIN history :
         Live(history[i])' <=> Live(history[i]) /\ history[i].until > clock'
    BY <1>2 DEF Live, Ends
<1>4. LiveEnds(history)' = {n \in LiveEnds(history) : n > clock'}
    BY <1>3 DEF LiveEnds
<1>5. Ends(history)'
    BY <1>2, LongestFact DEF Ends
<1> QED BY <1>4, <1>5

-----------------------------------------------------------------------------
(***************************************************************************)
(* The loop of M4 and M6: what every variable holds                        *)
(***************************************************************************)
HistoriesEnd ==
    /\ \A h \in Hosts : Ends(incident[h].history) /\ Ends(marking[h].copy.history)
    /\ \A e \in Events : Ends(task[e].copy.history)

\* The handlers of M6: a host's flow is the only one they install or delete for it.
HandlersTyped ==
    /\ at \in [Handlers -> {"idle", "installing", "deleting"}]
    /\ host \in [Handlers -> Hosts]
    /\ ttl \in [Handlers -> Nat] /\ \A t \in Handlers : ttl[t] <= Longest
    /\ todo \in [Handlers -> SUBSET Hosts] /\ got \in [Handlers -> SUBSET Hosts]
    /\ \A t \in Handlers : todo[t] \cup got[t] \subseteq {host[t]}
    /\ \A t \in Handlers : at[t] # "installing" => got[t] = {}

DictionaryTyped ==
    /\ mitigaciones \in [Hosts -> SUBSET [flows : SUBSET Hosts, active : BOOLEAN, until : Nat]]
    /\ \A h \in Hosts : \A m \in mitigaciones[h] : m.flows \subseteq {h}
    /\ notices \subseteq Hosts

RulesTyped ==
    \A r \in rules : /\ r.flow \in Hosts /\ r.owner = r.flow
                     /\ r.until \in Nat /\ r.until <= clock + Longest

\* A request that is taken is with the handler that works on it.
MailTyped ==
    /\ mail \in [Events -> Mail]
    /\ \A e \in Events :
          /\ mail[e].act # "MIRROR" /\ mail[e].until <= clock + Longest
          /\ mail[e].step = "taken" => /\ mail[e].by \in Handlers
                                       /\ at[mail[e].by] = "installing"
                                       /\ host[mail[e].by] = HostOf[e]

OpenKnown == \A e \in Events : task[e].pc \in Open => e \in eventKeys

LoopTyped == /\ TypeOK /\ HistoriesEnd /\ OpenKnown
             /\ HandlersTyped /\ DictionaryTyped /\ RulesTyped /\ MailTyped

-----------------------------------------------------------------------------
\* M4 does nothing.
LEMMA M4Still ==
    ASSUME TypeOK, HistoriesEnd, OpenKnown, UNCHANGED m4, clock' = clock
    PROVE  TypeOK' /\ HistoriesEnd' /\ OpenKnown'
<1>1. TypeOK'
    BY DEF TypeOK, InFlight, m4
<1>2. \A k : Ends(k)' <=> Ends(k)
    BY DEF Ends
<1>3. HistoriesEnd'
    BY <1>2 DEF HistoriesEnd, m4
<1> QED BY <1>1, <1>3 DEF OpenKnown, m4

\* M6 does nothing.
LEMMA M6Still ==
    ASSUME HandlersTyped, DictionaryTyped, RulesTyped, UNCHANGED m6, clock' = clock
    PROVE  HandlersTyped' /\ DictionaryTyped' /\ RulesTyped'
BY DEF HandlersTyped, DictionaryTyped, RulesTyped, m6

LEMMA MailStill ==
    ASSUME MailTyped, UNCHANGED mail, clock \in Nat, clock' \in Nat, clock' >= clock,
           \A t \in Handlers : at[t] = "installing" => at'[t] = at[t] /\ host'[t] = host[t]
    PROVE  MailTyped'
<1>1. \A e \in Events : mail[e].until \in Nat
    BY DEF MailTyped, Mail
<1> QED BY <1>1, LongestFact DEF MailTyped

\* A step of M4 that is one of IncidentService, and what it does to the histories.
LEMMA M4Moves ==
    ASSUME TypeOK, [Next]_vars, clock' = clock,
           \A h \in Hosts : Ends(incident'[h].history) /\ Ends(marking'[h].copy.history),
           \A e \in Events : Ends(task'[e].copy.history)
    PROVE  TypeOK' /\ HistoriesEnd'
<1>1. \A k : Ends(k)' <=> Ends(k)
    BY DEF Ends
<1> QED BY <1>1, NextType DEF HistoriesEnd

\* The incident a call works on is whole, and so is the one saved.
LEMMA HeldEnds ==
    ASSUME TypeOK, HistoriesEnd, NEW e \in Events
    PROVE  /\ HostOf[e] \in Hosts /\ Held(e) \in Incident /\ Held(e).history \in Seq(ActionResult)
           /\ Ends(Held(e).history)
<1>1. HostOf[e] \in Hosts
    BY ConstantsAssumption
<1>2. Held(e) \in Incident
    BY HeldFact
<1>3. Held(e).history \in Seq(ActionResult)
    BY <1>2 DEF Incident
<1> QED BY <1>1, <1>2, <1>3 DEF Held, HistoriesEnd

\* A call ends: its incident is saved with a history that is whole.
LEMMA CallSaved ==
    ASSUME TypeOK, HistoriesEnd, OpenKnown, NEW e \in Events, NEW r \in Incident,
           Save(HostOf[e], r), Ends(r.history), clock' = clock,
           UNCHANGED <<eventKeys, marking>>, actions' \subseteq ActionResult,
           NEW t \in Task, task' = [task EXCEPT ![e] = t], Ends(t.copy.history),
           t.pc = "calling" => t.act \in Actionable,
           t.pc \in Open => task[e].pc \in Open
    PROVE  TypeOK' /\ HistoriesEnd' /\ OpenKnown'
<1>1. HostOf[e] \in Hosts
    BY ConstantsAssumption
<1>2. \A h \in Hosts : incident'[h] = IF h = HostOf[e] THEN r ELSE incident[h]
    BY <1>1 DEF Save, TypeOK
<1>3. \A f \in Events : task'[f] = IF f = e THEN t ELSE task[f]
    BY DEF TypeOK
<1>4. incident' \in [Hosts -> Incident] /\ known' \subseteq Hosts
    BY <1>1 DEF Save, TypeOK
<1>5. task' \in [Events -> Task]
    BY DEF TypeOK
<1>6. \A f \in Events : task'[f].pc = "calling" => task'[f].act \in Actionable
    BY <1>3 DEF TypeOK, InFlight
<1>7. TypeOK'
    BY <1>4, <1>5, <1>6 DEF TypeOK, InFlight
<1>8. \A k : Ends(k)' <=> Ends(k)
    BY DEF Ends
<1>9. \A h \in Hosts : Ends(incident'[h].history) /\ Ends(marking'[h].copy.history)
    BY <1>2 DEF HistoriesEnd
<1>10. \A f \in Events : Ends(task'[f].copy.history)
    BY <1>3 DEF HistoriesEnd
<1>11. HistoriesEnd'
    BY <1>8, <1>9, <1>10 DEF HistoriesEnd
<1>12. OpenKnown'
    BY <1>3 DEF OpenKnown
<1> QED BY <1>7, <1>11, <1>12

\* What a decision leaves of a call and its incident.
LEMMA DecisionFact ==
    ASSUME TypeOK, HistoriesEnd, NEW e \in Events, NEW act \in Decision
    PROVE  /\ Update(Held(e), act) \in Incident
           /\ Update(Held(e), act).history = Held(e).history
           /\ [IdleTask EXCEPT !.pc = "done"] \in Task
           /\ [IdleTask EXCEPT !.pc = "done"].pc = "done"
           /\ [IdleTask EXCEPT !.pc = "done"].copy.history = <<>>
<1>1. Held(e) \in Incident
    BY HeldEnds
<1>2. /\ [IdleTask EXCEPT !.pc = "done"] \in Task
      /\ [IdleTask EXCEPT !.pc = "done"].pc = "done"
      /\ [IdleTask EXCEPT !.pc = "done"].copy.history = <<>>
    BY NewIncidentFact DEF IdleTask, Task, NewIncident
<1> QED BY <1>1, <1>2, UpdateFact

\* A result with an end that fits enters the history.
LEMMA SettledEnds ==
    ASSUME HistoriesEnd, NEW r \in Incident, Ends(r.history), NEW result \in ActionResult,
           result.status = "EXECUTED" => result.until # Never /\ result.until <= clock + Longest
    PROVE  /\ Settled(r, result) \in Incident
           /\ Settled(r, result).history = Prepend(result, r.history)
           /\ Ends(Settled(r, result).history)
<1>1. r.history \in Seq(ActionResult)
    BY DEF Incident
<1>2. Settled(r, result) \in Incident
    BY SettledFact
<1>3. Settled(r, result).history = Prepend(result, r.history)
    BY DEF Settled, Incident
<1> QED BY <1>1, <1>2, <1>3, EndsPrepend

-----------------------------------------------------------------------------
(***************************************************************************)
(* A host that has not strayed                                             *)
(***************************************************************************)
\* It has one request at a time, and whoever works on it works for M4.
AskedOnce(h) ==
    /\ \A e \in MyEvents(h) : mail[e].step # "none" <=> task[e].pc = "calling"
    /\ \A e, f \in MyEvents(h) : task[e].pc = "calling" /\ task[f].pc = "calling" => e = f
    /\ \A t \in Handlers : at[t] = "installing" /\ host[t] = h =>
          \E e \in MyEvents(h) : mail[e].step = "taken" /\ mail[e].by = t

\* The calls work on copies with the blocks that the incident has.
CopiesHold(h) ==
    \A e \in MyEvents(h) : task[e].pc \in Open =>
        LiveEnds(Held(e).history) = LiveEnds(incident[h].history)

\* M4 is told of an unblocking when ONOS has no flow any more.
LiftedFirst(h) == h \in notices \/ marking[h].busy => RuleEnds(h) = {}

RunsTo(h, u) == \A n \in LiveEnds(incident[h].history) : n <= u

\* A request replaces blocks that end earlier; what it has brought is in ONOS.
Due(h, e) ==
    /\ mail[e].step = "sent" => RunsTo(h, clock + Ttl[mail[e].act])
    /\ mail[e].step = "taken" =>
          /\ ttl[mail[e].by] > 0
          /\ RunsTo(h, clock + ttl[mail[e].by])
          /\ got[mail[e].by] # {} => RuleEnds(h) = {clock + ttl[mail[e].by]}
    /\ mail[e].step = "answered" /\ mail[e].until # 0 =>
          /\ RunsTo(h, mail[e].until)
          /\ RuleEnds(h) = {n \in {mail[e].until} : n > clock}

\* The flow is in ONOS, and M4 does not know yet.
Pending(e) ==
    \/ mail[e].step = "taken" /\ got[mail[e].by] # {}
    \/ mail[e].step = "answered" /\ mail[e].until # 0

Together(h) ==
    /\ AskedOnce(h) /\ CopiesHold(h) /\ LiftedFirst(h)
    /\ ~(Requesting(h) /\ Unblocking(h))
    /\ \A e \in MyEvents(h) : Due(h, e)
    /\ Unblocking(h) \/ Agreed(h) \/ \E e \in MyEvents(h) : Pending(e)

LoopInv == LoopTyped /\ \A h \in Hosts \ strayed : Together(h)

\* What a step has to show: the hosts that it leaves alone, or does not lead astray.
Kept(S) ==
    \A h \in Hosts \ (strayed \cup S) : ~(Requesting(h) /\ Unblocking(h))' => Together(h)'

LEMMA QuietTogether == \A h \in Hosts : Quiet(h) /\ Agreed(h) => Together(h)
<1> SUFFICES ASSUME NEW h \in Hosts, Quiet(h), Agreed(h)
             PROVE  Together(h)
    OBVIOUS
<1>1. /\ \A e \in MyEvents(h) : mail[e].step = "none" /\ task[e].pc \notin Open
      /\ \A t \in Handlers : ~(at[t] = "installing" /\ host[t] = h)
      /\ h \notin notices /\ ~marking[h].busy
    BY DEF Quiet, Requesting, Asking, Unblocking, Open
<1>2. AskedOnce(h) /\ CopiesHold(h) /\ LiftedFirst(h)
    BY <1>1 DEF AskedOnce, CopiesHold, LiftedFirst, Open
<1>3. \A e \in MyEvents(h) : Due(h, e)
    BY <1>1 DEF Due
<1> QED BY <1>2, <1>3 DEF Together, Quiet

LEMMA QuietTogetherAfter == (\A h \in Hosts : Quiet(h) /\ Agreed(h) => Together(h))'
BY QuietTogether, PTL

LEMMA StrayKeeps ==
    ASSUME NEW S, Stray(S), Kept(S)
    PROVE  \A h \in Hosts \ strayed' : Together(h)'
<1> SUFFICES ASSUME NEW h \in Hosts, h \notin strayed'
             PROVE  Together(h)'
    OBVIOUS
<1>1. (\A g \in Hosts : Quiet(g) /\ Agreed(g) => Together(g))'
    BY QuietTogetherAfter
<1>2. CASE (Quiet(h) /\ Agreed(h))'
    BY <1>1, <1>2
<1>3. CASE ~(Quiet(h) /\ Agreed(h))'
    <2>1. h \notin strayed \cup S /\ ~(Requesting(h) /\ Unblocking(h))'
        BY <1>3 DEF Stray
    <2> QED BY <2>1 DEF Kept
<1> QED BY <1>2, <1>3

\* What a host's story depends on: nothing of this changes.
Apart(h) ==
    /\ \A e \in MyEvents(h) : task'[e] = task[e] /\ mail'[e] = mail[e]
    /\ incident'[h] = incident[h] /\ marking'[h] = marking[h]
    /\ h \in notices' <=> h \in notices
    /\ RuleEnds(h)' = RuleEnds(h)
    /\ \A t \in Handlers :
          (at[t] # "idle" /\ host[t] = h) \/ (at[t] # "idle" /\ host[t] = h)' =>
             /\ host'[t] = host[t] /\ at'[t] = at[t]
             /\ ttl'[t] = ttl[t] /\ got'[t] = got[t]

LEMMA ApartSame ==
    ASSUME NEW h \in Hosts, Apart(h)
    PROVE  /\ Asking(h)' <=> Asking(h)
           /\ Requesting(h)' <=> Requesting(h)
           /\ Unblocking(h)' <=> Unblocking(h)
<1>1. \A e \in MyEvents(h) : task'[e] = task[e] /\ mail'[e] = mail[e]
    BY DEF Apart
<1>2. \A t \in Handlers : /\ (at[t] = "installing" /\ host[t] = h)' <=> at[t] = "installing" /\ host[t] = h
                          /\ (at[t] = "deleting" /\ host[t] = h)' <=> at[t] = "deleting" /\ host[t] = h
    BY DEF Apart
<1>3. MyEvents(h)' = MyEvents(h)
    BY DEF MyEvents
<1>4. marking'[h] = marking[h] /\ (h \in notices' <=> h \in notices)
    BY DEF Apart
<1>5. Asking(h)' <=> Asking(h)
    BY <1>1, <1>2, <1>3 DEF Asking
<1>6. Requesting(h)' <=> Requesting(h)
    BY <1>1, <1>3, <1>5 DEF Requesting
<1>7. Unblocking(h)' <=> Unblocking(h)
    BY <1>2, <1>4 DEF Unblocking
<1> QED BY <1>5, <1>6, <1>7

LEMMA SameLiveEnds ==
    ASSUME clock' = clock
    PROVE  \A k : LiveEnds(k)' = LiveEnds(k)
BY DEF LiveEnds, Live

\* A step elsewhere.
LEMMA Elsewhere ==
    ASSUME NEW h \in Hosts, Together(h), MailTyped, Apart(h), clock' = clock
    PROVE  Together(h)'
<1>1. /\ \A e \in MyEvents(h) : task'[e] = task[e] /\ mail'[e] = mail[e]
      /\ incident'[h] = incident[h]
      /\ RuleEnds(h)' = RuleEnds(h) /\ MyEvents(h)' = MyEvents(h)
    BY DEF Apart, MyEvents
<1>2. /\ Requesting(h)' <=> Requesting(h)
      /\ Unblocking(h)' <=> Unblocking(h)
    BY ApartSame
<1>3. \A e \in MyEvents(h) : e \in Events /\ HostOf[e] = h
    BY DEF MyEvents
<1>4. \A e \in MyEvents(h) : mail[e].step = "taken" =>
         /\ ttl'[mail[e].by] = ttl[mail[e].by] /\ got'[mail[e].by] = got[mail[e].by]
         /\ at'[mail[e].by] = "installing" /\ host'[mail[e].by] = h
    BY <1>3 DEF MailTyped, Apart
<1>5. AskedOnce(h)'
    <2>1. \A t \in Handlers : at'[t] = "installing" /\ host'[t] = h =>
             at[t] = "installing" /\ host[t] = h
        BY DEF Apart
    <2> QED BY <1>1, <2>1 DEF AskedOnce, Together
<1>6. LiveEnds(incident[h].history)' = LiveEnds(incident[h].history)
    BY <1>1, SameLiveEnds
<1>7. CopiesHold(h)'
    <2>1. \A e \in MyEvents(h) : Held(e)' = Held(e)
        BY <1>1, <1>3 DEF Held
    <2>2. \A e \in MyEvents(h) : LiveEnds(Held(e).history)' = LiveEnds(Held(e).history)
        BY <2>1, SameLiveEnds
    <2> QED BY <1>1, <1>6, <2>2 DEF CopiesHold, Together
<1>8. LiftedFirst(h)'
    BY <1>1 DEF Apart, LiftedFirst, Together
<1>9. \A u : RunsTo(h, u)' <=> RunsTo(h, u)
    BY <1>6 DEF RunsTo
<1>10. \A e \in MyEvents(h) : Due(h, e)'
    <2> SUFFICES ASSUME NEW e \in MyEvents(h) PROVE Due(h, e)'
        OBVIOUS
    <2>1. Due(h, e) /\ mail'[e] = mail[e]
        BY <1>1 DEF Together
    <2> QED BY <1>1, <1>4, <1>9, <2>1 DEF Due
<1>11. \A e \in MyEvents(h) : Pending(e)' <=> Pending(e)
    BY <1>1, <1>4 DEF Pending
<1>12. Agreed(h)' <=> Agreed(h)
    BY <1>1, <1>6 DEF Agreed, Believed, Enforced, Latest
<1> QED BY <1>1, <1>2, <1>5, <1>7, <1>8, <1>10, <1>11, <1>12 DEF Together

-----------------------------------------------------------------------------
(***************************************************************************)
(* M6's steps                                                              *)
(***************************************************************************)
LEMMA RulePut ==
    ASSUME RulesTyped, clock \in Nat, NEW g \in Hosts, NEW d \in Nat, d <= Longest, clock' = clock,
           rules' = {r \in rules : r.flow # g}
                    \cup {[flow |-> g, owner |-> g, until |-> clock + d]}
    PROVE  /\ RulesTyped'
           /\ \A h \in Hosts : h # g => RuleEnds(h)' = RuleEnds(h)
           /\ d > 0 => RuleEnds(g)' = {clock + d}
<1> DEFINE new == [flow |-> g, owner |-> g, until |-> clock + d]
<1>1. \A r \in rules' : r = new \/ (r \in rules /\ r.flow # g)
    OBVIOUS
<1>2. RulesTyped'
    BY <1>1, LongestFact DEF RulesTyped
<1>3. \A h \in Hosts : h # g => RuleEnds(h)' = RuleEnds(h)
    BY DEF RulesTyped, RuleEnds
<1>4. ASSUME d > 0 PROVE RuleEnds(g)' = {clock + d}
    <2>1. \A r \in rules' : r.owner = g => r = new
        BY <1>1 DEF RulesTyped
    <2>2. new \in rules' /\ new.owner = g /\ new.until = clock + d /\ clock + d > clock'
        BY <1>4
    <2> QED BY <2>1, <2>2 DEF RuleEnds
<1> QED BY <1>2, <1>3, <1>4

LEMMA RuleEndsFact ==
    ASSUME RulesTyped, clock \in Nat \ {0}, NEW h \in Hosts
    PROVE  /\ RuleEnds(h) \in SUBSET Nat
           /\ \A n \in RuleEnds(h) : n > clock /\ n <= clock + Longest
           /\ Enforced(h) = 0 <=> RuleEnds(h) = {}
<1>1. RuleEnds(h) \in SUBSET Nat /\ \A n \in RuleEnds(h) : n > clock /\ n <= clock + Longest
    BY DEF RulesTyped, RuleEnds
<1>2. clock + Longest \in Nat
    BY LongestFact
<1>3. \A n \in RuleEnds(h) : n <= Latest(RuleEnds(h))
    BY <1>1, <1>2, LatestFact
<1>4. ASSUME RuleEnds(h) = {} PROVE Latest(RuleEnds(h)) = 0
    BY <1>4 DEF Latest
<1>5. ASSUME NEW n \in RuleEnds(h), Latest(RuleEnds(h)) = 0 PROVE FALSE
    BY <1>1, <1>3, <1>5
<1> QED BY <1>1, <1>4, <1>5 DEF Enforced

LEMMA RuleDropped ==
    ASSUME RulesTyped, NEW g \in Hosts, clock' = clock, rules' = {r \in rules : r.flow # g}
    PROVE  /\ RulesTyped'
           /\ \A h \in Hosts : h # g => RuleEnds(h)' = RuleEnds(h)
           /\ RuleEnds(g)' = {}
BY DEF RulesTyped, RuleEnds

\* A handler that installs for a host works on its request, which is the only one.
LEMMA TheRequest ==
    ASSUME NEW h \in Hosts, AskedOnce(h), NEW t \in Handlers, at[t] = "installing", host[t] = h
    PROVE  \E e \in MyEvents(h) :
              /\ mail[e].step = "taken" /\ mail[e].by = t /\ Requesting(h)
              /\ \A f \in MyEvents(h) : f # e => mail[f].step = "none" /\ task[f].pc # "calling"
<1>1. PICK e \in MyEvents(h) : mail[e].step = "taken" /\ mail[e].by = t
    BY DEF AskedOnce
<1>2. Requesting(h)
    BY DEF Requesting, Asking
<1> QED BY <1>1, <1>2 DEF AskedOnce

\* M4 and the requests stay as they are.
Alone == UNCHANGED <<m4, mail>> /\ clock' = clock

LEMMA HandlerMoves ==
    ASSUME LoopTyped, Alone, HandlersTyped', DictionaryTyped', RulesTyped',
           \A t \in Handlers : at[t] = "installing" => at'[t] = at[t] /\ host'[t] = host[t]
    PROVE  LoopTyped'
<1>1. UNCHANGED m4 /\ UNCHANGED mail /\ clock' = clock /\ clock \in Nat
    BY DEF Alone, LoopTyped, TypeOK
<1>2. TypeOK' /\ HistoriesEnd' /\ OpenKnown'
    BY <1>1, M4Still DEF LoopTyped
<1>3. MailTyped'
    BY <1>1, MailStill DEF LoopTyped
<1> QED BY <1>2, <1>3 DEF LoopTyped

LEMMA Installs ==
    ASSUME LoopInv, NEW t \in Handlers, M6!Install(t), Alone
    PROVE  LoopTyped' /\ Kept({})
<1>1. /\ host[t] \in Hosts /\ ttl[t] \in Nat /\ ttl[t] <= Longest /\ todo[t] \subseteq {host[t]}
      /\ at[t] = "installing" /\ clock \in Nat
    BY DEF LoopInv, LoopTyped, HandlersTyped, M6!Install, TypeOK
<1>2. PICK g \in Hosts : g = host[t]
    BY <1>1
<1>3. /\ M6!Put(g, g, ttl[t])
      /\ todo' = [todo EXCEPT ![t] = @ \ {g}] /\ got' = [got EXCEPT ![t] = @ \cup {g}]
      /\ UNCHANGED <<mitigaciones, notices, at, host, ttl, clock>>
    BY <1>1, <1>2 DEF M6!Install
<1>4. rules' = {r \in rules : r.flow # g} \cup {[flow |-> g, owner |-> g, until |-> clock + ttl[t]]}
    BY <1>3 DEF M6!Put
<1>5. /\ RulesTyped'
      /\ \A h \in Hosts : h # g => RuleEnds(h)' = RuleEnds(h)
      /\ ttl[t] > 0 => RuleEnds(g)' = {clock + ttl[t]}
    BY <1>1, <1>3, <1>4, RulePut DEF LoopInv, LoopTyped
<1>6. HandlersTyped'
    BY <1>1, <1>2, <1>3 DEF LoopInv, LoopTyped, HandlersTyped
<1>7. DictionaryTyped'
    BY <1>3 DEF LoopInv, LoopTyped, DictionaryTyped
<1>8. LoopTyped'
    BY <1>3, <1>5, <1>6, <1>7, HandlerMoves DEF LoopInv
<1>9. \A u \in Handlers : u # t => got'[u] = got[u]
    BY <1>3 DEF LoopInv, LoopTyped, HandlersTyped
<1>10. ASSUME NEW h \in Hosts \ strayed, ~(Requesting(h) /\ Unblocking(h))'
       PROVE  Together(h)'
    <2>1. Together(h) /\ MailTyped /\ clock' = clock
        BY <1>3, <1>10 DEF LoopInv, LoopTyped
    <2>2. CASE h # g
        <3>1. Apart(h)
            BY <1>2, <1>3, <1>5, <1>9, <2>2 DEF Apart, Alone, m4
        <3> QED BY <2>1, <3>1, Elsewhere
    <2>3. CASE h = g
        <3>1. PICK e \in MyEvents(h) :
                 /\ mail[e].step = "taken" /\ mail[e].by = t /\ Requesting(h)
                 /\ \A f \in MyEvents(h) : f # e => mail[f].step = "none" /\ task[f].pc # "calling"
            BY <1>1, <1>2, <2>1, <2>3, TheRequest DEF Together
        <3>2. ttl[t] > 0 /\ RunsTo(h, clock + ttl[t])
            BY <2>1, <3>1 DEF Together, Due
        <3>3. RuleEnds(h)' = {clock + ttl[t]}
            BY <1>5, <2>3, <3>2
        <3>4. /\ UNCHANGED <<at, host, ttl, notices, mail, task, incident, marking>>
              /\ MyEvents(h)' = MyEvents(h)
            BY <1>3 DEF Alone, m4, MyEvents
        <3>5. Requesting(h)' /\ ~Unblocking(h)'
            BY <1>10, <3>1, <3>4 DEF Requesting, Asking
        <3>6. AskedOnce(h)'
            BY <2>1, <3>4 DEF Together, AskedOnce
        <3>7. LiveEnds(incident[h].history)' = LiveEnds(incident[h].history)
            BY <2>1, <3>4, SameLiveEnds
        <3>8. CopiesHold(h)'
            <4>1. \A f \in MyEvents(h) : LiveEnds(Held(f).history)' = LiveEnds(Held(f).history)
                BY <2>1, <3>4, SameLiveEnds DEF Held
            <4> QED BY <2>1, <3>4, <3>7, <4>1 DEF CopiesHold, Together
        <3>9. LiftedFirst(h)'
            BY <3>5 DEF LiftedFirst, Unblocking
        <3>10. got'[t] # {}
            BY <1>3 DEF LoopInv, LoopTyped, HandlersTyped
        <3>11. \A f \in MyEvents(h) : Due(h, f)'
            <4>1. \A f \in MyEvents(h) : f # e => mail[f].step = "none"
                BY <3>1
            <4>2. RunsTo(h, clock + ttl[t])'
                BY <2>1, <3>2, <3>4, <3>7 DEF RunsTo
            <4> QED BY <2>1, <3>1, <3>2, <3>3, <3>4, <4>1, <4>2 DEF Due
        <3>12. Pending(e)'
            BY <3>1, <3>4, <3>10 DEF Pending
        <3> QED BY <3>4, <3>5, <3>6, <3>8, <3>9, <3>11, <3>12 DEF Together
    <2> QED BY <2>2, <2>3
<1> QED BY <1>8, <1>10 DEF Kept

\* A host that M6 is unblocking has no request, unless it has gone astray.
LEMMA UnblockingOnly ==
    ASSUME NEW h \in Hosts, Together(h), Unblocking(h)
    PROVE  /\ \A e \in MyEvents(h) : mail[e].step = "none" /\ task[e].pc \notin Open
           /\ \A t \in Handlers : ~(at[t] = "installing" /\ host[t] = h)
BY DEF Together, Requesting, Asking, Open

\* A host without requests is kept while it is unblocked.
LEMMA WhileUnblocking ==
    ASSUME NEW h \in Hosts,
           \A e \in MyEvents(h) : mail'[e].step = "none" /\ task'[e].pc \notin Open,
           \A t \in Handlers : ~(at'[t] = "installing" /\ host'[t] = h),
           Unblocking(h)', LiftedFirst(h)'
    PROVE  Together(h)'
<1>1. MyEvents(h)' = MyEvents(h)
    BY DEF MyEvents
<1>2. ~Requesting(h)'
    BY <1>1 DEF Requesting, Asking, Open
<1>3. AskedOnce(h)' /\ CopiesHold(h)'
    BY <1>1 DEF AskedOnce, CopiesHold, Open
<1>4. \A e \in MyEvents(h) : Due(h, e)'
    BY DEF Due
<1> QED BY <1>1, <1>2, <1>3, <1>4 DEF Together

\* A handler deletes flows of its host, or fails to.
LEMMA Deletes ==
    ASSUME LoopInv, NEW t \in Handlers, M6!Delete(t) \/ M6!DeleteFails(t), Alone
    PROVE  LoopTyped' /\ Kept({})
<1>1. /\ host[t] \in Hosts /\ todo[t] \subseteq {host[t]} /\ at[t] = "deleting"
    BY DEF LoopInv, LoopTyped, HandlersTyped, M6!Delete, M6!DeleteFails
<1>2. PICK g \in Hosts : g = host[t]
    BY <1>1
<1>3. /\ rules' = rules \/ rules' = {r \in rules : r.flow # g}
      /\ todo' = [todo EXCEPT ![t] = @ \ {g}]
      /\ UNCHANGED <<mitigaciones, notices, at, host, ttl, got, clock>>
    BY <1>1, <1>2 DEF M6!Delete, M6!DeleteFails
<1>4. /\ RulesTyped'
      /\ \A h \in Hosts : h # g => RuleEnds(h)' = RuleEnds(h)
      /\ RuleEnds(g)' = {} \/ RuleEnds(g)' = RuleEnds(g)
    <2>1. CASE rules' = rules
        BY <1>3, <2>1 DEF LoopInv, LoopTyped, RulesTyped, RuleEnds
    <2>2. CASE rules' = {r \in rules : r.flow # g}
        BY <1>3, <2>2, RuleDropped DEF LoopInv, LoopTyped
    <2> QED BY <1>3, <2>1, <2>2
<1>5. HandlersTyped'
    BY <1>1, <1>3 DEF LoopInv, LoopTyped, HandlersTyped
<1>6. DictionaryTyped'
    BY <1>3 DEF LoopInv, LoopTyped, DictionaryTyped
<1>7. LoopTyped'
    BY <1>3, <1>4, <1>5, <1>6, HandlerMoves DEF LoopInv
<1>8. ASSUME NEW h \in Hosts \ strayed PROVE Together(h)'
    <2>1. Together(h) /\ MailTyped /\ clock' = clock
        BY <1>3, <1>8 DEF LoopInv, LoopTyped
    <2>2. CASE h # g
        <3>1. Apart(h)
            BY <1>3, <1>4, <2>2 DEF Apart, Alone, m4
        <3> QED BY <2>1, <3>1, Elsewhere
    <2>3. CASE h = g
        <3>1. Unblocking(h) /\ Unblocking(h)'
            BY <1>1, <1>2, <1>3, <2>3 DEF Unblocking
        <3>2. /\ \A e \in MyEvents(h) : mail[e].step = "none" /\ task[e].pc \notin Open
              /\ \A u \in Handlers : ~(at[u] = "installing" /\ host[u] = h)
            BY <2>1, <3>1, UnblockingOnly
        <3>3. UNCHANGED <<at, host, notices, mail, task, marking>>
            BY <1>3 DEF Alone, m4
        <3>4. LiftedFirst(h)'
            BY <1>4, <2>1, <2>3, <3>3 DEF Together, LiftedFirst
        <3> QED BY <3>1, <3>2, <3>3, <3>4, WhileUnblocking
    <2> QED BY <2>2, <2>3
<1> QED BY <1>7, <1>8 DEF Kept

\* A failed installation that leaves ONOS as it was.
LEMMA InstallFailsQuietly ==
    ASSUME LoopInv, NEW t \in Handlers, M6!InstallFails(t), rules' = rules, Alone
    PROVE  LoopTyped' /\ Kept({})
<1>1. /\ \E F : todo' = [todo EXCEPT ![t] = @ \ F]
      /\ UNCHANGED <<mitigaciones, notices, at, host, ttl, got, rules, clock>>
    BY DEF M6!InstallFails
<1>2. HandlersTyped'
    BY <1>1 DEF LoopInv, LoopTyped, HandlersTyped
<1>3. DictionaryTyped' /\ RulesTyped'
    BY <1>1 DEF LoopInv, LoopTyped, DictionaryTyped, RulesTyped
<1>4. LoopTyped'
    BY <1>1, <1>2, <1>3, HandlerMoves DEF LoopInv
<1>5. ASSUME NEW h \in Hosts \ strayed PROVE Together(h)'
    <2>1. Together(h) /\ MailTyped /\ clock' = clock
        BY <1>1, <1>5 DEF LoopInv, LoopTyped
    <2>2. Apart(h)
        BY <1>1 DEF Apart, Alone, m4, RuleEnds
    <2> QED BY <2>1, <2>2, Elsewhere
<1> QED BY <1>4, <1>5 DEF Kept

\* The flow may be in ONOS, and M6 does not know.
LEMMA InstallsUnknown ==
    ASSUME LoopInv, NEW t \in Handlers, M6!InstallFails(t), Alone
    PROVE  LoopTyped' /\ Kept({host[t]})
<1>1. /\ host[t] \in Hosts /\ ttl[t] \in Nat /\ ttl[t] <= Longest /\ todo[t] \subseteq {host[t]} /\ clock \in Nat
    BY DEF LoopInv, LoopTyped, HandlersTyped, TypeOK
<1>2. PICK g \in Hosts : g = host[t]
    BY <1>1
<1>3. /\ rules' = rules \/ M6!Put(g, g, ttl[t])
      /\ todo' = [todo EXCEPT ![t] = @ \ {g}]
      /\ UNCHANGED <<mitigaciones, notices, at, host, ttl, got, clock>>
    BY <1>1, <1>2 DEF M6!InstallFails
<1>4. RulesTyped' /\ \A h \in Hosts : h # g => RuleEnds(h)' = RuleEnds(h)
    <2>1. CASE rules' = rules
        BY <1>3, <2>1 DEF LoopInv, LoopTyped, RulesTyped, RuleEnds
    <2>2. CASE M6!Put(g, g, ttl[t])
        <3>1. rules' = {r \in rules : r.flow # g}
                       \cup {[flow |-> g, owner |-> g, until |-> clock + ttl[t]]}
            BY <2>2 DEF M6!Put
        <3> QED BY <1>1, <1>3, <3>1, RulePut DEF LoopInv, LoopTyped
    <2> QED BY <1>3, <2>1, <2>2
<1>5. HandlersTyped'
    BY <1>1, <1>3 DEF LoopInv, LoopTyped, HandlersTyped
<1>6. DictionaryTyped'
    BY <1>3 DEF LoopInv, LoopTyped, DictionaryTyped
<1>7. LoopTyped'
    BY <1>3, <1>4, <1>5, <1>6, HandlerMoves DEF LoopInv
<1>8. ASSUME NEW h \in Hosts \ (strayed \cup {host[t]}) PROVE Together(h)'
    <2>1. Together(h) /\ MailTyped /\ clock' = clock
        BY <1>3, <1>8 DEF LoopInv, LoopTyped
    <2>2. Apart(h)
        BY <1>2, <1>3, <1>4, <1>8 DEF Apart, Alone, m4
    <2> QED BY <2>1, <2>2, Elsewhere
<1> QED BY <1>7, <1>8 DEF Kept

\* An unblocking begins.
LEMMA Undoes ==
    ASSUME LoopInv, NEW t \in Handlers, NEW g \in Hosts, M6!Undo(t, g), Alone
    PROVE  LoopTyped' /\ Kept({})
<1>1. PICK r \in mitigaciones[g] : todo' = [todo EXCEPT ![t] = r.flows]
    BY DEF M6!Undo
<1>2. /\ at[t] = "idle" /\ at' = [at EXCEPT ![t] = "deleting"]
      /\ host' = [host EXCEPT ![t] = g]
      /\ UNCHANGED <<mitigaciones, rules, notices, ttl, got, clock>>
    BY DEF M6!Undo
<1>3. r.flows \subseteq {g}
    BY <1>1 DEF LoopInv, LoopTyped, DictionaryTyped
<1>4. HandlersTyped'
    BY <1>1, <1>2, <1>3 DEF LoopInv, LoopTyped, HandlersTyped
<1>5. DictionaryTyped' /\ RulesTyped'
    BY <1>2 DEF LoopInv, LoopTyped, DictionaryTyped, RulesTyped
<1>6. \A u \in Handlers : u # t => at'[u] = at[u] /\ host'[u] = host[u]
    BY <1>2 DEF LoopInv, LoopTyped, HandlersTyped
<1>7. at'[t] = "deleting" /\ host'[t] = g
    BY <1>2 DEF LoopInv, LoopTyped, HandlersTyped
<1>8. LoopTyped'
    BY <1>2, <1>4, <1>5, <1>6, HandlerMoves DEF LoopInv
<1>9. ASSUME NEW h \in Hosts \ strayed, ~(Requesting(h) /\ Unblocking(h))'
      PROVE  Together(h)'
    <2>1. Together(h) /\ MailTyped /\ clock' = clock
        BY <1>2, <1>9 DEF LoopInv, LoopTyped
    <2>2. RuleEnds(h)' = RuleEnds(h)
        BY <1>2 DEF RuleEnds
    <2>3. CASE h # g
        <3>1. Apart(h)
            BY <1>2, <1>6, <1>7, <2>2, <2>3 DEF Apart, Alone, m4
        <3> QED BY <2>1, <3>1, Elsewhere
    <2>4. CASE h = g
        <3>1. Unblocking(h)' /\ ~Requesting(h)'
            BY <1>7, <1>9, <2>4 DEF Unblocking
        <3>2. /\ \A e \in MyEvents(h) : mail'[e].step = "none" /\ task'[e].pc \notin Open
              /\ \A u \in Handlers : ~(at'[u] = "installing" /\ host'[u] = h)
            BY <3>1 DEF Requesting, Asking, Open, MyEvents
        <3>3. UNCHANGED <<notices, marking>>
            BY <1>2 DEF Alone, m4
        <3>4. LiftedFirst(h)'
            BY <2>1, <2>2, <3>3 DEF Together, LiftedFirst
        <3> QED BY <3>1, <3>2, <3>4, WhileUnblocking
    <2> QED BY <2>3, <2>4
<1> QED BY <1>8, <1>9 DEF Kept

\* ONOS removes a flow whose time is over.
LEMMA TimesOut ==
    ASSUME LoopInv, M6!RuleTimesOut, Alone
    PROVE  LoopTyped' /\ Kept({})
<1>1. PICK r \in rules : r.until <= clock /\ rules' = rules \ {r}
    BY DEF M6!RuleTimesOut
<1>2. UNCHANGED <<mitigaciones, notices, at, host, ttl, todo, got, clock>>
    BY DEF M6!RuleTimesOut, M6!work
<1>3. HandlersTyped' /\ DictionaryTyped' /\ RulesTyped'
    BY <1>1, <1>2 DEF LoopInv, LoopTyped, HandlersTyped, DictionaryTyped, RulesTyped
<1>4. LoopTyped'
    BY <1>2, <1>3, HandlerMoves DEF LoopInv
<1>5. r.until \in Nat /\ clock \in Nat
    BY <1>1 DEF LoopInv, LoopTyped, RulesTyped, TypeOK
<1>6. ~(r.until > clock)
    BY <1>1, <1>5
<1>7. ASSUME NEW h \in Hosts \ strayed PROVE Together(h)'
    <2>1. Together(h) /\ MailTyped /\ clock' = clock
        BY <1>2, <1>7 DEF LoopInv, LoopTyped
    <2>2. RuleEnds(h)' = RuleEnds(h)
        BY <1>1, <1>2, <1>6 DEF RuleEnds
    <2>3. Apart(h)
        BY <1>2, <2>2 DEF Apart, Alone, m4
    <2> QED BY <2>1, <2>3, Elsewhere
<1> QED BY <1>4, <1>7 DEF Kept

\* An unblocking ends: M4 is to be told, unless the flow is still there.
LEMMA Marks ==
    ASSUME LoopInv, NEW t \in Handlers, M6!Mark(t), Alone
    PROVE  LoopTyped' /\ Kept({h \in {host[t]} : Enforced(h) # 0})
<1>1. /\ at[t] = "deleting" /\ host[t] \in Hosts /\ clock \in Nat \ {0}
      /\ mitigaciones' = [mitigaciones EXCEPT ![host[t]] = M6!Marked(t)]
      /\ notices' = notices \cup {host[t]}
      /\ at' = [at EXCEPT ![t] = "idle"]
      /\ UNCHANGED <<rules, host, ttl, todo, got, clock>>
    BY DEF M6!Mark, LoopInv, LoopTyped, HandlersTyped, TypeOK
<1>2. PICK g \in Hosts : g = host[t]
    BY <1>1
<1>3. \A m \in M6!Marked(t) :
         m \in [flows : SUBSET Hosts, active : BOOLEAN, until : Nat] /\ m.flows \subseteq {g}
    <2>1. \A m \in mitigaciones[g] :
             m \in [flows : SUBSET Hosts, active : BOOLEAN, until : Nat] /\ m.flows \subseteq {g}
        BY DEF LoopInv, LoopTyped, DictionaryTyped
    <2>2. \A m \in M6!Closed(g) :
             m \in [flows : SUBSET Hosts, active : BOOLEAN, until : Nat] /\ m.flows \subseteq {g}
        BY <2>1 DEF M6!Closed
    <2> QED BY <1>2, <2>1, <2>2 DEF M6!Marked
<1>4. DictionaryTyped'
    BY <1>1, <1>2, <1>3 DEF LoopInv, LoopTyped, DictionaryTyped
<1>5. HandlersTyped' /\ RulesTyped'
    BY <1>1 DEF LoopInv, LoopTyped, HandlersTyped, RulesTyped
<1>6. \A u \in Handlers : at'[u] = IF u = t THEN "idle" ELSE at[u]
    BY <1>1 DEF LoopInv, LoopTyped, HandlersTyped
<1>7. LoopTyped'
    BY <1>1, <1>4, <1>5, <1>6, HandlerMoves DEF LoopInv
<1>8. ASSUME NEW h \in Hosts \ strayed, ~(h = g /\ Enforced(h) # 0)
      PROVE  Together(h)'
    <2>1. Together(h) /\ MailTyped /\ clock' = clock
        BY <1>1, <1>8 DEF LoopInv, LoopTyped
    <2>2. RuleEnds(h)' = RuleEnds(h)
        BY <1>1 DEF RuleEnds
    <2>3. CASE h # g
        <3>1. Apart(h)
            BY <1>1, <1>2, <1>6, <2>2, <2>3 DEF Apart, Alone, m4
        <3> QED BY <2>1, <3>1, Elsewhere
    <2>4. CASE h = g
        <3>1. Unblocking(h) /\ Unblocking(h)'
            BY <1>1, <1>2, <2>4 DEF Unblocking
        <3>2. /\ \A e \in MyEvents(h) : mail[e].step = "none" /\ task[e].pc \notin Open
              /\ \A u \in Handlers : ~(at[u] = "installing" /\ host[u] = h)
            BY <2>1, <3>1, UnblockingOnly
        <3>3. /\ \A e \in MyEvents(h) : mail'[e].step = "none" /\ task'[e].pc \notin Open
              /\ \A u \in Handlers : ~(at'[u] = "installing" /\ host'[u] = h)
            BY <1>1, <1>6, <3>2 DEF Alone, m4
        <3>4. RuleEnds(h) = {}
            BY <1>1, <1>8, <2>4, RuleEndsFact DEF LoopInv, LoopTyped
        <3> QED BY <2>2, <3>1, <3>3, <3>4, WhileUnblocking DEF LiftedFirst
    <2> QED BY <2>3, <2>4
<1> QED BY <1>2, <1>7, <1>8 DEF Kept

-----------------------------------------------------------------------------
(***************************************************************************)
(* What becomes of a request in M6                                         *)
(***************************************************************************)
LEMMA Exchange ==
    ASSUME NEW h \in Hosts, Together(h), UNCHANGED <<m4, notices>>, clock' = clock,
           NEW e \in MyEvents(h), mail[e].step # "none", mail'[e].step # "none",
           \A f \in MyEvents(h) : f # e => mail'[f] = mail[f],
           \A u \in Handlers : at'[u] = "deleting" /\ host'[u] = h =>
               at[u] = "deleting" /\ host[u] = h,
           \A u \in Handlers : at'[u] = "installing" /\ host'[u] = h =>
               mail'[e].step = "taken" /\ mail'[e].by = u,
           Due(h, e)', Agreed(h)' \/ Pending(e)'
    PROVE  Together(h)'
<1>1. UNCHANGED <<task, incident, marking>> /\ MyEvents(h)' = MyEvents(h)
    BY DEF m4, MyEvents
<1>2. task[e].pc = "calling"
    BY DEF Together, AskedOnce
<1>3. \A f \in MyEvents(h) : f # e => mail'[f].step = "none" /\ task[f].pc # "calling"
    BY <1>2 DEF Together, AskedOnce
<1>4. Requesting(h)
    BY DEF Requesting, Asking
<1>5. ~Unblocking(h)'
    BY <1>1, <1>4 DEF Together, Unblocking
<1>6. AskedOnce(h)'
    BY <1>1, <1>2, <1>3 DEF AskedOnce
<1>7. CopiesHold(h)'
    <2>1. \A f \in MyEvents(h) : Held(f)' = Held(f)
        BY <1>1 DEF Held
    <2>2. \A f \in MyEvents(h) : LiveEnds(Held(f).history)' = LiveEnds(Held(f).history)
        BY <2>1, SameLiveEnds
    <2>3. LiveEnds(incident[h].history)' = LiveEnds(incident[h].history)
        BY <1>1, SameLiveEnds
    <2> QED BY <1>1, <2>2, <2>3 DEF CopiesHold, Together
<1>8. LiftedFirst(h)'
    BY <1>5 DEF LiftedFirst, Unblocking
<1>9. \A f \in MyEvents(h) : Due(h, f)'
    BY <1>3 DEF Due
<1> QED BY <1>1, <1>5, <1>6, <1>7, <1>8, <1>9 DEF Together

\* What holds of a host with a request that has brought nothing yet.
LEMMA NothingYet ==
    ASSUME NEW h \in Hosts, Together(h), NEW e \in MyEvents(h), mail[e].step # "none",
           ~Pending(e)
    PROVE  Agreed(h)
<1>1. \A f \in MyEvents(h) : f # e => mail[f].step = "none"
    BY DEF Together, AskedOnce
<1>2. \A f \in MyEvents(h) : ~Pending(f)
    BY <1>1 DEF Pending
<1>3. Requesting(h)
    BY DEF Requesting, Asking
<1> QED BY <1>2, <1>3 DEF Together

LEMMA SameAgreement ==
    ASSUME NEW h \in Hosts, UNCHANGED <<m4, rules>>, clock' = clock
    PROVE  /\ LiveEnds(incident[h].history)' = LiveEnds(incident[h].history)
           /\ RuleEnds(h)' = RuleEnds(h)
           /\ Agreed(h)' <=> Agreed(h)
           /\ \A u : RunsTo(h, u)' <=> RunsTo(h, u)
<1>1. LiveEnds(incident[h].history)' = LiveEnds(incident[h].history)
    BY SameLiveEnds DEF m4
<1>2. RuleEnds(h)' = RuleEnds(h)
    BY DEF RuleEnds
<1> QED BY <1>1, <1>2 DEF Agreed, Believed, Enforced, Latest, RunsTo

\* A handler takes the request.
LEMMA Accepts ==
    ASSUME LoopInv, NEW t \in Handlers, NEW e \in Events, Accept(t, e)
    PROVE  LoopTyped' /\ Kept({})
<1>1. PICK g \in Hosts : g = HostOf[e]
    BY ConstantsAssumption
<1>2. PICK d \in Nat \ {0} : d = Ttl[mail[e].act] /\ d <= Longest
    <2>1. mail[e].act \in Actionable /\ mail[e].act # "MIRROR"
        BY DEF LoopInv, LoopTyped, MailTyped, Mail
    <2> QED BY <2>1, LongestFact
<1>3. /\ mail[e].step = "sent" /\ at[t] = "idle"
      /\ at' = [at EXCEPT ![t] = "installing"] /\ host' = [host EXCEPT ![t] = g]
      /\ ttl' = [ttl EXCEPT ![t] = d] /\ todo' = [todo EXCEPT ![t] = {g}]
      /\ got' = [got EXCEPT ![t] = {}]
      /\ UNCHANGED <<mitigaciones, rules, notices, clock>>
      /\ mail' = [mail EXCEPT ![e].step = "taken", ![e].by = t]
      /\ UNCHANGED m4
    BY <1>1, <1>2 DEF Accept, M6!Mitigate
<1>4. PICK m : m = [mail[e] EXCEPT !.step = "taken", !.by = t]
    OBVIOUS
<1>5. /\ m \in Mail /\ m.step = "taken" /\ m.by = t /\ m.act = mail[e].act
      /\ m.until = mail[e].until
    BY <1>4 DEF LoopInv, LoopTyped, MailTyped, Mail
<1>6. mail' = [mail EXCEPT ![e] = m]
    BY <1>3, <1>4
<1>7. /\ \A f \in Events : mail'[f] = IF f = e THEN m ELSE mail[f]
      /\ mail' \in [Events -> Mail]
    BY <1>5, <1>6 DEF LoopInv, LoopTyped, MailTyped
<1>8. \A u \in Handlers : /\ at'[u] = IF u = t THEN "installing" ELSE at[u]
                          /\ host'[u] = IF u = t THEN g ELSE host[u]
                          /\ ttl'[u] = IF u = t THEN d ELSE ttl[u]
                          /\ got'[u] = IF u = t THEN {} ELSE got[u]
    BY <1>3 DEF LoopInv, LoopTyped, HandlersTyped
<1>9. HandlersTyped'
    BY <1>2, <1>3 DEF LoopInv, LoopTyped, HandlersTyped
<1>10. DictionaryTyped' /\ RulesTyped'
    BY <1>3 DEF LoopInv, LoopTyped, DictionaryTyped, RulesTyped
<1>11. MailTyped'
    BY <1>1, <1>3, <1>5, <1>7, <1>8 DEF LoopInv, LoopTyped, MailTyped
<1>12. LoopTyped'
    BY <1>3, <1>9, <1>10, <1>11, M4Still DEF LoopInv, LoopTyped
<1>13. ASSUME NEW h \in Hosts \ strayed PROVE Together(h)'
    <2>1. Together(h) /\ MailTyped /\ clock' = clock /\ UNCHANGED <<m4, rules>>
        BY <1>3, <1>13 DEF LoopInv, LoopTyped
    <2>2. /\ LiveEnds(incident[h].history)' = LiveEnds(incident[h].history)
          /\ RuleEnds(h)' = RuleEnds(h)
          /\ Agreed(h)' <=> Agreed(h)
          /\ \A u : RunsTo(h, u)' <=> RunsTo(h, u)
        BY <2>1, SameAgreement
    <2>3. CASE h # g
        <3>1. \A f \in MyEvents(h) : f \in Events /\ f # e
            BY <1>1, <2>3 DEF MyEvents
        <3>2. Apart(h)
            BY <1>3, <1>7, <1>8, <2>2, <2>3, <3>1 DEF Apart, m4
        <3> QED BY <2>1, <3>2, Elsewhere
    <2>4. CASE h = g
        <3>1. e \in MyEvents(h) /\ \A f \in MyEvents(h) : f \in Events
            BY <1>1, <2>4 DEF MyEvents
        <3>2. ~Pending(e) /\ mail[e].step # "none"
            BY <1>3 DEF Pending
        <3>3. Agreed(h)
            BY <2>1, <3>1, <3>2, NothingYet
        <3>4. Due(h, e) /\ RunsTo(h, clock + d)
            BY <1>2, <1>3, <2>1, <3>1 DEF Together, Due
        <3>5. Due(h, e)'
            <4>1. RunsTo(h, clock + d)'
                BY <1>3, <2>2, <3>4 DEF RunsTo
            <4> QED BY <1>3, <1>5, <1>7, <1>8, <2>2, <4>1 DEF Due
        <3>6. \A u \in Handlers : at[u] = "installing" /\ host[u] = h => FALSE
            <4> SUFFICES ASSUME NEW u \in Handlers, at[u] = "installing", host[u] = h PROVE FALSE
                OBVIOUS
            <4>1. PICK f \in MyEvents(h) :
                     /\ mail[f].step = "taken" /\ mail[f].by = u /\ Requesting(h)
                     /\ \A k \in MyEvents(h) : k # f => mail[k].step = "none" /\ task[k].pc # "calling"
                BY <2>1, TheRequest DEF Together
            <4> QED BY <1>3, <3>1, <4>1
        <3>7. \A u \in Handlers : at'[u] = "installing" /\ host'[u] = h =>
                 mail'[e].step = "taken" /\ mail'[e].by = u
            BY <1>5, <1>7, <1>8, <3>6
        <3>8. \A u \in Handlers : at'[u] = "deleting" /\ host'[u] = h =>
                 at[u] = "deleting" /\ host[u] = h
            BY <1>8
        <3>9. \A f \in MyEvents(h) : f # e => mail'[f] = mail[f]
            BY <1>7, <3>1
        <3>10. mail'[e].step # "none"
            BY <1>5, <1>7
        <3> QED BY <1>3, <2>1, <2>2, <3>1, <3>2, <3>3, <3>5, <3>7, <3>8, <3>9, <3>10, Exchange
    <2> QED BY <2>3, <2>4
<1> QED BY <1>12, <1>13 DEF Kept

\* An answer reaches M4 if the request is not given up, and keeps its shape.
LEMMA HeardFact ==
    ASSUME LoopTyped, NEW e \in Events, NEW u \in Nat, u <= clock + Longest
    PROVE  /\ Heard(e, u) \in Mail /\ Heard(e, u).step \in {"none", "answered"}
           /\ Heard(e, u).act # "MIRROR" /\ Heard(e, u).until <= clock + Longest
           /\ task[e].pc = "calling" => Heard(e, u).step = "answered" /\ Heard(e, u).until = u
<1>1. mail[e] \in Mail /\ mail[e].act # "MIRROR" /\ clock \in Nat
    BY DEF LoopTyped, MailTyped, TypeOK
<1>2. NoMail \in Mail /\ NoMail.step = "none" /\ NoMail.act # "MIRROR" /\ NoMail.until = 0
    BY DEF NoMail, Mail, Actionable
<1>3. 0 <= clock + Longest
    BY <1>1, LongestFact
<1>4. CASE task[e].pc = "calling"
    <2>1. PICK m : m = [mail[e] EXCEPT !.step = "answered", !.until = u]
        OBVIOUS
    <2>2. m \in Mail /\ m.step = "answered" /\ m.until = u /\ m.act = mail[e].act
        BY <1>1, <2>1 DEF Mail
    <2>3. Heard(e, u) = m
        BY <1>4, <2>1 DEF Heard
    <2> QED BY <1>1, <2>2, <2>3
<1>5. CASE task[e].pc # "calling"
    BY <1>2, <1>3, <1>5 DEF Heard
<1> QED BY <1>4, <1>5

\* M6 refuses a request at once.
LEMMA Refuses ==
    ASSUME LoopInv, NEW e \in Events, Refuse(e)
    PROVE  LoopTyped' /\ Kept({})
<1>1. /\ mail[e].step = "sent" /\ mail' = [mail EXCEPT ![e] = Heard(e, 0)]
      /\ UNCHANGED <<m4, m6, clock>>
    BY DEF Refuse
<1>2. /\ UNCHANGED <<mitigaciones, rules, notices, at, host, ttl, todo, got>>
      /\ UNCHANGED <<task, incident, marking>>
    BY <1>1 DEF m4, m6
<1>3. LoopTyped /\ clock \in Nat
    BY DEF LoopInv, LoopTyped, TypeOK
<1>4. /\ Heard(e, 0) \in Mail /\ Heard(e, 0).step \in {"none", "answered"}
      /\ Heard(e, 0).act # "MIRROR" /\ Heard(e, 0).until <= clock + Longest
      /\ task[e].pc = "calling" => Heard(e, 0).step = "answered" /\ Heard(e, 0).until = 0
    <2>1. 0 <= clock + Longest
        BY <1>3, LongestFact
    <2> QED BY <1>3, <2>1, HeardFact
<1>5. \A f \in Events : mail'[f] = IF f = e THEN Heard(e, 0) ELSE mail[f]
    BY <1>1, <1>3 DEF LoopTyped, MailTyped
<1>6. MailTyped'
    <2>1. mail' \in [Events -> Mail]
        BY <1>1, <1>3, <1>4 DEF LoopTyped, MailTyped
    <2> QED BY <1>1, <1>2, <1>3, <1>4, <1>5, <2>1 DEF LoopTyped, MailTyped
<1>7. LoopTyped'
    BY <1>1, <1>3, <1>6, M4Still, M6Still DEF LoopTyped
<1>8. ASSUME NEW h \in Hosts \ strayed PROVE Together(h)'
    <2>1. Together(h) /\ MailTyped /\ clock' = clock /\ UNCHANGED <<m4, rules>>
        BY <1>1, <1>2, <1>8 DEF LoopInv, LoopTyped
    <2>2. /\ RuleEnds(h)' = RuleEnds(h)
          /\ Agreed(h)' <=> Agreed(h)
        BY <2>1, SameAgreement
    <2>3. CASE e \notin MyEvents(h)
        <3>1. Apart(h)
            BY <1>2, <1>5, <2>2, <2>3 DEF Apart, MyEvents
        <3> QED BY <2>1, <3>1, Elsewhere
    <2>4. CASE e \in MyEvents(h)
        <3>1. task[e].pc = "calling"
            BY <1>1, <2>1, <2>4 DEF Together, AskedOnce
        <3>2. mail'[e].step = "answered" /\ mail'[e].until = 0
            BY <1>4, <1>5, <3>1
        <3>3. Agreed(h)
            BY <1>1, <2>1, <2>4, NothingYet DEF Pending
        <3>4. Due(h, e)'
            BY <3>2 DEF Due
        <3>5. \A u \in Handlers : at[u] = "installing" /\ host[u] = h => FALSE
            <4> SUFFICES ASSUME NEW u \in Handlers, at[u] = "installing", host[u] = h PROVE FALSE
                OBVIOUS
            <4>1. PICK f \in MyEvents(h) :
                     /\ mail[f].step = "taken" /\ mail[f].by = u /\ Requesting(h)
                     /\ \A k \in MyEvents(h) : k # f => mail[k].step = "none" /\ task[k].pc # "calling"
                BY <2>1, TheRequest DEF Together
            <4> QED BY <1>1, <2>4, <4>1
        <3>6. \A f \in MyEvents(h) : f # e => mail'[f] = mail[f]
            BY <1>5 DEF MyEvents
        <3> QED BY <1>1, <1>2, <2>1, <2>2, <2>4, <3>2, <3>3, <3>4, <3>5, <3>6, Exchange
    <2> QED BY <2>3, <2>4
<1> QED BY <1>7, <1>8 DEF Kept

\* A handler is done with a request, and M4 is answered.
LEMMA Answering ==
    ASSUME LoopInv, NEW t \in Handlers, Answer(t)
    PROVE  LoopTyped' /\ Kept({})
<1>1. /\ at[t] = "installing" /\ clock \in Nat \ {0} /\ LoopTyped
      /\ host[t] \in Hosts /\ ttl[t] \in Nat /\ ttl[t] <= Longest /\ got[t] \subseteq Hosts
    BY DEF Answer, M6!Store, LoopInv, LoopTyped, HandlersTyped, TypeOK
<1>2. PICK g \in Hosts : g = host[t]
    BY <1>1
<1>3. /\ mitigaciones' = [mitigaciones EXCEPT ![host[t]] = {M6!Entry(t)}]
      /\ at' = [at EXCEPT ![t] = "idle"] /\ got' = [got EXCEPT ![t] = {}]
      /\ ttl' = [ttl EXCEPT ![t] = 0]
      /\ UNCHANGED <<rules, notices, host, todo, clock>>
      /\ UNCHANGED m4
    BY DEF Answer, M6!Store
<1>4. Reply(t) \in Nat /\ Reply(t) <= clock + Longest
    BY <1>1, LongestFact DEF Reply
<1>5. \A f \in Events : mail'[f] = IF mail[f].by = t /\ mail[f].step = "taken"
                                  THEN Heard(f, Reply(t)) ELSE mail[f]
    BY DEF Answer
<1>6. \A u \in Handlers : /\ at'[u] = IF u = t THEN "idle" ELSE at[u]
                          /\ ttl'[u] = IF u = t THEN 0 ELSE ttl[u]
                          /\ got'[u] = IF u = t THEN {} ELSE got[u]
    BY <1>3 DEF LoopInv, LoopTyped, HandlersTyped
<1>7. HandlersTyped' /\ RulesTyped'
    <2>1. 0 <= Longest /\ Longest \in Nat
        BY LongestFact
    <2>2. HandlersTyped'
        BY <1>1, <1>3, <1>6, <2>1 DEF LoopTyped, HandlersTyped
    <2> QED BY <1>1, <1>3, <2>2 DEF LoopTyped, RulesTyped
<1>8. DictionaryTyped'
    <2>1. got[t] \subseteq {g}
        BY <1>1, <1>2 DEF LoopTyped, HandlersTyped
    <2>2. /\ M6!Entry(t) \in [flows : SUBSET Hosts, active : BOOLEAN, until : Nat]
          /\ M6!Entry(t).flows \subseteq {g}
        BY <1>1, <2>1 DEF M6!Entry
    <2> QED BY <1>1, <1>2, <1>3, <2>2 DEF LoopTyped, DictionaryTyped
<1>9. \A f \in Events : /\ Heard(f, Reply(t)) \in Mail
                        /\ Heard(f, Reply(t)).step \in {"none", "answered"}
                        /\ Heard(f, Reply(t)).act # "MIRROR"
                        /\ Heard(f, Reply(t)).until <= clock + Longest
                        /\ task[f].pc = "calling" =>
                              /\ Heard(f, Reply(t)).step = "answered"
                              /\ Heard(f, Reply(t)).until = Reply(t)
    BY <1>1, <1>4, HeardFact
<1>10. MailTyped'
    <2>1. mail' \in [Events -> Mail]
        BY <1>1, <1>9 DEF Answer, LoopTyped, MailTyped
    <2>2. ASSUME NEW f \in Events
          PROVE  /\ mail'[f].act # "MIRROR" /\ mail'[f].until <= clock + Longest
                 /\ mail'[f].step = "taken" => /\ mail'[f].by \in Handlers
                                               /\ at'[mail'[f].by] = "installing"
                                               /\ host'[mail'[f].by] = HostOf[f]
        BY <1>1, <1>3, <1>5, <1>6, <1>9 DEF LoopTyped, MailTyped
    <2> QED BY <1>3, <2>1, <2>2 DEF MailTyped
<1>11. LoopTyped'
    BY <1>1, <1>3, <1>7, <1>8, <1>10, M4Still DEF LoopTyped
<1>12. ASSUME NEW h \in Hosts \ strayed PROVE Together(h)'
    <2>1. Together(h) /\ MailTyped /\ clock' = clock /\ UNCHANGED <<m4, rules>>
        BY <1>3, <1>12 DEF LoopInv, LoopTyped
    <2>2. /\ LiveEnds(incident[h].history)' = LiveEnds(incident[h].history)
          /\ RuleEnds(h)' = RuleEnds(h)
          /\ Agreed(h)' <=> Agreed(h)
          /\ \A u : RunsTo(h, u)' <=> RunsTo(h, u)
        BY <2>1, SameAgreement
    <2>3. CASE h # g
        <3>1. \A f \in MyEvents(h) : ~(mail[f].by = t /\ mail[f].step = "taken")
            BY <1>2, <2>1, <2>3 DEF MailTyped, MyEvents
        <3>2. Apart(h)
            BY <1>2, <1>3, <1>5, <1>6, <2>2, <2>3, <3>1 DEF Apart, m4, MyEvents
        <3> QED BY <2>1, <3>2, Elsewhere
    <2>4. CASE h = g
        <3>1. PICK e \in MyEvents(h) :
                 /\ mail[e].step = "taken" /\ mail[e].by = t /\ Requesting(h)
                 /\ \A f \in MyEvents(h) : f # e => mail[f].step = "none" /\ task[f].pc # "calling"
            BY <1>1, <1>2, <2>1, <2>4, TheRequest DEF Together
        <3>2. task[e].pc = "calling" /\ e \in Events
            BY <2>1, <3>1 DEF Together, AskedOnce, MyEvents
        <3>3. mail'[e].step = "answered" /\ mail'[e].until = Reply(t)
            BY <1>5, <1>9, <3>1, <3>2
        <3>4. /\ ttl[t] > 0 /\ RunsTo(h, clock + ttl[t])
              /\ got[t] # {} => RuleEnds(h) = {clock + ttl[t]}
            BY <2>1, <3>1 DEF Together, Due
        <3>5. Due(h, e)'
            <4>1. CASE got[t] = {}
                BY <3>3, <4>1 DEF Due, Reply
            <4>2. CASE got[t] # {}
                <5>1. mail'[e].until = clock + ttl[t] /\ clock + ttl[t] > clock
                    BY <1>1, <3>3, <3>4, <4>2 DEF Reply
                <5>2. RuleEnds(h)' = {n \in {clock + ttl[t]} : n > clock}
                    BY <2>2, <3>4, <4>2, <5>1
                <5>3. RunsTo(h, mail[e].until)'
                    BY <2>2, <3>4, <5>1 DEF RunsTo
                <5> QED BY <2>1, <3>3, <5>1, <5>2, <5>3 DEF Due
            <4> QED BY <4>1, <4>2
        <3>6. Agreed(h)' \/ Pending(e)'
            <4>1. CASE got[t] = {}
                <5>1. ~Pending(e)
                    BY <3>1, <4>1 DEF Pending
                <5> QED BY <2>1, <2>2, <3>1, <5>1, NothingYet
            <4>2. CASE got[t] # {}
                <5>1. mail'[e].until # 0
                    BY <1>1, <3>3, <4>2 DEF Reply
                <5> QED BY <3>3, <5>1 DEF Pending
            <4> QED BY <4>1, <4>2
        <3>7. \A u \in Handlers : ~(at'[u] = "installing" /\ host'[u] = h)
            <4> SUFFICES ASSUME NEW u \in Handlers, u # t, at[u] = "installing", host[u] = h
                         PROVE  FALSE
                BY <1>3, <1>6
            <4>1. PICK f \in MyEvents(h) :
                     /\ mail[f].step = "taken" /\ mail[f].by = u /\ Requesting(h)
                     /\ \A k \in MyEvents(h) : k # f => mail[k].step = "none" /\ task[k].pc # "calling"
                BY <2>1, TheRequest DEF Together
            <4> QED BY <3>1, <4>1
        <3>8. \A f \in MyEvents(h) : f # e => mail'[f] = mail[f]
            BY <1>5, <3>1 DEF MyEvents
        <3>9. \A u \in Handlers : at'[u] = "deleting" /\ host'[u] = h =>
                 at[u] = "deleting" /\ host[u] = h
            BY <1>3, <1>6
        <3> QED BY <1>3, <2>1, <3>1, <3>3, <3>5, <3>6, <3>7, <3>8, <3>9, Exchange
    <2> QED BY <2>3, <2>4
<1> QED BY <1>11, <1>12 DEF Kept

-----------------------------------------------------------------------------
(***************************************************************************)
(* M4's steps                                                              *)
(***************************************************************************)
\* M6, the requests, the marks and the clock stay as they are.
Calm == UNCHANGED <<m6, mail, clock, marking>>

LEMMA CalmTyped ==
    ASSUME LoopTyped, UNCHANGED <<m6, clock>>, MailTyped', TypeOK', HistoriesEnd', OpenKnown'
    PROVE  LoopTyped'
BY M6Still DEF LoopTyped

LEMMA SameMail ==
    ASSUME LoopTyped, UNCHANGED <<m6, mail, clock>>
    PROVE  MailTyped'
BY MailStill DEF LoopTyped, TypeOK, m6

\* The calls go on, with the blocks that the incident has.
LEMMA Steady ==
    ASSUME NEW h \in Hosts, Together(h), Calm,
           LiveEnds(incident[h].history)' = LiveEnds(incident[h].history),
           \A e \in MyEvents(h) : task'[e].pc = "calling" <=> task[e].pc = "calling",
           CopiesHold(h)', ~(Requesting(h) /\ Unblocking(h))'
    PROVE  Together(h)'
<1>1. /\ UNCHANGED <<at, host, ttl, got, notices, rules>> /\ UNCHANGED <<mail, clock, marking>>
      /\ MyEvents(h)' = MyEvents(h)
    BY DEF Calm, m6, MyEvents
<1>2. AskedOnce(h)'
    BY <1>1 DEF Together, AskedOnce
<1>3. RuleEnds(h)' = RuleEnds(h) /\ (Unblocking(h)' <=> Unblocking(h))
    BY <1>1 DEF RuleEnds, Unblocking
<1>4. LiftedFirst(h)'
    BY <1>1, <1>3 DEF Together, LiftedFirst
<1>5. \A u : RunsTo(h, u)' <=> RunsTo(h, u)
    BY DEF RunsTo
<1>6. \A e \in MyEvents(h) : Due(h, e)'
    <2> SUFFICES ASSUME NEW e \in MyEvents(h) PROVE Due(h, e)'
        OBVIOUS
    <2>1. Due(h, e)
        BY DEF Together
    <2> QED BY <1>1, <1>3, <1>5, <2>1 DEF Due
<1>7. \A e \in MyEvents(h) : Pending(e)' <=> Pending(e)
    BY <1>1 DEF Pending
<1>8. Agreed(h)' <=> Agreed(h)
    BY <1>3 DEF Agreed, Believed, Enforced, Latest
<1> QED BY <1>1, <1>2, <1>3, <1>4, <1>6, <1>7, <1>8 DEF Together

\* A step of one call is not a step of the other hosts' ones.
LEMMA CallElsewhere ==
    ASSUME LoopInv, NEW e \in Events, NEW h \in Hosts \ strayed, h # HostOf[e],
           UNCHANGED <<m6, clock, marking>>, incident'[h] = incident[h],
           \A f \in Events : f # e => task'[f] = task[f] /\ mail'[f] = mail[f]
    PROVE  Together(h)'
<1>1. Together(h) /\ MailTyped
    BY DEF LoopInv, LoopTyped
<1>2. UNCHANGED <<rules, notices, at, host, ttl, got, clock, marking>>
    BY DEF m6
<1>3. RuleEnds(h)' = RuleEnds(h)
    BY <1>2 DEF RuleEnds
<1>4. \A f \in MyEvents(h) : f \in Events /\ f # e
    BY DEF MyEvents
<1>5. Apart(h)
    BY <1>2, <1>3, <1>4 DEF Apart
<1> QED BY <1>1, <1>2, <1>5, Elsewhere

\* An event begins to be decided.
LEMMA Receives ==
    ASSUME LoopInv, NEW e \in Events, Receive(e), UNCHANGED <<m6, mail>>
    PROVE  LoopTyped' /\ Kept({})
<1>1. PICK g \in Hosts : g = HostOf[e]
    BY ConstantsAssumption
<1>2. LoopTyped
    BY DEF LoopInv
<1>3. PICK c : c = IF Persistence = "mysql" THEN incident[g] ELSE NewIncident
    OBVIOUS
<1>4. /\ e \notin eventKeys /\ eventKeys' = eventKeys \cup {e}
      /\ task' = [task EXCEPT ![e] = [pc |-> "deciding", act |-> "LOG", copy |-> c]]
      /\ UNCHANGED <<known, incident, actions, marking, clock>>
    BY <1>1, <1>3 DEF Receive
<1>5. \A f \in Events : task'[f] = IF f = e THEN [pc |-> "deciding", act |-> "LOG", copy |-> c]
                                            ELSE task[f]
    BY <1>2, <1>4 DEF LoopTyped, TypeOK
<1>6. TypeOK'
    BY <1>2, NextType DEF LoopTyped, Next
<1>7. Ends(c.history)
    BY <1>2, <1>3, NothingRuns DEF LoopTyped, HistoriesEnd, NewIncident
<1>8. HistoriesEnd'
    <2>1. \A k : Ends(k)' <=> Ends(k)
        BY <1>4 DEF Ends
    <2>2. \A f \in Events : Ends(task'[f].copy.history)
        BY <1>2, <1>5, <1>7 DEF LoopTyped, HistoriesEnd
    <2> QED BY <1>2, <1>4, <2>1, <2>2 DEF LoopTyped, HistoriesEnd
<1>9. OpenKnown'
    BY <1>2, <1>4, <1>5 DEF LoopTyped, OpenKnown
<1>10. LoopTyped'
    BY <1>2, <1>4, <1>6, <1>8, <1>9, CalmTyped, SameMail
<1>11. ASSUME NEW h \in Hosts \ strayed, ~(Requesting(h) /\ Unblocking(h))'
       PROVE  Together(h)'
    <2>1. CASE h # g
        BY <1>1, <1>4, <1>5, <2>1, CallElsewhere
    <2>2. CASE h = g
        <3>1. Together(h)
            BY <1>11 DEF LoopInv
        <3>2. LiveEnds(incident[h].history)' = LiveEnds(incident[h].history)
            BY <1>4, SameLiveEnds
        <3>3. task[e].pc \notin Open
            BY <1>2, <1>4 DEF LoopTyped, OpenKnown
        <3>4. \A f \in MyEvents(h) : task'[f].pc = "calling" <=> task[f].pc = "calling"
            BY <1>5, <3>3 DEF MyEvents, Open
        <3>5. ASSUME NEW f \in MyEvents(h), task'[f].pc \in Open
              PROVE  LiveEnds(Held(f).history)' = LiveEnds(incident[h].history)'
            <4>1. CASE f = e
                <5>1. Held(e)' = incident'[h]
                    BY <1>1, <1>3, <1>4, <1>5, <2>2 DEF Held
                <5> QED BY <4>1, <5>1
            <4>2. CASE f # e
                <5>1. f \in Events /\ task'[f] = task[f]
                    BY <1>5, <4>2 DEF MyEvents
                <5>2. Held(f)' = Held(f)
                    BY <1>4, <5>1 DEF Held
                <5>3. LiveEnds(Held(f).history)' = LiveEnds(Held(f).history)
                    BY <1>4, <5>2, SameLiveEnds
                <5> QED BY <3>1, <3>2, <3>5, <5>1, <5>3 DEF Together, CopiesHold
            <4> QED BY <4>1, <4>2
        <3>6. CopiesHold(h)'
            BY <3>5 DEF CopiesHold, MyEvents
        <3> QED BY <1>4, <1>11, <3>1, <3>2, <3>4, <3>6, Steady DEF Calm
    <2> QED BY <2>1, <2>2
<1> QED BY <1>10, <1>11 DEF Kept

\* A call saves an incident with the blocks of the one it has worked on.
LEMMA SavedCopies ==
    ASSUME LoopTyped, NEW e \in Events, NEW h \in Hosts, h = HostOf[e], CopiesHold(h),
           task[e].pc \in Open, NEW r, Save(h, r), clock' = clock,
           LiveEnds(r.history) = LiveEnds(Held(e).history),
           \A f \in Events : f # e => task'[f] = task[f],
           task'[e].pc \notin Open \/ (Persistence = "mysql" => task'[e].copy.history = r.history)
    PROVE  /\ LiveEnds(incident[h].history)' = LiveEnds(incident[h].history)
           /\ CopiesHold(h)'
<1>1. incident'[h] = r
    BY DEF Save, LoopTyped, TypeOK
<1>2. \A f \in MyEvents(h) : f \in Events /\ HostOf[f] = h
    BY DEF MyEvents
<1>3. LiveEnds(incident[h].history)' = LiveEnds(r.history)
    BY <1>1, SameLiveEnds
<1>4. LiveEnds(r.history) = LiveEnds(incident[h].history)
    BY DEF CopiesHold, MyEvents
<1>5. ASSUME NEW f \in MyEvents(h), task'[f].pc \in Open
      PROVE  LiveEnds(Held(f).history)' = LiveEnds(r.history)
    <2>1. CASE Persistence # "mysql"
        <3>1. Held(f)' = r
            BY <1>1, <1>2, <2>1 DEF Held
        <3> QED BY <3>1, SameLiveEnds
    <2>2. CASE Persistence = "mysql" /\ f = e
        <3>1. Held(f)'.history = r.history
            BY <1>5, <2>2 DEF Held
        <3> QED BY <3>1, SameLiveEnds
    <2>3. CASE Persistence = "mysql" /\ f # e
        <3>1. task'[f] = task[f]
            BY <1>2, <2>3
        <3>2. Held(f)' = Held(f)
            BY <2>3, <3>1 DEF Held
        <3>3. LiveEnds(Held(f).history)' = LiveEnds(Held(f).history)
            BY <3>2, SameLiveEnds
        <3> QED BY <1>4, <1>5, <3>1, <3>3 DEF CopiesHold
    <2> QED BY <2>1, <2>2, <2>3
<1>6. CopiesHold(h)'
    BY <1>3, <1>5 DEF CopiesHold, MyEvents
<1> QED BY <1>3, <1>4, <1>6

\* A decision that asks for nothing.
LEMMA Decides ==
    ASSUME LoopInv, NEW e \in Events, NEW S, Calm, task[e].pc = "deciding",
           NEW r \in Incident, Save(HostOf[e], r), Ends(r.history),
           task' = [task EXCEPT ![e] = [IdleTask EXCEPT !.pc = "done"]],
           eventKeys' = eventKeys, actions' \subseteq ActionResult,
           HostOf[e] \notin S => LiveEnds(r.history) = LiveEnds(Held(e).history)
    PROVE  LoopTyped' /\ Kept(S)
<1>1. PICK g \in Hosts : g = HostOf[e]
    BY ConstantsAssumption
<1>2. LoopTyped
    BY DEF LoopInv
<1>3. PICK t \in Task : /\ t = [IdleTask EXCEPT !.pc = "done"]
                        /\ t.pc = "done" /\ t.copy.history = <<>>
    BY <1>2, DecisionFact DEF LoopTyped, Decision
<1>4. /\ task' = [task EXCEPT ![e] = t] /\ clock' = clock /\ marking' = marking
      /\ UNCHANGED <<m6, mail, clock>>
    BY <1>3 DEF Calm
<1>5. \A f \in Events : task'[f] = IF f = e THEN t ELSE task[f]
    BY <1>2, <1>4 DEF LoopTyped, TypeOK
<1>6. TypeOK' /\ HistoriesEnd' /\ OpenKnown'
    BY <1>2, <1>3, <1>4, CallSaved, NothingRuns DEF LoopTyped, Open
<1>7. LoopTyped'
    BY <1>2, <1>4, <1>6, CalmTyped, SameMail
<1>8. ASSUME NEW h \in Hosts \ (strayed \cup S), ~(Requesting(h) /\ Unblocking(h))'
      PROVE  Together(h)'
    <2>1. CASE h # g
        <3>1. incident'[h] = incident[h]
            BY <1>1, <1>2, <2>1 DEF Save, LoopTyped, TypeOK
        <3>2. \A f \in Events : f # e => task'[f] = task[f] /\ mail'[f] = mail[f]
            BY <1>4, <1>5
        <3> QED BY <1>1, <1>4, <2>1, <3>1, <3>2, CallElsewhere
    <2>2. CASE h = g
        <3>1. Together(h) /\ CopiesHold(h)
            BY <1>8 DEF LoopInv, Together
        <3>2. LiveEnds(r.history) = LiveEnds(Held(e).history)
            BY <1>1, <1>8, <2>2
        <3>3. task[e].pc \in Open /\ task'[e].pc \notin Open
            BY <1>3, <1>5 DEF Open
        <3>4. \A f \in Events : f # e => task'[f] = task[f]
            BY <1>5
        <3>5. /\ LiveEnds(incident[h].history)' = LiveEnds(incident[h].history)
              /\ CopiesHold(h)'
            BY <1>1, <1>2, <1>4, <2>2, <3>1, <3>2, <3>3, <3>4, SavedCopies
        <3>6. \A f \in MyEvents(h) : task'[f].pc = "calling" <=> task[f].pc = "calling"
            BY <1>3, <1>5 DEF MyEvents
        <3> QED BY <1>8, <3>1, <3>5, <3>6, Steady
    <2> QED BY <2>1, <2>2
<1> QED BY <1>7, <1>8 DEF Kept

LEMMA DecidesAlone ==
    ASSUME LoopInv, NEW e \in Events, NEW act \in Decision, DecideOnly(e, act),
           UNCHANGED <<m6, mail>>
    PROVE  LoopTyped' /\ Kept({})
<1>1. PICK r : r = Update(Held(e), act)
    OBVIOUS
<1>2. LoopTyped /\ TypeOK /\ HistoriesEnd
    BY DEF LoopInv, LoopTyped
<1>3. r \in Incident /\ r.history = Held(e).history
    BY <1>1, <1>2, DecisionFact
<1>4. /\ task[e].pc = "deciding" /\ Save(HostOf[e], r) /\ Calm /\ eventKeys' = eventKeys
      /\ task' = [task EXCEPT ![e] = [IdleTask EXCEPT !.pc = "done"]]
      /\ actions' \subseteq ActionResult
    BY <1>1, <1>2 DEF DecideOnly, Calm, TypeOK
<1>5. Ends(r.history) /\ LiveEnds(r.history) = LiveEnds(Held(e).history)
    BY <1>2, <1>3, HeldEnds
<1> QED BY <1>3, <1>4, <1>5, Decides

LEMMA Simulates ==
    ASSUME LoopInv, NEW e \in Events, NEW act \in Decision, DecideSimulated(e, act),
           UNCHANGED <<m6, mail>>
    PROVE  LoopTyped' /\ Kept(HostIf(e, Forgetful(e)))
<1>1. LoopTyped /\ TypeOK /\ HistoriesEnd
    BY DEF LoopInv, LoopTyped
<1>2. PICK result : result = Simulated(e, act)
    OBVIOUS
<1>3. result \in ActionResult /\ result.status = "SIMULATED"
    <2>1. act \in Actionable
        BY DEF DecideSimulated, ShouldExecute
    <2> QED BY <1>1, <1>2, <2>1, AnswersFact
<1>4. PICK q \in Incident : q = Update(Held(e), act) /\ q.history = Held(e).history
    BY <1>1, DecisionFact
<1>5. PICK r : r = Settled(q, result)
    OBVIOUS
<1>6. Held(e).history \in Seq(ActionResult) /\ Ends(Held(e).history)
    BY <1>1, HeldEnds
<1>7. r \in Incident /\ r.history = Prepend(result, Held(e).history) /\ Ends(r.history)
    BY <1>1, <1>3, <1>4, <1>5, <1>6, SettledEnds
<1>8. /\ task[e].pc = "deciding" /\ Save(HostOf[e], r) /\ Calm /\ eventKeys' = eventKeys
      /\ task' = [task EXCEPT ![e] = [IdleTask EXCEPT !.pc = "done"]]
      /\ actions' = actions \cup {result}
    BY <1>2, <1>4, <1>5 DEF DecideSimulated, Calm
<1>9. actions' \subseteq ActionResult
    BY <1>1, <1>3, <1>8 DEF TypeOK
<1>10. ASSUME HostOf[e] \notin HostIf(e, Forgetful(e))
       PROVE  LiveEnds(r.history) = LiveEnds(Held(e).history)
    <2>1. ~(Len(Held(e).history) = HistoryCap /\ Live(Held(e).history[HistoryCap]))
        BY <1>10 DEF HostIf, Forgetful
    <2>2. ~Live(result)
        BY <1>3 DEF Live
    <2>3. Len(Held(e).history) <= HistoryCap
        BY <1>6 DEF Ends
    <2>4. LiveEnds(Prepend(result, Held(e).history)) =
             LiveEnds(Held(e).history) \cup {n \in {result.until} : Live(result)}
        BY <1>3, <1>6, <2>1, <2>3, LiveEndsPrepend
    <2> QED BY <1>7, <2>2, <2>4
<1> QED BY <1>7, <1>8, <1>9, <1>10, Decides

\* The longest of the blocks M4 takes for running does not end after another time.
LEMMA NotShorter ==
    ASSUME LoopTyped, NEW h \in Hosts, NEW u \in Nat, ~(Believed(h) > u)
    PROVE  RunsTo(h, u)
<1>1. incident[h].history \in Seq(ActionResult) /\ Ends(incident[h].history) /\ clock \in Nat \ {0}
    BY DEF LoopTyped, TypeOK, HistoriesEnd, Incident
<1>2. /\ LiveEnds(incident[h].history) \in SUBSET Nat
      /\ \A n \in LiveEnds(incident[h].history) : n <= clock + Longest
    BY <1>1, LiveEndsFact
<1>3. clock + Longest \in Nat
    BY <1>1, LongestFact
<1>4. PICK L \in SUBSET Nat : L = LiveEnds(incident[h].history)
    BY <1>2
<1>5. Latest(L) \in L \cup {0} /\ \A n \in L : n <= Latest(L)
    BY <1>2, <1>3, <1>4, LatestFact
<1>6. L \cup {0} \subseteq Nat
    OBVIOUS
<1>7. Latest(L) \in Nat
    BY ONLY <1>5, <1>6
<1>8. Latest(L) <= u
    BY <1>4, <1>7 DEF Believed
<1>9. \A n \in L : n <= u
    BY <1>5, <1>7, <1>8
<1> QED BY <1>4, <1>9 DEF RunsTo

LEMMA Sends ==
    ASSUME LoopInv, NEW e \in Events, NEW act \in Decision, Send(e, act)
    PROVE  LoopTyped' /\ Kept(HostIf(e, Shortens(e, act) \/ Asking(HostOf[e])))
<1>1. PICK g \in Hosts : g = HostOf[e]
    BY ConstantsAssumption
<1>2. LoopTyped /\ TypeOK /\ HistoriesEnd /\ clock \in Nat
    BY DEF LoopInv, LoopTyped, TypeOK
<1>3. PICK q \in Incident : q = Update(Held(e), act) /\ q.history = Held(e).history
    BY <1>2, DecisionFact
<1>4. PICK r \in Incident : r = [q EXCEPT !.state = "MITIGATING"] /\ r.history = q.history
    <2>1. "MITIGATING" \in IncidentState
        BY DEF IncidentState
    <2>2. /\ [q EXCEPT !.state = "MITIGATING"] \in Incident
          /\ [q EXCEPT !.state = "MITIGATING"].history = q.history
        BY <2>1, StateChangeFact
    <2> QED BY <2>2
<1>5. PICK c \in Incident : /\ c = IF Persistence = "mysql" THEN r ELSE NewIncident
                            /\ Ends(c.history)
    BY <1>2, <1>3, <1>4, HeldEnds, NewIncidentFact, NothingRuns DEF NewIncident
<1>6. PICK t : t = [pc |-> "calling", act |-> act, copy |-> c]
    OBVIOUS
<1>7. PICK m : m = [NoMail EXCEPT !.step = "sent", !.act = act]
    OBVIOUS
<1>8. /\ act \in Actionable /\ act # "MIRROR" /\ task[e].pc = "deciding"
      /\ Save(g, r) /\ task' = [task EXCEPT ![e] = t] /\ mail' = [mail EXCEPT ![e] = m]
      /\ UNCHANGED <<eventKeys, actions, marking, clock>> /\ UNCHANGED m6
    BY <1>1, <1>3, <1>4, <1>5, <1>6, <1>7 DEF Send, DecideCall, ShouldExecute
<1>9. /\ m \in Mail /\ m.step = "sent" /\ m.act = act /\ m.until = 0
    BY <1>7, <1>8 DEF NoMail, Mail, Actionable
<1>10. t \in Task /\ t.pc = "calling" /\ t.act = act /\ t.copy = c
    BY <1>6 DEF Task
<1>11. \A f \in Events : /\ task'[f] = IF f = e THEN t ELSE task[f]
                         /\ mail'[f] = IF f = e THEN m ELSE mail[f]
    BY <1>2, <1>8 DEF LoopTyped, TypeOK, MailTyped
<1>12. TypeOK' /\ HistoriesEnd' /\ OpenKnown'
    <2>1. Ends(r.history) /\ actions' \subseteq ActionResult
        BY <1>2, <1>3, <1>4, <1>8, HeldEnds DEF TypeOK
    <2> QED BY <1>1, <1>2, <1>5, <1>8, <1>10, <2>1, CallSaved DEF LoopTyped, Open
<1>13. MailTyped'
    <2>1. mail' \in [Events -> Mail]
        BY <1>2, <1>8, <1>9 DEF LoopTyped, MailTyped
    <2>2. UNCHANGED <<at, host>> /\ 0 <= clock + Longest
        BY <1>2, <1>8, LongestFact DEF m6
    <2> QED BY <1>2, <1>8, <1>9, <1>11, <2>1, <2>2 DEF LoopTyped, MailTyped
<1>14. LoopTyped'
    BY <1>2, <1>8, <1>12, <1>13, CalmTyped
<1>15. ASSUME NEW h \in Hosts \ (strayed \cup HostIf(e, Shortens(e, act) \/ Asking(HostOf[e]))),
              ~(Requesting(h) /\ Unblocking(h))'
       PROVE  Together(h)'
    <2>1. CASE h # g
        <3>1. incident'[h] = incident[h]
            BY <1>2, <1>8, <2>1 DEF Save, TypeOK
        <3> QED BY <1>1, <1>8, <1>11, <1>15, <2>1, <3>1, CallElsewhere
    <2>2. CASE h = g
        <3>1. Together(h) /\ ~Shortens(e, act) /\ ~Asking(h)
            BY <1>1, <1>15, <2>2 DEF LoopInv, HostIf
        <3>2. e \in MyEvents(h) /\ MyEvents(h)' = MyEvents(h) /\ \A f \in MyEvents(h) : f \in Events
            BY <1>1, <2>2 DEF MyEvents
        <3>3. \A f \in MyEvents(h) : f # e => mail'[f].step = "none" /\ task'[f].pc # "calling"
            BY <1>11, <3>1, <3>2 DEF Asking
        <3>4. \A u \in Handlers : ~(at[u] = "installing" /\ host[u] = h)
            BY <3>1 DEF Asking
        <3>5. mail'[e].step = "sent" /\ mail'[e].act = act /\ task'[e].pc = "calling"
            BY <1>9, <1>10, <1>11
        <3>6. UNCHANGED <<at, host, rules, notices, marking, clock>>
            BY <1>8 DEF m6
        <3>7. AskedOnce(h)'
            BY <3>2, <3>3, <3>4, <3>5, <3>6 DEF AskedOnce
        <3>8. Requesting(h)' /\ ~Unblocking(h)' /\ ~Unblocking(h)
            BY <1>15, <3>2, <3>5, <3>6 DEF Requesting, Asking, Unblocking
        <3>9. /\ LiveEnds(incident[h].history)' = LiveEnds(incident[h].history)
              /\ CopiesHold(h)'
            <4>1. Persistence = "mysql" => task'[e].copy.history = r.history
                BY <1>5, <1>10, <1>11
            <4>2. \A f \in Events : f # e => task'[f] = task[f]
                BY <1>11
            <4>3. LiveEnds(r.history) = LiveEnds(Held(e).history)
                BY <1>3, <1>4
            <4> QED BY <1>1, <1>2, <1>8, <2>2, <3>1, <4>1, <4>2, <4>3, SavedCopies DEF Together, Open
        <3>10. RuleEnds(h)' = RuleEnds(h)
            BY <3>6 DEF RuleEnds
        <3>11. LiftedFirst(h)'
            BY <3>8 DEF LiftedFirst, Unblocking
        <3>12. RunsTo(h, clock + Ttl[act])
            <4>1. Ttl[act] \in Nat
                BY <1>8, LongestFact
            <4>2. ~(Believed(h) > clock + Ttl[act])
                BY <1>1, <2>2, <3>1 DEF Shortens
            <4> QED BY <1>2, <4>1, <4>2, NotShorter
        <3>13. \A f \in MyEvents(h) : Due(h, f)'
            <4>1. RunsTo(h, clock + Ttl[act])'
                BY <3>6, <3>9, <3>12 DEF RunsTo
            <4>2. Due(h, e)'
                BY <3>5, <4>1 DEF Due
            <4>3. \A f \in MyEvents(h) : f # e => Due(h, f)'
                BY <3>3 DEF Due
            <4> QED BY <4>2, <4>3
        <3>14. Agreed(h)
            <4>1. \A f \in MyEvents(h) : ~Pending(f)
                BY <3>1 DEF Pending, Asking
            <4> QED BY <3>1, <3>8, <4>1 DEF Together
        <3>15. Agreed(h)'
            BY <3>9, <3>10, <3>14 DEF Agreed, Believed, Enforced, Latest
        <3> QED BY <3>2, <3>7, <3>8, <3>9, <3>11, <3>13, <3>15 DEF Together
    <2> QED BY <2>1, <2>2
<1> QED BY <1>14, <1>15 DEF Kept

\* M4 has the answer: what it takes for running is what ONOS has.
LEMMA AgreedAnswer ==
    ASSUME LoopTyped, NEW L \in SUBSET Nat, NEW u \in Nat \ {0}, \A n \in L : n > clock /\ n <= u
    PROVE  Latest(L \cup {n \in {u} : n > clock}) = Latest({n \in {u} : n > clock})
<1>1. clock \in Nat
    BY DEF LoopTyped, TypeOK
<1>2. PICK T \in SUBSET Nat : T = {n \in {u} : n > clock}
    OBVIOUS
<1>3. CASE u > clock
    <2>0. T = {u}
        BY <1>2, <1>3
    <2>1. L \cup T \in SUBSET Nat /\ \A n \in L \cup T : n <= u
        BY <2>0
    <2>2. Latest(L \cup T) = u
        BY <2>0, <2>1, LatestIs
    <2>3. Latest(T) = u
        BY <2>0, LatestIs
    <2> QED BY <1>2, <2>2, <2>3
<1>4. CASE ~(u > clock)
    <2>1. \A n \in L : FALSE
        BY <1>1, <1>4
    <2>2. L \cup T = T
        BY <2>1
    <2> QED BY <1>2, <2>2
<1> QED BY <1>3, <1>4

\* What is left of a call that has recorded its result.
LEMMA Recorded ==
    ASSUME LoopTyped, NEW e \in Events, NEW result \in ActionResult, Record(e, result),
           result.status = "EXECUTED" => result.until # Never /\ result.until <= clock + Longest
    PROVE  /\ TypeOK' /\ HistoriesEnd' /\ OpenKnown'
           /\ \A h \in Hosts : h # HostOf[e] => incident'[h] = incident[h]
           /\ incident'[HostOf[e]].history = Prepend(result, Held(e).history)
           /\ \A f \in Events : f # e => task'[f] = task[f]
           /\ task'[e].pc = "done" /\ task[e].pc = "calling" /\ LoopFree
           /\ clock' = clock /\ marking' = marking
<1>1. TypeOK /\ HistoriesEnd /\ OpenKnown
    BY DEF LoopTyped
<1>2. HostOf[e] \in Hosts /\ Held(e) \in Incident /\ Ends(Held(e).history)
    BY <1>1, HeldEnds
<1>3. PICK r \in Incident : /\ r = Settled(Held(e), result)
                            /\ r.history = Prepend(result, Held(e).history) /\ Ends(r.history)
    BY <1>1, <1>2, SettledEnds
<1>4. PICK t \in Task : /\ t = [IdleTask EXCEPT !.pc = "done"]
                        /\ t.pc = "done" /\ t.copy.history = <<>>
    BY <1>1, DecisionFact DEF Decision
<1>5. /\ LoopFree /\ task[e].pc = "calling" /\ Save(HostOf[e], r)
      /\ task' = [task EXCEPT ![e] = t] /\ actions' = actions \cup {result}
      /\ UNCHANGED <<eventKeys, marking, clock>>
    BY <1>3, <1>4 DEF Record
<1>6. actions' \subseteq ActionResult
    BY <1>1, <1>5 DEF TypeOK
<1>7. TypeOK' /\ HistoriesEnd' /\ OpenKnown'
    BY <1>1, <1>3, <1>4, <1>5, <1>6, CallSaved, NothingRuns DEF Open
<1>8. \A h \in Hosts : incident'[h] = IF h = HostOf[e] THEN r ELSE incident[h]
    BY <1>1, <1>2, <1>5 DEF Save, TypeOK
<1>9. \A f \in Events : task'[f] = IF f = e THEN t ELSE task[f]
    BY <1>1, <1>5 DEF TypeOK
<1> QED BY <1>2, <1>3, <1>4, <1>5, <1>7, <1>8, <1>9

LEMMA NoMailTyped ==
    ASSUME LoopTyped, UNCHANGED <<m6, clock>>,
           mail' \in [Events -> Mail],
           \A f \in Events : mail'[f] = NoMail \/ mail'[f] = mail[f]
    PROVE  MailTyped'
<1>1. UNCHANGED <<at, host>> /\ clock \in Nat /\ 0 <= clock + Longest
    BY LongestFact DEF m6, LoopTyped, TypeOK
<1>2. NoMail.step = "none" /\ NoMail.act = "BLOCK" /\ NoMail.until = 0
    BY DEF NoMail
<1> QED BY <1>1, <1>2 DEF LoopTyped, MailTyped

LEMMA NoMailFact == NoMail \in Mail /\ NoMail.step = "none"
BY DEF NoMail, Mail, Actionable

\* M4 has an answer in time.
LEMMA IsAnswered ==
    ASSUME LoopInv, NEW e \in Events, Answered(e)
    PROVE  LoopTyped' /\ Kept(HostIf(e, Forgetful(e)))
<1>1. LoopTyped /\ TypeOK /\ clock \in Nat \ {0} /\ mail[e] \in Mail /\ mail[e].until \in Nat
    BY DEF LoopInv, LoopTyped, TypeOK, MailTyped, Mail
<1>2. PICK result : /\ result = IF mail[e].until = 0 THEN AnswerFailed(e)
                                ELSE [AnswerExecuted(e) EXCEPT !.until = mail[e].until]
                    /\ Record(e, result)
    BY DEF Answered
<1>3. task[e].pc = "calling" /\ mail[e].step = "answered"
    BY <1>2 DEF Record, Answered
<1>4. task[e].act \in Actionable
    BY <1>1, <1>3 DEF TypeOK, InFlight
<1>5. /\ result \in ActionResult
      /\ IF mail[e].until = 0 THEN result.status = "FAILED"
         ELSE result.status = "EXECUTED" /\ result.until = mail[e].until
    <2>1. CASE mail[e].until = 0
        BY <1>2, <1>4, <2>1 DEF AnswerFailed, ActionResult, Never
    <2>2. CASE mail[e].until # 0
        <3>1. PICK u : u = IF task[e].act = "MIRROR" THEN Never ELSE clock + Ttl[task[e].act]
            OBVIOUS
        <3>2. AnswerExecuted(e) = [ev |-> e, act |-> task[e].act, status |-> "EXECUTED", until |-> u]
            BY <3>1 DEF AnswerExecuted
        <3>3. result = [ev |-> e, act |-> task[e].act, status |-> "EXECUTED", until |-> mail[e].until]
            BY <1>2, <2>2, <3>2
        <3> QED BY <1>1, <1>4, <2>2, <3>3 DEF ActionResult
    <2> QED BY <2>1, <2>2
<1>6. result.status = "EXECUTED" => result.until # Never /\ result.until <= clock + Longest
    BY <1>1, <1>5 DEF Never, LoopTyped, MailTyped
<1>7. /\ TypeOK' /\ HistoriesEnd' /\ OpenKnown'
      /\ \A h \in Hosts : h # HostOf[e] => incident'[h] = incident[h]
      /\ incident'[HostOf[e]].history = Prepend(result, Held(e).history)
      /\ \A f \in Events : f # e => task'[f] = task[f]
      /\ task'[e].pc = "done" /\ LoopFree /\ clock' = clock /\ marking' = marking
    BY <1>1, <1>2, <1>5, <1>6, Recorded
<1>8. mail' = [mail EXCEPT ![e] = NoMail] /\ UNCHANGED m6
    BY DEF Answered
<1>9. /\ \A f \in Events : mail'[f] = IF f = e THEN NoMail ELSE mail[f]
      /\ mail' \in [Events -> Mail]
    BY <1>1, <1>8, NoMailFact DEF LoopTyped, MailTyped
<1>10. LoopTyped'
    BY <1>1, <1>7, <1>8, <1>9, NoMailTyped, CalmTyped
<1>11. ASSUME NEW h \in Hosts \ (strayed \cup HostIf(e, Forgetful(e)))
       PROVE  Together(h)'
    <2>1. CASE h # HostOf[e]
        BY <1>7, <1>8, <1>9, <1>11, <2>1, CallElsewhere
    <2>2. CASE h = HostOf[e]
        <3>1. Together(h) /\ ~Forgetful(e) /\ e \in MyEvents(h)
            BY <1>11, <2>2 DEF LoopInv, HostIf, MyEvents
        <3>2. /\ \A f \in MyEvents(h) : f \in Events
              /\ \A f \in MyEvents(h) : f # e => mail[f].step = "none" /\ task[f].pc # "calling"
            BY <1>3, <3>1 DEF Together, AskedOnce, MyEvents
        <3>3. \A u \in Handlers : ~(at[u] = "installing" /\ host[u] = h)
            <4> SUFFICES ASSUME NEW u \in Handlers, at[u] = "installing", host[u] = h PROVE FALSE
                OBVIOUS
            <4>1. PICK f \in MyEvents(h) :
                     /\ mail[f].step = "taken" /\ mail[f].by = u /\ Requesting(h)
                     /\ \A k \in MyEvents(h) : k # f => mail[k].step = "none" /\ task[k].pc # "calling"
                BY <3>1, TheRequest DEF Together
            <4> QED BY <1>3, <3>1, <4>1
        <3>4. Requesting(h) /\ ~Unblocking(h)
            BY <1>3, <3>1 DEF Together, Requesting, Asking
        <3>5. UNCHANGED <<at, host, rules, notices, marking, clock>>
            BY <1>7, <1>8 DEF m6
        <3>6. \A f \in MyEvents(h) : task'[f].pc \notin Open /\ mail'[f].step = "none"
            BY <1>7, <1>9, <3>2, NoMailFact DEF LoopFree, Open
        <3>7. Quiet(h)'
            BY <3>3, <3>4, <3>5, <3>6 DEF Quiet, Requesting, Asking, Unblocking, Open, MyEvents
        <3>8. Held(e).history \in Seq(ActionResult) /\ Ends(Held(e).history)
            BY <1>1, HeldEnds DEF LoopTyped
        <3>9. LiveEnds(Prepend(result, Held(e).history)) =
                 LiveEnds(Held(e).history) \cup {n \in {result.until} : Live(result)}
            <4>1. ~(Len(Held(e).history) = HistoryCap /\ Live(Held(e).history[HistoryCap]))
                BY <3>1 DEF Forgetful
            <4>2. Len(Held(e).history) <= HistoryCap
                BY <3>8 DEF Ends
            <4> QED BY <1>5, <3>8, <4>1, <4>2, LiveEndsPrepend
        <3>10. PICK L : /\ L = LiveEnds(incident[h].history) /\ L = LiveEnds(Held(e).history)
            BY <1>3, <3>1 DEF Together, CopiesHold, Open
        <3>11. L \in SUBSET Nat /\ \A n \in L : n > clock
            BY <1>1, <3>8, <3>10, LiveEndsFact
        <3>12. LiveEnds(incident[h].history)' = L \cup {n \in {result.until} : Live(result)}
            <4>1. \A k : LiveEnds(k)' = LiveEnds(k)
                BY <1>7, SameLiveEnds
            <4>2. LiveEnds(incident'[h].history) = L \cup {n \in {result.until} : Live(result)}
                BY <1>7, <2>2, <3>9, <3>10
            <4> QED BY <4>1, <4>2
        <3>13. RuleEnds(h)' = RuleEnds(h)
            BY <3>5 DEF RuleEnds
        <3>14. Latest(L \cup {n \in {result.until} : Live(result)}) = Latest(RuleEnds(h))
            <4>1. CASE mail[e].until = 0
                <5>1. Agreed(h)
                    BY <1>3, <3>1, <4>1, NothingYet DEF Pending
                <5>2. ~Live(result)
                    BY <1>5, <4>1 DEF Live
                <5>3. L \cup {n \in {result.until} : Live(result)} = L
                    BY <5>2
                <5> QED BY <3>10, <5>1, <5>3 DEF Agreed, Believed, Enforced
            <4>2. CASE mail[e].until # 0
                <5>1. RunsTo(h, mail[e].until) /\ RuleEnds(h) = {n \in {mail[e].until} : n > clock}
                    BY <1>3, <3>1, <4>2 DEF Together, Due
                <5>2. \A n \in L : n > clock /\ n <= mail[e].until
                    BY <3>10, <3>11, <5>1 DEF RunsTo
                <5>3. result.until = mail[e].until /\ (Live(result) <=> result.until > clock)
                    BY <1>5, <4>2 DEF Live, Never
                <5>4. {n \in {result.until} : Live(result)} = {n \in {mail[e].until} : n > clock}
                    BY <5>3
                <5>5. Latest(L \cup {n \in {mail[e].until} : n > clock})
                         = Latest({n \in {mail[e].until} : n > clock})
                    BY <1>1, <3>11, <4>2, <5>2, AgreedAnswer
                <5> QED BY <5>1, <5>4, <5>5
            <4> QED BY <4>1, <4>2
        <3>15. Agreed(h)'
            BY <3>12, <3>13, <3>14 DEF Agreed, Believed, Enforced, Latest
        <3> QED BY <3>7, <3>15, QuietTogetherAfter
    <2> QED BY <2>1, <2>2
<1> QED BY <1>10, <1>11 DEF Kept

\* M4 waits no longer.
LEMMA GivesUp ==
    ASSUME LoopInv, NEW e \in Events, GiveUp(e)
    PROVE  LoopTyped' /\ Kept({HostOf[e]})
<1>1. LoopTyped /\ TypeOK
    BY DEF LoopInv, LoopTyped
<1>2. Record(e, AnswerFailed(e)) /\ UNCHANGED m6
    BY DEF GiveUp
<1>3. task[e].act \in Actionable
    BY <1>1, <1>2 DEF Record, TypeOK, InFlight
<1>4. AnswerFailed(e) \in ActionResult /\ AnswerFailed(e).status = "FAILED"
    BY <1>3 DEF AnswerFailed, ActionResult, Never
<1>5. /\ TypeOK' /\ HistoriesEnd' /\ OpenKnown'
      /\ \A h \in Hosts : h # HostOf[e] => incident'[h] = incident[h]
      /\ \A f \in Events : f # e => task'[f] = task[f]
      /\ clock' = clock /\ marking' = marking
    BY <1>1, <1>2, <1>4, Recorded
<1>6. mail' = [mail EXCEPT ![e] = NoMail] \/ mail' = mail
    BY DEF GiveUp
<1>7. /\ mail' \in [Events -> Mail]
      /\ \A f \in Events : mail'[f] = NoMail \/ mail'[f] = mail[f]
      /\ \A f \in Events : f # e => mail'[f] = mail[f]
    BY <1>1, <1>6, NoMailFact DEF LoopTyped, MailTyped
<1>8. LoopTyped'
    BY <1>1, <1>2, <1>5, <1>7, NoMailTyped, CalmTyped
<1>9. ASSUME NEW h \in Hosts \ (strayed \cup {HostOf[e]}) PROVE Together(h)'
    BY <1>2, <1>5, <1>7, <1>9, CallElsewhere
<1> QED BY <1>8, <1>9 DEF Kept

\* M4 stops.
LEMMA Stops ==
    ASSUME LoopInv, Stop
    PROVE  LoopTyped' /\ Kept(Hosts)
<1>1. LoopTyped /\ TypeOK /\ HistoriesEnd
    BY DEF LoopInv, LoopTyped
<1>2. Restart /\ UNCHANGED m6 /\ clock' = clock
    BY DEF Stop, Restart
<1>3. TypeOK'
    BY <1>1, <1>2, NextType DEF Next
<1>4. /\ IdleTask.copy.history = <<>> /\ NewIncident.history = <<>>
      /\ [IdleTask EXCEPT !.pc = "lost"].pc = "lost"
      /\ [IdleTask EXCEPT !.pc = "lost"].copy.history = <<>>
    BY DEF IdleTask, NewIncident
<1>5. \A e \in Events : /\ task'[e].copy.history = <<>> \/ task'[e] = task[e]
                        /\ task'[e].pc \notin Open
    BY <1>2, <1>4 DEF Restart, Open
<1>6. \A h \in Hosts : /\ incident'[h].history = <<>> \/ incident'[h] = incident[h]
                       /\ marking'[h].copy.history = <<>>
    BY <1>2, <1>4 DEF Restart
<1>7. HistoriesEnd'
    <2>1. \A k : Ends(k)' <=> Ends(k)
        BY <1>2 DEF Ends
    <2>2. /\ \A h \in Hosts : Ends(incident'[h].history) /\ Ends(marking'[h].copy.history)
          /\ \A e \in Events : Ends(task'[e].copy.history)
        BY <1>1, <1>5, <1>6, NothingRuns DEF HistoriesEnd
    <2> QED BY <2>1, <2>2 DEF HistoriesEnd
<1>8. OpenKnown'
    BY <1>5 DEF OpenKnown
<1>9. /\ mail' \in [Events -> Mail]
      /\ \A f \in Events : mail'[f] = NoMail \/ mail'[f] = mail[f]
    BY <1>1, NoMailFact DEF Stop, LoopTyped, MailTyped
<1>10. LoopTyped'
    BY <1>1, <1>2, <1>3, <1>7, <1>8, <1>9, NoMailTyped, CalmTyped
<1> QED BY <1>10 DEF Kept

\* M6 stops: a host that no handler is at work on is as it was.
LEMMA StopsM6 ==
    ASSUME LoopInv, StopM6
    PROVE  LoopTyped' /\ Kept(notices \cup {host[t] : t \in {u \in Handlers : at[u] # "idle"}})
<1>1. /\ LoopTyped /\ TypeOK /\ clock \in Nat
      /\ UNCHANGED <<m4, rules, host, clock>>
      /\ mitigaciones' = [h \in Hosts |-> {}] /\ notices' = {}
      /\ at' = [t \in Handlers |-> "idle"] /\ ttl' = [t \in Handlers |-> 0]
      /\ todo' = [t \in Handlers |-> {}] /\ got' = [t \in Handlers |-> {}]
    BY DEF StopM6, M6!Restart, LoopInv, LoopTyped, TypeOK
<1>2. TypeOK' /\ HistoriesEnd' /\ OpenKnown'
    BY <1>1, M4Still DEF LoopTyped
<1>3. HandlersTyped'
    BY <1>1, LongestFact DEF LoopTyped, HandlersTyped
<1>4. DictionaryTyped' /\ RulesTyped'
    BY <1>1 DEF LoopTyped, DictionaryTyped, RulesTyped
<1>5. \A e \in Events :
         mail'[e] = IF mail[e].step = "taken" THEN Heard(e, 0) ELSE mail[e]
    BY DEF StopM6
<1>6. MailTyped'
    <2>1. 0 <= clock + Longest
        BY <1>1, LongestFact
    <2>2. ASSUME NEW e \in Events
          PROVE  /\ mail'[e] \in Mail /\ mail'[e].step # "taken"
                 /\ mail'[e].act # "MIRROR" /\ mail'[e].until <= clock' + Longest
        <3>1. mail[e] \in Mail /\ mail[e].act # "MIRROR" /\ mail[e].until <= clock + Longest
            BY <1>1 DEF LoopTyped, MailTyped
        <3>2. /\ Heard(e, 0) \in Mail /\ Heard(e, 0).step \in {"none", "answered"}
              /\ Heard(e, 0).act # "MIRROR" /\ Heard(e, 0).until <= clock + Longest
            BY <1>1, <2>1, HeardFact
        <3> QED BY <1>1, <1>5, <3>1, <3>2
    <2>3. mail' \in [Events -> Mail]
        <3>1. mail' = [e \in Events |-> mail'[e]]
            BY DEF StopM6
        <3> QED BY <2>2, <3>1
    <2> QED BY <2>2, <2>3 DEF MailTyped
<1>7. LoopTyped'
    BY <1>2, <1>3, <1>4, <1>6 DEF LoopTyped
<1>8. ASSUME NEW h \in Hosts \ strayed, h \notin notices,
             \A t \in Handlers : at[t] # "idle" => host[t] # h
      PROVE  Together(h)'
    <2>1. Together(h) /\ MailTyped /\ RuleEnds(h)' = RuleEnds(h)
        BY <1>1, <1>8 DEF LoopInv, LoopTyped, RuleEnds
    <2>2. \A e \in MyEvents(h) : mail'[e] = mail[e]
        <3> SUFFICES ASSUME NEW e \in MyEvents(h), mail[e].step = "taken"
                     PROVE  FALSE
            BY <1>5 DEF MyEvents
        <3>1. e \in Events /\ HostOf[e] = h
            BY DEF MyEvents
        <3> QED BY <1>8, <2>1, <3>1 DEF MailTyped
    <2>3. Apart(h)
        BY <1>1, <1>8, <2>1, <2>2 DEF Apart, m4, MyEvents
    <2> QED BY <1>1, <2>1, <2>3, Elsewhere
<1>9. Kept(notices \cup {host[t] : t \in {u \in Handlers : at[u] # "idle"}})
    BY <1>8 DEF Kept
<1> QED BY <1>7, <1>9

\* M4 is told, and begins to mark the incident.
LEMMA Tells ==
    ASSUME LoopInv, NEW g \in Hosts, Told(g)
    PROVE  LoopTyped' /\ Kept({})
<1>1. LoopTyped /\ TypeOK /\ HistoriesEnd /\ OpenKnown
    BY DEF LoopInv, LoopTyped
<1>2. /\ g \in notices /\ notices' = notices \ {g}
      /\ UNCHANGED <<mitigaciones, rules, at, host, ttl, todo, got, current, failed, clock>>
      /\ UNCHANGED mail
    BY DEF Told, M6!Notify, M6!work
<1>3. /\ marking' = [marking EXCEPT ![g] =
                       [busy |-> TRUE,
                        copy |-> IF Persistence = "mysql" THEN incident[g] ELSE NewIncident]]
      /\ incident' = IF Persistence = "mysql" THEN incident
                     ELSE [incident EXCEPT ![g].state = "EXPIRED"]
      /\ UNCHANGED <<eventKeys, known, actions, task, clock>>
    BY DEF Told, MarkBegin
<1>4. TypeOK'
    <2>1. MarkBegin(g)
        BY DEF Told
    <2> QED BY <1>1, <2>1, NextType DEF Next
<1>5. /\ \A h \in Hosts : incident'[h].history = incident[h].history
      /\ \A h \in Hosts : h # g => incident'[h] = incident[h] /\ marking'[h] = marking[h]
      /\ marking'[g].busy
      /\ marking'[g].copy.history = incident[g].history \/ marking'[g].copy.history = <<>>
    BY <1>1, <1>3 DEF TypeOK, Incident, NewIncident
<1>6. HistoriesEnd'
    <2>1. \A k : Ends(k)' <=> Ends(k)
        BY <1>2 DEF Ends
    <2>2. \A h \in Hosts : Ends(incident'[h].history) /\ Ends(marking'[h].copy.history)
        BY <1>1, <1>5, NothingRuns DEF HistoriesEnd
    <2> QED BY <1>1, <1>3, <2>1, <2>2 DEF HistoriesEnd
<1>7. OpenKnown'
    BY <1>1, <1>3 DEF OpenKnown
<1>8. HandlersTyped' /\ DictionaryTyped' /\ RulesTyped'
    BY <1>1, <1>2 DEF LoopTyped, HandlersTyped, DictionaryTyped, RulesTyped
<1>9. MailTyped'
    BY <1>1, <1>2, MailStill DEF LoopTyped, TypeOK
<1>10. LoopTyped'
    BY <1>4, <1>6, <1>7, <1>8, <1>9 DEF LoopTyped
<1>11. ASSUME NEW h \in Hosts \ strayed PROVE Together(h)'
    <2>1. Together(h) /\ MailTyped /\ clock' = clock /\ RuleEnds(h)' = RuleEnds(h)
        BY <1>2, <1>11 DEF LoopInv, LoopTyped, RuleEnds
    <2>2. CASE h # g
        <3>1. Apart(h)
            BY <1>2, <1>3, <1>5, <2>1, <2>2 DEF Apart
        <3> QED BY <2>1, <3>1, Elsewhere
    <2>3. CASE h = g
        <3>1. Unblocking(h) /\ Unblocking(h)'
            BY <1>2, <1>5, <2>3 DEF Unblocking
        <3>2. /\ \A e \in MyEvents(h) : mail[e].step = "none" /\ task[e].pc \notin Open
              /\ \A u \in Handlers : ~(at[u] = "installing" /\ host[u] = h)
            BY <2>1, <3>1, UnblockingOnly
        <3>3. LiftedFirst(h)'
            BY <1>2, <2>1, <2>3 DEF Together, LiftedFirst
        <3> QED BY <1>2, <1>3, <3>1, <3>2, <3>3, WhileUnblocking
    <2> QED BY <2>2, <2>3
<1> QED BY <1>10, <1>11 DEF Kept

\* The notice is lost.
LEMMA LosesNotice ==
    ASSUME LoopInv, NEW g \in Hosts, NoticeLost(g)
    PROVE  LoopTyped' /\ Kept({g})
<1>1. LoopTyped
    BY DEF LoopInv
<1>2. /\ notices' = notices \ {g} /\ Alone
      /\ UNCHANGED <<mitigaciones, rules, at, host, ttl, todo, got, clock>>
    BY DEF NoticeLost, M6!Notify, M6!work, Alone
<1>3. HandlersTyped' /\ DictionaryTyped' /\ RulesTyped'
    BY <1>1, <1>2 DEF LoopTyped, HandlersTyped, DictionaryTyped, RulesTyped
<1>4. LoopTyped'
    BY <1>1, <1>2, <1>3, HandlerMoves
<1>5. ASSUME NEW h \in Hosts \ (strayed \cup {g}) PROVE Together(h)'
    <2>1. Together(h) /\ MailTyped
        BY <1>5 DEF LoopInv, LoopTyped
    <2>2. Apart(h)
        BY <1>2, <1>5 DEF Apart, Alone, m4, RuleEnds
    <2> QED BY <1>2, <2>1, <2>2, Elsewhere
<1> QED BY <1>4, <1>5 DEF Kept

\* The incident is marked: nothing runs any more, and ONOS has nothing.
LEMMA MarksEnd ==
    ASSUME LoopInv, NEW g \in Hosts, MarkEnd(g), UNCHANGED <<m6, mail>>
    PROVE  LoopTyped' /\ Kept({})
<1>1. LoopTyped /\ TypeOK /\ HistoriesEnd /\ OpenKnown /\ clock \in Nat \ {0}
    BY DEF LoopInv, LoopTyped, TypeOK
<1>2. PICK k \in Seq(ActionResult) :
         /\ Ends(k)
         /\ k = IF Persistence = "mysql" THEN marking[g].copy.history ELSE incident[g].history
    BY <1>1 DEF TypeOK, Incident, HistoriesEnd
<1>3. /\ marking[g].busy /\ clock' = clock
      /\ marking' = [marking EXCEPT ![g] = [busy |-> FALSE, copy |-> NewIncident]]
      /\ UNCHANGED <<eventKeys, actions, task>>
    BY DEF MarkEnd
<1>4. /\ \A h \in Hosts : h # g => incident'[h] = incident[h] /\ marking'[h] = marking[h]
      /\ incident'[g].history = LiftAll(k)
      /\ ~marking'[g].busy /\ marking'[g].copy.history = <<>>
    <2>1. PICK r : r = IF Persistence = "mysql"
                       THEN [marking[g].copy EXCEPT !.state = "EXPIRED"] ELSE incident[g]
        OBVIOUS
    <2>2. r.history = k /\ r \in Incident
        <3>1. "EXPIRED" \in IncidentState /\ marking[g].copy \in Incident /\ incident[g] \in Incident
            BY <1>1 DEF IncidentState, TypeOK
        <3> QED BY <1>2, <2>1, <3>1, StateChangeFact
    <2>3. Save(g, [r EXCEPT !.history = LiftAll(k)])
        <3>1. Save(g, [r EXCEPT !.history = LiftAll(r.history)])
            BY <2>1 DEF MarkEnd
        <3> QED BY <2>2, <3>1
    <2>4. [r EXCEPT !.history = LiftAll(k)].history = LiftAll(k)
        BY <2>2 DEF Incident
    <2> QED BY <1>1, <1>3, <2>3, <2>4 DEF Save, TypeOK, NewIncident
<1>5. LiveEnds(LiftAll(k)) = {} /\ Ends(LiftAll(k))
    BY <1>1, <1>2, LiveEndsLifted
<1>6. TypeOK'
    BY <1>1, NextType DEF Next
<1>7. HistoriesEnd'
    <2>1. \A m : Ends(m)' <=> Ends(m)
        BY <1>3 DEF Ends
    <2>2. \A h \in Hosts : Ends(incident'[h].history) /\ Ends(marking'[h].copy.history)
        BY <1>1, <1>4, <1>5, NothingRuns DEF HistoriesEnd
    <2> QED BY <1>1, <1>3, <2>1, <2>2 DEF HistoriesEnd
<1>8. OpenKnown'
    BY <1>1, <1>3 DEF OpenKnown
<1>9. LoopTyped'
    BY <1>1, <1>3, <1>6, <1>7, <1>8, CalmTyped, SameMail
<1>10. /\ UNCHANGED <<at, host, ttl, got, notices, rules, mail, task, clock>>
       /\ \A h \in Hosts : RuleEnds(h)' = RuleEnds(h)
    BY <1>3 DEF m6, RuleEnds
<1>11. ASSUME NEW h \in Hosts \ strayed PROVE Together(h)'
    <2>1. Together(h) /\ MailTyped
        BY <1>11 DEF LoopInv, LoopTyped
    <2>2. CASE h # g
        <3>1. Apart(h)
            BY <1>4, <1>10, <2>2 DEF Apart
        <3> QED BY <1>10, <2>1, <3>1, Elsewhere
    <2>3. CASE h = g
        <3>1. Unblocking(h) /\ RuleEnds(h) = {}
            BY <1>3, <2>1, <2>3 DEF Unblocking, Together, LiftedFirst
        <3>2. /\ \A e \in MyEvents(h) : mail[e].step = "none" /\ task[e].pc \notin Open
              /\ \A u \in Handlers : ~(at[u] = "installing" /\ host[u] = h)
            BY <2>1, <3>1, UnblockingOnly
        <3>3. CASE Unblocking(h)'
            BY <1>10, <3>1, <3>2, <3>3, WhileUnblocking DEF LiftedFirst
        <3>4. CASE ~Unblocking(h)'
            <4>1. Quiet(h)'
                BY <1>10, <3>2, <3>4 DEF Quiet, Requesting, Asking, Open, MyEvents
            <4>2. LiveEnds(incident[h].history)' = {}
                BY <1>4, <1>5, <1>10, <2>3, SameLiveEnds
            <4>3. Agreed(h)'
                BY <1>10, <3>1, <4>2 DEF Agreed, Believed, Enforced, Latest
            <4> QED BY <4>1, <4>3, QuietTogetherAfter
        <3> QED BY <3>3, <3>4
    <2> QED BY <2>2, <2>3
<1> QED BY <1>9, <1>11 DEF Kept

\* The clock goes on, while no flow is installed whose request M6 still works on.
LEMMA Passes ==
    ASSUME LoopInv, Time
    PROVE  LoopTyped' /\ Kept({host[t] : t \in {u \in Handlers : got[u] # {}}})
<1>1. LoopTyped /\ TypeOK /\ HistoriesEnd /\ OpenKnown /\ clock \in Nat \ {0}
    BY DEF LoopInv, LoopTyped, TypeOK
<1>2. /\ clock' = clock + 1 /\ UNCHANGED <<eventKeys, known, incident, actions, task, marking>>
      /\ UNCHANGED <<m6, mail>> /\ Tick
    BY DEF Time, Tick
<1>3. UNCHANGED <<mitigaciones, rules, notices, at, host, ttl, todo, got>>
    BY <1>2 DEF m6
<1>4. clock' \in Nat /\ clock' >= clock
    BY <1>1, <1>2
<1>5. \A k \in Seq(ActionResult) : Ends(k) => /\ LiveEnds(k)' = {n \in LiveEnds(k) : n > clock'}
                                              /\ Ends(k)'
    BY <1>1, <1>4, LiveEndsLater
<1>6. /\ \A h \in Hosts : /\ incident[h].history \in Seq(ActionResult)
                          /\ marking[h].copy.history \in Seq(ActionResult)
      /\ \A e \in Events : task[e].copy.history \in Seq(ActionResult)
    BY <1>1 DEF TypeOK, Incident, Task
<1>7. TypeOK'
    BY <1>1, <1>2, NextType DEF Next
<1>8. HistoriesEnd'
    BY <1>1, <1>2, <1>5, <1>6 DEF HistoriesEnd
<1>9. OpenKnown' /\ HandlersTyped' /\ DictionaryTyped'
    BY <1>1, <1>2, <1>3 DEF LoopTyped, OpenKnown, HandlersTyped, DictionaryTyped
<1>10. RulesTyped'
    BY <1>1, <1>2, <1>3, LongestFact DEF LoopTyped, RulesTyped
<1>11. MailTyped'
    BY <1>1, <1>2, <1>3, <1>4, MailStill DEF LoopTyped
<1>12. LoopTyped'
    BY <1>7, <1>8, <1>9, <1>10, <1>11 DEF LoopTyped
<1>13. ASSUME NEW h \in Hosts \ strayed, \A t \in Handlers : got[t] # {} => host[t] # h
       PROVE  Together(h)'
    <2>1. Together(h) /\ MailTyped
        BY <1>1, <1>13 DEF LoopInv, LoopTyped
    <2>2. PICK L \in SUBSET Nat : /\ L = LiveEnds(incident[h].history)
                                  /\ \A n \in L : n <= clock + Longest
        BY <1>1, <1>6, LiveEndsFact DEF HistoriesEnd
    <2>3. LiveEnds(incident[h].history)' = {n \in L : n > clock'}
        BY <1>1, <1>2, <1>5, <1>6, <2>2 DEF HistoriesEnd
    <2>4. PICK R \in SUBSET Nat : R = RuleEnds(h) /\ \A n \in R : n <= clock + Longest
        BY <1>1, RuleEndsFact DEF LoopTyped
    <2>5. RuleEnds(h)' = {n \in R : n > clock'}
        <3>1. \A r \in rules : r.until \in Nat
            BY <1>1 DEF LoopTyped, RulesTyped
        <3>2. \A r \in rules : r.until > clock' => r.until > clock
            BY <1>1, <1>4, <3>1
        <3> QED BY <1>3, <2>4, <3>2 DEF RuleEnds
    <2>6. /\ MyEvents(h)' = MyEvents(h) /\ \A e \in MyEvents(h) : e \in Events /\ HostOf[e] = h
          /\ (Requesting(h)' <=> Requesting(h)) /\ (Unblocking(h)' <=> Unblocking(h))
        BY <1>2, <1>3 DEF MyEvents, Requesting, Asking, Unblocking
    <2>7. AskedOnce(h)' /\ ~(Requesting(h) /\ Unblocking(h))'
        BY <1>2, <1>3, <2>1, <2>6 DEF Together, AskedOnce
    <2>8. CopiesHold(h)'
        <3>1. \A e \in MyEvents(h) : Held(e)' = Held(e)
            BY <1>2 DEF Held
        <3>2. \A e \in MyEvents(h) : LiveEnds(Held(e).history)' =
                                        {n \in LiveEnds(Held(e).history) : n > clock'}
            BY <1>1, <1>5, <2>6, <3>1, HeldEnds
        <3> QED BY <1>2, <2>1, <2>2, <2>3, <2>6, <3>2 DEF Together, CopiesHold
    <2>9. LiftedFirst(h)'
        BY <1>2, <1>3, <2>1, <2>4, <2>5 DEF Together, LiftedFirst
    <2>10. \A u, w \in Nat : RunsTo(h, u) /\ u <= w => RunsTo(h, w)'
        BY <2>2, <2>3 DEF RunsTo
    <2>11. ASSUME NEW e \in MyEvents(h) PROVE Due(h, e)'
        <3>1. Due(h, e) /\ e \in Events /\ mail[e] \in Mail /\ mail[e].act # "MIRROR"
            BY <1>1, <2>1, <2>6 DEF Together, LoopTyped, MailTyped
        <3>2. mail[e].act \in Actionable /\ mail[e].until \in Nat
            BY <3>1 DEF Mail
        <3>3. mail[e].step = "sent" => RunsTo(h, clock + Ttl[mail[e].act])'
            <4>1. Ttl[mail[e].act] \in Nat
                BY <3>1, <3>2, LongestFact
            <4>2. /\ clock + Ttl[mail[e].act] \in Nat /\ clock' + Ttl[mail[e].act] \in Nat
                  /\ clock + Ttl[mail[e].act] <= clock' + Ttl[mail[e].act]
                BY <1>1, <1>2, <4>1
            <4>3. mail[e].step = "sent" => RunsTo(h, clock + Ttl[mail[e].act])
                BY <3>1 DEF Due
            <4>4. ASSUME mail[e].step = "sent"
                  PROVE  \A n \in {k \in L : k > clock'} : n <= clock' + Ttl[mail[e].act]
                BY <2>2, <4>2, <4>3, <4>4 DEF RunsTo
            <4> QED BY <1>2, <2>3, <4>4 DEF RunsTo
        <3>4. ASSUME mail[e].step = "taken"
              PROVE  /\ ttl[mail[e].by] > 0 /\ got[mail[e].by] = {}
                     /\ RunsTo(h, clock + ttl[mail[e].by])'
            <4>1. mail[e].by \in Handlers /\ host[mail[e].by] = h /\ ttl[mail[e].by] \in Nat
                BY <1>1, <2>6, <3>1, <3>4 DEF LoopTyped, MailTyped, HandlersTyped
            <4>2. ttl[mail[e].by] > 0 /\ RunsTo(h, clock + ttl[mail[e].by])
                BY <3>1, <3>4 DEF Due
            <4>3. \A n \in {k \in L : k > clock'} : n <= clock' + ttl[mail[e].by]
                BY <1>1, <1>2, <2>2, <4>1, <4>2 DEF RunsTo
            <4> QED BY <1>2, <1>3, <1>13, <2>3, <4>1, <4>2, <4>3 DEF RunsTo
        <3>5. ASSUME mail[e].step = "answered", mail[e].until # 0
              PROVE  /\ RunsTo(h, mail[e].until)'
                     /\ RuleEnds(h)' = {n \in {mail[e].until} : n > clock'}
            <4>1. RunsTo(h, mail[e].until) /\ R = {n \in {mail[e].until} : n > clock}
                BY <2>4, <3>1, <3>5 DEF Due
            <4>2. RuleEnds(h)' = {n \in {mail[e].until} : n > clock'}
                BY <1>1, <1>4, <2>5, <3>2, <4>1
            <4>3. \A n \in {k \in L : k > clock'} : n <= mail[e].until
                BY <2>2, <4>1 DEF RunsTo
            <4> QED BY <1>2, <2>3, <4>2, <4>3 DEF RunsTo
        <3> QED BY <1>2, <1>3, <3>3, <3>4, <3>5 DEF Due
    <2>12. \A e \in MyEvents(h) : Pending(e)' <=> Pending(e)
        BY <1>2, <1>3 DEF Pending
    <2>13. Agreed(h) => Agreed(h)'
        <3>1. ASSUME Agreed(h) PROVE Latest({n \in L : n > clock'}) = Latest({n \in R : n > clock'})
            <4>1. Latest(L) = Latest(R) /\ clock + Longest \in Nat /\ \A n \in L \cup R : n <= clock + Longest
                BY <1>1, <2>2, <2>4, <3>1, LongestFact DEF Agreed, Believed, Enforced
            <4> QED BY <1>4, <4>1, LatestLater
        <3> QED BY <2>3, <2>5, <3>1 DEF Agreed, Believed, Enforced, Latest
    <2> QED BY <2>1, <2>6, <2>7, <2>8, <2>9, <2>11, <2>12, <2>13 DEF Together
<1>14. ASSUME NEW h \in Hosts \ (strayed \cup {host[t] : t \in {u \in Handlers : got[u] # {}}})
       PROVE  Together(h)'
    BY <1>13, <1>14
<1> QED BY <1>12, <1>14 DEF Kept

-----------------------------------------------------------------------------
LEMMA LoopInitHolds == LoopInit => LoopInv
<1> SUFFICES ASSUME LoopInit PROVE LoopInv
    OBVIOUS
<1>1. TypeOK
    BY InitType DEF LoopInit
<1>2. HistoriesEnd
    BY NothingRuns DEF LoopInit, Init, HistoriesEnd, NewIncident, IdleTask
<1>3. OpenKnown
    BY DEF LoopInit, Init, OpenKnown, IdleTask, Open
<1>4. HandlersTyped /\ DictionaryTyped /\ RulesTyped
    BY LongestFact DEF LoopInit, M6!Empty, HandlersTyped, DictionaryTyped, RulesTyped
<1>5. MailTyped
    <2>1. clock = 1 /\ mail = [e \in Events |-> NoMail] /\ NoMail \in Mail
        BY NoMailFact DEF LoopInit, Init
    <2>2. NoMail.act = "BLOCK" /\ NoMail.until = 0 /\ NoMail.step = "none"
        BY DEF NoMail
    <2> QED BY <2>1, <2>2, LongestFact DEF MailTyped
<1>6. ASSUME NEW h \in Hosts PROVE Together(h)
    <2>1. incident[h].history = <<>> /\ rules = {}
        BY DEF LoopInit, Init, M6!Empty, NewIncident
    <2>2. LiveEnds(incident[h].history) = {} /\ RuleEnds(h) = {}
        BY <2>1, NothingRuns DEF RuleEnds
    <2>3. Agreed(h)
        BY <2>2 DEF Agreed, Believed, Enforced
    <2>4. Quiet(h)
        BY NoMailFact DEF LoopInit, Init, M6!Empty, Quiet, Requesting, Asking, Unblocking, IdleTask, MyEvents
    <2> QED BY <2>3, <2>4, QuietTogether
<1> QED BY <1>1, <1>2, <1>3, <1>4, <1>5, <1>6 DEF LoopInv, LoopTyped

LEMMA LoopStep ==
    ASSUME LoopInv, [LoopNext]_loopVars
    PROVE  LoopInv'
<1>1. ASSUME NEW S, Stray(S), LoopTyped', Kept(S)
      PROVE  LoopInv'
    BY <1>1, StrayKeeps DEF LoopInv
<1>2. ASSUME NEW e \in Events, NEW act \in Decision, Send(e, act) \/ Simulate(e, act)
      PROVE  LoopInv'
    BY <1>1, <1>2, Sends, Simulates DEF Send, Simulate
<1>3. ASSUME NEW e \in Events, NEW t \in Handlers, Accept(t, e)
      PROVE  LoopInv'
    BY <1>1, <1>3, Accepts DEF Accept
<1>4. ASSUME NEW e \in Events, Refuse(e) \/ Answered(e) \/ GiveUp(e)
      PROVE  LoopInv'
    BY <1>1, <1>4, Refuses, IsAnswered, GivesUp DEF Refuse, Answered, GiveUp
<1>5. ASSUME NEW t \in Handlers, Answer(t)
      PROVE  LoopInv'
    BY <1>1, <1>5, Answering DEF Answer
<1>6. ASSUME NEW t \in Handlers, InstalledUnknown(t)
      PROVE  LoopInv'
    <2>1. M6!InstallFails(t) /\ Alone /\ Stray({host[t]})
        BY <1>6 DEF InstalledUnknown, M6!InstallFails, Alone
    <2> QED BY <1>1, <2>1, InstallsUnknown
<1>7. ASSUME NEW t \in Handlers, Unblocked(t)
      PROVE  LoopInv'
    <2>1. M6!Mark(t) /\ Alone /\ Stray({h \in {host[t]} : Enforced(h) # 0})
        BY <1>7 DEF Unblocked, M6!Mark, Alone
    <2> QED BY <1>1, <2>1, Marks
<1>8. ASSUME NEW h \in Hosts, Told(h) \/ NoticeLost(h)
      PROVE  LoopInv'
    BY <1>1, <1>8, Tells, LosesNotice DEF Told, NoticeLost
<1>9. CASE Stop
    BY <1>1, <1>9, Stops DEF Stop
<1>10. CASE M4Alone
    <2>1. UNCHANGED <<m6, mail>> /\ Stray({})
        BY <1>10 DEF M4Alone
    <2>2. ASSUME NEW e \in Events, Receive(e) PROVE LoopInv'
        BY <1>1, <2>1, <2>2, Receives
    <2>3. ASSUME NEW e \in Events, NEW act \in Decision, DecideOnly(e, act) PROVE LoopInv'
        BY <1>1, <2>1, <2>3, DecidesAlone
    <2>4. ASSUME NEW h \in Hosts, MarkEnd(h) PROVE LoopInv'
        BY <1>1, <2>1, <2>4, MarksEnd
    <2> QED BY <1>10, <2>2, <2>3, <2>4 DEF M4Alone
<1>11. CASE M6Alone
    <2>1. Stray({}) /\ UNCHANGED <<m4, mail>>
        BY <1>11 DEF M6Alone
    <2>2. ASSUME NEW t \in Handlers, M6!Install(t) PROVE LoopInv'
        BY <1>1, <2>1, <2>2, Installs DEF Alone, M6!Install
    <2>3. ASSUME NEW t \in Handlers, M6!Delete(t) PROVE LoopInv'
        BY <1>1, <2>1, <2>3, Deletes DEF Alone, M6!Delete
    <2>4. ASSUME NEW t \in Handlers, M6!DeleteFails(t) PROVE LoopInv'
        BY <1>1, <2>1, <2>4, Deletes DEF Alone, M6!DeleteFails
    <2>5. ASSUME NEW t \in Handlers, M6!InstallFails(t), rules' = rules PROVE LoopInv'
        BY <1>1, <2>1, <2>5, InstallFailsQuietly DEF Alone, M6!InstallFails
    <2>6. ASSUME NEW t \in Handlers, NEW h \in Hosts, M6!Undo(t, h) PROVE LoopInv'
        BY <1>1, <2>1, <2>6, Undoes DEF Alone, M6!Undo
    <2>7. ASSUME M6!RuleTimesOut PROVE LoopInv'
        BY <1>1, <2>1, <2>7, TimesOut DEF Alone, M6!RuleTimesOut
    <2> QED BY <1>11, <2>2, <2>3, <2>4, <2>5, <2>6, <2>7 DEF M6Alone
<1>12. CASE Time
    BY <1>1, <1>12, Passes DEF Time
<1>13. CASE StopM6
    BY <1>1, <1>13, StopsM6 DEF StopM6
<1>14. CASE UNCHANGED loopVars
    <2>1. UNCHANGED <<m4, m6, clock, mail, strayed>>
        BY <1>14 DEF loopVars
    <2>2. LoopTyped /\ UNCHANGED m6 /\ UNCHANGED mail
        BY <2>1 DEF LoopInv
    <2>3. LoopTyped'
        BY <2>1, <2>2, M4Still, CalmTyped, SameMail DEF LoopTyped
    <2>4. ASSUME NEW h \in Hosts \ strayed PROVE Together(h)'
        <3>1. Apart(h)
            BY <2>1 DEF Apart, m4, m6, RuleEnds
        <3> QED BY <2>1, <2>4, <3>1, Elsewhere DEF LoopInv, LoopTyped
    <2> QED BY <2>1, <2>3, <2>4 DEF LoopInv
<1> QED BY <1>2, <1>3, <1>4, <1>5, <1>6, <1>7, <1>8, <1>9, <1>10, <1>11, <1>12, <1>13, <1>14
    DEF LoopNext

\* When nothing is under way for a host, M4 (the history in incident_manager.py:124) and ONOS agree
\* until when it is blocked, unless one of the things that the code does not make good has
\* happened to it since they last agreed: M6Client.execute gave up (m6_client.py:82), M4
\* stopped, M6's one notice was lost (m6_traductor.py:2716), a flow was left that the record
\* does not name (4640), two requests or a request and an unblocking overlapped, and so on
\* (see Stray).
THEOREM BlockAgreedHolds == LoopSpec => []BlockAgreed
<1>1. LoopInv => BlockAgreed
    <2> SUFFICES ASSUME LoopInv, NEW h \in Hosts, Quiet(h), h \notin strayed
                 PROVE  Agreed(h)
        BY DEF BlockAgreed
    <2>1. Together(h)
        BY DEF LoopInv
    <2>2. \A e \in MyEvents(h) : ~Pending(e)
        BY DEF Quiet, Requesting, Asking, Pending
    <2> QED BY <2>1, <2>2 DEF Together, Quiet
<1>2. LoopInv /\ [LoopNext]_loopVars => LoopInv'
    BY LoopStep
<1> QED BY <1>1, <1>2, LoopInitHolds, PTL DEF LoopSpec

-----------------------------------------------------------------------------
(***************************************************************************)
(* What holds of M6 alone holds of it here                                 *)
(***************************************************************************)
\* Every step of the two is one of M6, or leaves M6 as it is.
LEMMA LoopStepOfM6 ==
    ASSUME LoopInv, [LoopNext]_loopVars
    PROVE  [M6!Next]_(M6!vars)
<1> USE DEF M6!vars, M6!work, m6
<1>1. ASSUME NEW e \in Events, NEW act \in Decision, Send(e, act) PROVE UNCHANGED M6!vars
    BY <1>1 DEF Send, DecideCall
<1>2. ASSUME NEW e \in Events, NEW act \in Decision, Simulate(e, act)
      PROVE  UNCHANGED M6!vars
    BY <1>2 DEF Simulate, DecideSimulated
<1>3. ASSUME NEW e \in Events, NEW t \in Handlers, Accept(t, e) PROVE M6!Next
    <2>1. mail[e].act \in DOMAIN Ttl /\ HostOf[e] \in Hosts
        BY ConstantsAssumption DEF LoopInv, LoopTyped, MailTyped, Mail, Actionable
    <2>2. /\ Ttl[mail[e].act] \in {Ttl[a] : a \in DOMAIN Ttl}
          /\ {HostOf[e]} \in [h \in Hosts |-> {{h}}][HostOf[e]]
        BY <2>1
    <2> QED BY <1>3, <2>1, <2>2 DEF Accept, M6!Next
<1>4. ASSUME NEW e \in Events, Refuse(e) PROVE UNCHANGED M6!vars
    BY <1>4 DEF Refuse
<1>5. ASSUME NEW e \in Events, Answered(e) PROVE UNCHANGED M6!vars
    BY <1>5 DEF Answered, Record
<1>6. ASSUME NEW e \in Events, GiveUp(e) PROVE UNCHANGED M6!vars
    BY <1>6 DEF GiveUp, Record
<1>7. ASSUME NEW t \in Handlers, Answer(t) \/ InstalledUnknown(t) \/ Unblocked(t)
      PROVE  M6!Next
    BY <1>7 DEF Answer, InstalledUnknown, Unblocked, M6!Next, M6!Step
<1>8. ASSUME NEW h \in Hosts, Told(h) \/ NoticeLost(h) PROVE M6!Next
    BY <1>8 DEF Told, NoticeLost, M6!Next
<1>9. CASE Stop
    BY <1>9 DEF Stop, Restart
<1>10. CASE M4Alone
    BY <1>10 DEF M4Alone, Receive, DecideOnly, MarkEnd
<1>11. CASE M6Alone
    BY <1>11 DEF M6Alone, M6!Next, M6!Step
<1>12. CASE Time
    BY <1>12 DEF Time, Tick, M6!Next, M6!Tick
<1>13. CASE StopM6
    BY <1>13 DEF StopM6, M6!Next
<1>14. CASE UNCHANGED loopVars
    BY <1>14 DEF loopVars
<1> QED BY <1>1, <1>2, <1>3, <1>4, <1>5, <1>6, <1>7, <1>8, <1>9, <1>10, <1>11, <1>12, <1>13,
           <1>14 DEF LoopNext

\* The theorems about Mitigations, for M6 here.
M6Proofs == INSTANCE MitigationsProofs WITH
    Threads <- Handlers, Incidents <- Hosts, Flows <- Hosts,
    Requests <- [h \in Hosts |-> {{h}}], Ttls <- {Ttl[a] : a \in DOMAIN Ttl},
    pc <- at, incident <- host

\* BlockLoop implements Mitigations: with M4 at the other end of its endpoints
\* (m6_traductor.py:5148-5175) M6 does only what Mitigations allows it alone, from the empty
\* dictionaries on.  (The clock the two share starts at 1, M4's, instead of 0.)
THEOREM LoopRunsM6 == LoopSpec => M6!Empty /\ [][M6!Next]_(M6!vars)
<1>1. LoopInit => M6!Empty
    BY DEF LoopInit
<1>2. LoopInv /\ [LoopNext]_loopVars => [M6!Next]_(M6!vars)
    BY LoopStepOfM6
<1>3. LoopInv /\ [LoopNext]_loopVars => LoopInv'
    BY LoopStep
<1> QED BY <1>1, <1>2, <1>3, LoopInitHolds, PTL DEF LoopSpec

\* The theorems about Mitigations speak of these steps.
LEMMA SameM6 == [M6!Next]_(M6!vars) => [M6Proofs!Next]_(M6Proofs!vars)
BY DEF M6!Next, M6Proofs!Next, M6!Step, M6Proofs!Step, M6!Install, M6Proofs!Install,
      M6!InstallFails, M6Proofs!InstallFails, M6!Store, M6Proofs!Store, M6!Delete, M6Proofs!Delete,
      M6!DeleteFails, M6Proofs!DeleteFails, M6!Mark, M6Proofs!Mark, M6!Undo, M6Proofs!Undo,
      M6!Mitigate, M6Proofs!Mitigate, M6!Notify, M6Proofs!Notify, M6!RuleTimesOut, M6Proofs!RuleTimesOut,
      M6!Tick, M6Proofs!Tick, M6!vars, M6Proofs!vars, M6!work, M6Proofs!work,
      M6!Put, M6Proofs!Put, M6!Entry, M6Proofs!Entry, M6!Marked, M6Proofs!Marked,
      M6!Closed, M6Proofs!Closed, M6!Dropped, M6Proofs!Dropped, M6!Restart, M6Proofs!Restart

\* So what Mitigations proves of M6 holds of it with M4: no DROP is in ONOS that M6 does not
\* list and could not undo (m6_traductor.py:4634-4659, 4744-4763), unless a handler is at
\* work on it, ONOS has failed a call for it, or M6 has forgotten the flow and not asked for
\* it since (it was restarted: M4's requests about a host all ask for the same flow),
\* whatever M4 gives up, repeats or forgets.
THEOREM LoopNoHiddenDrop == LoopSpec => []M6!NoHiddenDrop
<1>2. LoopInit => M6Proofs!IInv
    <2> SUFFICES ASSUME LoopInit PROVE M6Proofs!IInv
        OBVIOUS
    <2>1. M6!Empty /\ clock = 1
        BY DEF LoopInit, Init
    <2> QED BY <2>1 DEF M6!Empty, M6Proofs!IInv, M6Proofs!TypeOK,
          M6Proofs!UndoCovers, M6Proofs!Accounted
<1>0. M6Proofs!ConstantsAssumption
    BY ConstantsAssumption, LoopConstants DEF M6Proofs!ConstantsAssumption
<1>3. M6Proofs!IInv /\ [M6!Next]_(M6!vars) => M6Proofs!IInv'
    BY <1>0, M6Proofs!IInvStep, SameM6
<1>4. M6Proofs!IInv => M6!NoHiddenDrop
    BY <1>0, M6Proofs!IInvImplies DEF M6Proofs!NoHiddenDrop, M6!NoHiddenDrop, M6Proofs!AtWork, M6!AtWork
<1>5. LoopInv /\ [LoopNext]_loopVars => LoopInv' /\ [M6!Next]_(M6!vars)
    BY LoopStep, LoopStepOfM6
<1> QED BY <1>2, <1>3, <1>4, <1>5, LoopInitHolds, PTL DEF LoopSpec

-----------------------------------------------------------------------------
(***************************************************************************)
(* What holds of M4 alone, one event after the other, holds of it here     *)
(***************************************************************************)
\* Every step of the two is one of M4 or leaves M4 as it is, but for the end of the block,
\* which M4 takes from the answer (m6_client.py:90-104): no step depends on it here.
LEMMA LoopSerialStep ==
    ASSUME MaxInFlight = 1, LoopInv, SerialInv, [LoopNext]_loopVars
    PROVE  SerialInv'
<1>0. LoopInv' /\ TypeOK'
    BY LoopStep DEF LoopInv, LoopTyped
<1>s. [Next]_vars => SerialInv'
    BY SerialStep
<1> USE DEF vars, m4
<1>1. ASSUME NEW e \in Events, NEW act \in Decision, Send(e, act) PROVE SerialInv'
    BY <1>s, <1>1 DEF Send, Next, Decide
<1>2. ASSUME NEW e \in Events, NEW act \in Decision, Simulate(e, act) PROVE SerialInv'
    BY <1>s, <1>2 DEF Simulate, Next, Decide
<1>3. ASSUME NEW e \in Events, NEW t \in Handlers, Accept(t, e) PROVE SerialInv'
    <2>1. UNCHANGED vars
        BY <1>3 DEF Accept, M6!Mitigate
    <2> QED BY <1>s, <2>1
<1>4. ASSUME NEW e \in Events, Refuse(e) PROVE SerialInv'
    BY <1>s, <1>4 DEF Refuse
<1>5. ASSUME NEW e \in Events, Answered(e) PROVE SerialInv'
    <2>1. mail[e].until \in Nat /\ TypeOK
        BY DEF LoopInv, LoopTyped, MailTyped, Mail
    <2>2. PICK result : /\ result = IF mail[e].until = 0 THEN AnswerFailed(e)
                                    ELSE [AnswerExecuted(e) EXCEPT !.until = mail[e].until]
                        /\ Record(e, result)
        BY <1>5 DEF Answered
    <2>3. task[e].act \in Actionable
        BY <2>1, <2>2 DEF Record, TypeOK, InFlight
    <2>4. result \in ActionResult /\ result.act = task[e].act
        BY <2>1, <2>2, <2>3 DEF AnswerFailed, AnswerExecuted, ActionResult, Never
    <2> QED BY <1>0, <2>2, <2>4, SerialRecord
<1>6. ASSUME NEW e \in Events, GiveUp(e) PROVE SerialInv'
    <2>1. task[e].act \in Actionable /\ Record(e, AnswerFailed(e))
        BY <1>6 DEF GiveUp, Record, SerialInv, TypeOK, InFlight
    <2>2. AnswerFailed(e) \in ActionResult /\ AnswerFailed(e).act = task[e].act
        BY <2>1 DEF AnswerFailed, ActionResult, Never
    <2> QED BY <1>0, <2>1, <2>2, SerialRecord
<1>7. ASSUME NEW t \in Handlers, Answer(t) \/ InstalledUnknown(t) \/ Unblocked(t)
      PROVE  SerialInv'
    <2>1. UNCHANGED vars
        BY <1>7 DEF Answer, M6!Store, InstalledUnknown, M6!InstallFails, Unblocked, M6!Mark
    <2> QED BY <1>s, <2>1
<1>8. ASSUME NEW h \in Hosts, Told(h) PROVE SerialInv'
    BY <1>s, <1>8 DEF Told, Next
<1>9. ASSUME NEW h \in Hosts, NoticeLost(h) PROVE SerialInv'
    BY <1>s, <1>9 DEF NoticeLost, M6!Notify
<1>10. CASE Stop \/ StopM6
    BY <1>s, <1>10 DEF Stop, Next, StopM6, M6!Restart
<1>11. CASE M4Alone
    BY <1>s, <1>11 DEF M4Alone, Next, Decide
<1>12. CASE M6Alone
    <2>1. UNCHANGED vars
        BY <1>12 DEF M6Alone, M6!Install, M6!Delete, M6!DeleteFails, M6!InstallFails, M6!Undo,
                     M6!RuleTimesOut
    <2> QED BY <1>s, <2>1
<1>13. CASE Time
    BY <1>s, <1>13 DEF Time, Next
<1>14. CASE UNCHANGED loopVars
    BY <1>s, <1>14 DEF loopVars
<1> QED BY <1>1, <1>2, <1>3, <1>4, <1>5, <1>6, <1>7, <1>8, <1>9, <1>10, <1>11, <1>12,
           <1>13, <1>14 DEF LoopNext

\* One running action of a kind, with M6's answers, late or lost, and its notices: the end
\* that M6 gives a block (m6_client.py:90-104) is as good as M4's own.
THEOREM LoopOneLive ==
    ASSUME MaxInFlight = 1
    PROVE  LoopSpec => []OneLivePerKind
<1>1. LoopInit => SerialInv
    <2> SUFFICES ASSUME LoopInit PROVE SerialInv
        OBVIOUS
    <2>1. NewIncident.history = <<>> /\ IdleTask.copy = NewIncident /\ IdleTask.pc = "idle"
          /\ NewestOnly(NewIncident.history)
        BY DEF NewIncident, IdleTask, NewestOnly
    <2> QED BY <2>1, InitType DEF LoopInit, Init, SerialInv, Open
<1>2. LoopInv /\ SerialInv /\ [LoopNext]_loopVars => LoopInv' /\ SerialInv'
    BY LoopStep, LoopSerialStep
<1> QED BY <1>1, <1>2, SerialOne, LoopInitHolds, PTL DEF LoopSpec

=============================================================================
