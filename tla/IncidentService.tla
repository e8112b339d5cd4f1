--------------------------- MODULE IncidentService ---------------------------
(***************************************************************************)
(* M4, the security correlator: what SecurityService.process and           *)
(* mark_incident_expired do to the incident of a host.                     *)
(*                                                                         *)
(* One event is one call of process().  The call runs on the event loop    *)
(* and is cut in two by its only await, the request to M6 or to the        *)
(* Telemetry Manager; the expire handler is a plain function and runs in a *)
(* thread of its own, beside the loop.  Which action the risk engine       *)
(* recommends depends on the evidence in the window; any of the five       *)
(* actions it can recommend is allowed for any event here.                 *)
(***************************************************************************)
EXTENDS Naturals, Sequences, FiniteSets

CONSTANTS
    Events,         \* the events posted to M4, one idempotency key each
    Hosts,          \* the identity keys, one incident each
    HostOf,         \* identity_key() of each event
    Persistence,    \* "memory" (objects shared by all callers) or "mysql" (copies)
    Enabled,        \* the actions whose switches are on; the others are simulated
    Ttl,            \* lifetime of a block, by action
    HistoryCap,     \* entries kept in action_history (50 in the code)
    MaxInFlight,    \* bound: requests of event sources that overlap
    MaxTime         \* bound: the clock stops here

Decision  == {"LOG", "WATCH", "MIRROR", "TEMP_BLOCK", "BLOCK"}
Actionable == {"MIRROR", "TEMP_BLOCK", "BLOCK"}
ActiveStates == {"MIRRORING", "CONTAINED", "BLOCKED"}
IncidentState == ActiveStates \cup
                 {"NEW", "WATCHING", "MITIGATING", "EXPIRED", "REOPENED"}

\* A mirror has no expires_at and never lapses by itself: 0 stands for None.
Never == 0

ASSUME ConstantsAssumption ==
    /\ HostOf \in [Events -> Hosts]
    /\ Persistence \in {"memory", "mysql"}
    /\ Enabled \subseteq Actionable
    /\ Ttl \in [{"TEMP_BLOCK", "BLOCK"} -> Nat \ {0}]
    /\ HistoryCap \in Nat \ {0}
    /\ MaxInFlight \in Nat
    /\ MaxTime \in Nat

\* Mutated form: a state name that is not one.
StateByActionMisnamed ==
    [LOG |-> "NEW", WATCH |-> "WATCHING", MIRROR |-> "MIRROR",
     TEMP_BLOCK |-> "CONTAINED", BLOCK |-> "BLOCKED"]

StateByAction ==
    [LOG |-> "NEW", WATCH |-> "WATCHING", MIRROR |-> "MIRRORING",
     TEMP_BLOCK |-> "CONTAINED", BLOCK |-> "BLOCKED"]

\* An entry of action_history; until is its expires_at.
ActionResult ==
    [ev : Events, act : Actionable, until : Nat,
     status : {"EXECUTED", "FAILED", "SIMULATED"}]

Incident ==
    [state : IncidentState, rec : Decision, history : Seq(ActionResult)]

\* SecurityIncident() before its first update: refresh_expiration_state has
\* nothing to do in state NEW, so a missing incident and this one update alike.
NewIncident == [state |-> "NEW", rec |-> "LOG", history |-> <<>>]

Task == [pc : {"idle", "deciding", "calling", "done", "raised", "lost"},
         act : Decision, copy : Incident]

IdleTask == [pc |-> "idle", act |-> "LOG", copy |-> NewIncident]

VARIABLES
    eventKeys,      \* idempotency keys the repository has recorded
    known,          \* hosts with a saved incident
    incident,       \* the saved incident of each host
    actions,        \* the ActionResults saved on their own (save_action)
    task,           \* the call of process() made for each event
    marking,        \* the expire handler's thread, per host
    clock

vars == <<eventKeys, known, incident, actions, task, marking, clock>>

-----------------------------------------------------------------------------
(***************************************************************************)
(* IncidentManager                                                         *)
(***************************************************************************)
Live(item) ==
    item.status = "EXECUTED" /\ (item.until = Never \/ item.until > clock)

\* Mutated form of HasActiveAction: expiry is never looked at.
HasEverRun(r, act) ==
    \E i \in DOMAIN r.history :
        r.history[i].act = act /\ r.history[i].status = "EXECUTED"

\* has_active_action: the newest EXECUTED entry of the action decides.
HasActiveAction(r, act) ==
    \E i \in DOMAIN r.history :
        /\ r.history[i].act = act
        /\ Live(r.history[i])
        /\ \A j \in 1..(i - 1) :
              ~(r.history[j].act = act /\ r.history[j].status = "EXECUTED")

RefreshedState(r) ==
    IF r.state \in ActiveStates /\ ~HasActiveAction(r, r.rec)
    THEN "EXPIRED" ELSE r.state

UpdatedState(r, act) ==
    IF act \notin Actionable THEN StateByAction[act]
    ELSE IF RefreshedState(r) = "EXPIRED" THEN "REOPENED"
    ELSE RefreshedState(r)

Update(r, act) == [r EXCEPT !.state = UpdatedState(r, act), !.rec = act]

\* Mutated form: the running action is not looked for.
ShouldExecuteAlways(r, act) == act \in Actionable

ShouldExecute(r, act) == act \in Actionable /\ ~HasActiveAction(r, act)

\* [result] + action_history[:49]
Prepend(item, history) ==
    [i \in 1..(IF Len(history) < HistoryCap THEN Len(history) + 1
                                            ELSE HistoryCap) |->
        IF i = 1 THEN item ELSE history[i - 1]]

\* Mutated forms: only the newest entry is closed; expires_at is cleared.
LiftNewestOnly(history) ==
    [i \in 1..Len(history) |->
        IF i = 1 /\ history[i].status = "EXECUTED"
        THEN [history[i] EXCEPT !.until = clock] ELSE history[i]]

LiftClears(history) ==
    [i \in 1..Len(history) |->
        IF history[i].status = "EXECUTED"
        THEN [history[i] EXCEPT !.until = Never] ELSE history[i]]

\* mark_expired writes expires_at = now on every EXECUTED entry.  The clock
\* starts at 1, so that now is never mistaken for None.
LiftAll(history) ==
    [i \in 1..Len(history) |->
        IF history[i].status = "EXECUTED"
        THEN [history[i] EXCEPT !.until = clock] ELSE history[i]]

-----------------------------------------------------------------------------
(***************************************************************************)
(* SecurityService.process                                                 *)
(***************************************************************************)
InFlight == {e \in Events : task[e].pc = "calling"}

\* The event loop runs one handler at a time between awaits.
LoopFree == \A e \in Events : task[e].pc # "deciding"

\* The object a call works on: its own copy with MySQL, the shared one in memory.
Held(e) == IF Persistence = "mysql" THEN task[e].copy ELSE incident[HostOf[e]]

Save(h, r) ==
    /\ incident' = [incident EXCEPT ![h] = r]
    /\ known' = known \cup {h}

\* add_event succeeds (a known key is answered "duplicate" and changes
\* nothing), the event joins the window, the incident is read.
Receive(e) ==
    /\ LoopFree
    /\ e \notin eventKeys
    /\ Cardinality(InFlight) < MaxInFlight
    /\ eventKeys' = eventKeys \cup {e}
    /\ task' = [task EXCEPT ![e] =
                  [pc |-> "deciding", act |-> "LOG",
                   copy |-> IF Persistence = "mysql" THEN incident[HostOf[e]]
                                                     ELSE NewIncident]]
    /\ UNCHANGED <<known, incident, actions, marking, clock>>

\* The answer an action gets when its switches are off, without leaving the loop.
Simulated(e, act) ==
    [ev |-> e, act |-> act, status |-> "SIMULATED",
     until |-> IF act = "MIRROR" THEN Never ELSE clock + Ttl[act]]

\* Mutated forms: the state ignores the status; a failure leaves the state.
SettledWhateverStatus(r, result) ==
    [r EXCEPT !.history = Prepend(result, r.history),
              !.state = StateByAction[result.act]]

SettledOnSuccess(r, result) ==
    [r EXCEPT !.history = Prepend(result, r.history),
              !.state = IF result.status = "EXECUTED"
                        THEN StateByAction[result.act] ELSE r.state]

\* An action's result enters the history and sets the state.
Settled(r, result) ==
    [r EXCEPT !.history = Prepend(result, r.history),
              !.state = IF result.status = "EXECUTED"
                        THEN StateByAction[result.act] ELSE "WATCHING"]

\* The decision changes the incident and asks for nothing.
DecideOnly(e, act) ==
    /\ task[e].pc = "deciding"
    /\ ~ShouldExecute(Held(e), act)
    /\ Save(HostOf[e], Update(Held(e), act))
    /\ task' = [task EXCEPT ![e] = [IdleTask EXCEPT !.pc = "done"]]
    /\ UNCHANGED <<eventKeys, actions, marking, clock>>

\* The decision asks for an action whose switches are off.
DecideSimulated(e, act) ==
    /\ task[e].pc = "deciding"
    /\ ShouldExecute(Held(e), act)
    /\ act \notin Enabled
    /\ LET result == Simulated(e, act)
       IN /\ Save(HostOf[e], Settled(Update(Held(e), act), result))
          /\ actions' = actions \cup {result}
    /\ task' = [task EXCEPT ![e] = [IdleTask EXCEPT !.pc = "done"]]
    /\ UNCHANGED <<eventKeys, marking, clock>>

\* The incident is saved as MITIGATING and the request leaves; the loop is free.
DecideCall(e, act) ==
    /\ task[e].pc = "deciding"
    /\ ShouldExecute(Held(e), act)
    /\ act \in Enabled
    /\ LET r == [Update(Held(e), act) EXCEPT !.state = "MITIGATING"]
       IN /\ Save(HostOf[e], r)
          /\ task' = [task EXCEPT ![e] =
                        [pc |-> "calling", act |-> act,
                         copy |-> IF Persistence = "mysql" THEN r
                                                           ELSE NewIncident]]
    /\ UNCHANGED <<eventKeys, actions, marking, clock>>

\* The action was carried out; M6 answers with the time the block ends.
AnswerExecuted(e) ==
    LET act == task[e].act IN
    [ev |-> e, act |-> act, status |-> "EXECUTED",
     until |-> IF act = "MIRROR" THEN Never ELSE clock + Ttl[act]]

\* Any error of the request to M6, a timeout included.
AnswerFailed(e) ==
    [ev |-> e, act |-> task[e].act, status |-> "FAILED", until |-> Never]

\* The request to the Telemetry Manager does not catch its errors.
Answers(e) ==
    {AnswerExecuted(e)} \cup
    (IF task[e].act = "MIRROR" THEN {} ELSE {AnswerFailed(e)})

\* The rest of process(), once there is a result.
Record(e, result) ==
    /\ LoopFree
    /\ task[e].pc = "calling"
    /\ Save(HostOf[e], Settled(Held(e), result))
    /\ actions' = actions \cup {result}
    /\ task' = [task EXCEPT ![e] = [IdleTask EXCEPT !.pc = "done"]]
    /\ UNCHANGED <<eventKeys, marking, clock>>

Complete(e) ==
    /\ task[e].pc = "calling"
    /\ \E result \in Answers(e) : Record(e, result)

\* activate_mirror raises: the handler ends with the incident as it stands.
Raise(e) ==
    /\ LoopFree
    /\ task[e].pc = "calling"
    /\ task[e].act = "MIRROR"
    /\ task' = [task EXCEPT ![e] = [IdleTask EXCEPT !.pc = "raised"]]
    /\ UNCHANGED <<eventKeys, known, incident, actions, marking, clock>>

-----------------------------------------------------------------------------
(***************************************************************************)
(* mark_incident_expired, on a thread of the pool                          *)
(***************************************************************************)
\* The incident is fetched and its state set; in memory that is visible at once.
MarkBegin(h) ==
    /\ ~marking[h].busy
    /\ h \in known
    /\ marking' = [marking EXCEPT ![h] =
                     [busy |-> TRUE,
                      copy |-> IF Persistence = "mysql" THEN incident[h]
                                                        ELSE NewIncident]]
    /\ incident' = IF Persistence = "mysql" THEN incident
                   ELSE [incident EXCEPT ![h].state = "EXPIRED"]
    /\ UNCHANGED <<eventKeys, known, actions, task, clock>>

\* Every executed entry is closed and the incident saved.
MarkEnd(h) ==
    /\ marking[h].busy
    /\ LET r == IF Persistence = "mysql"
                THEN [marking[h].copy EXCEPT !.state = "EXPIRED"]
                ELSE incident[h]
       IN Save(h, [r EXCEPT !.history = LiftAll(r.history)])
    /\ marking' = [marking EXCEPT ![h] = [busy |-> FALSE, copy |-> NewIncident]]
    /\ UNCHANGED <<eventKeys, actions, task, clock>>

-----------------------------------------------------------------------------
Tick ==
    /\ clock < MaxTime
    /\ clock' = clock + 1
    /\ UNCHANGED <<eventKeys, known, incident, actions, task, marking>>

\* M4 stops in the middle of a call and starts again: calls and threads are
\* gone, and so is everything the memory repository held.
Restart ==
    /\ InFlight # {}
    /\ task' = [e \in Events |->
                  IF task[e].pc \in {"deciding", "calling"}
                  THEN [IdleTask EXCEPT !.pc = "lost"] ELSE task[e]]
    /\ marking' = [h \in Hosts |-> [busy |-> FALSE, copy |-> NewIncident]]
    /\ IF Persistence = "mysql"
       THEN UNCHANGED <<eventKeys, known, incident, actions>>
       ELSE /\ eventKeys' = {} /\ known' = {} /\ actions' = {}
            /\ incident' = [h \in Hosts |-> NewIncident]
    /\ UNCHANGED clock

Init ==
    /\ eventKeys = {} /\ known = {} /\ actions = {}
    /\ incident = [h \in Hosts |-> NewIncident]
    /\ task = [e \in Events |-> IdleTask]
    /\ marking = [h \in Hosts |-> [busy |-> FALSE, copy |-> NewIncident]]
    /\ clock = 1

Decide(e) ==
    \E act \in Decision :
        DecideOnly(e, act) \/ DecideSimulated(e, act) \/ DecideCall(e, act)

Next ==
    \/ \E e \in Events : Receive(e) \/ Decide(e) \/ Complete(e) \/ Raise(e)
    \/ \E h \in Hosts : MarkBegin(h) \/ MarkEnd(h)
    \/ Tick
    \/ Restart

Spec == Init /\ [][Next]_vars

\* The loop runs, and every request ends: httpx gives up after its timeout.
Fairness ==
    /\ \A e \in Events : WF_vars(Decide(e)) /\ WF_vars(Complete(e) \/ Raise(e))
    /\ \A h \in Hosts : WF_vars(MarkEnd(h))

FairSpec == Spec /\ Fairness

-----------------------------------------------------------------------------
(***************************************************************************)
(* Properties                                                              *)
(***************************************************************************)
\* Every variable keeps its shape, the copies held by calls and threads too.
TypeOK ==
    /\ eventKeys \subseteq Events
    /\ known \subseteq Hosts
    /\ incident \in [Hosts -> Incident]
    /\ actions \subseteq ActionResult
    /\ task \in [Events -> Task]
    /\ \A e \in InFlight : task[e].act \in Actionable
    /\ marking \in [Hosts -> [busy : BOOLEAN, copy : Incident]]
    /\ clock \in Nat \ {0}

Backed(r) ==
    r.state \in ActiveStates =>
        /\ r.history # <<>>
        /\ r.history[1].status = "EXECUTED"
        /\ r.state = StateByAction[r.history[1].act]

\* An incident shown as MIRRORING, CONTAINED or BLOCKED owes it to the newest
\* entry of its history, executed and of that very kind, whatever calls, expire
\* callbacks and restarts came in between (service.py:98-105).
StateBacked == \A h \in Hosts : Backed(incident[h])

Lifted(r) == \A i \in DOMAIN r.history : ~Live(r.history[i])

\* Once the expire handler has returned, an incident in EXPIRED has no action
\* left that has_active_action could still take for running
\* (incident_manager.py:114-122).
ExpiredIsLifted ==
    \A h \in Hosts :
        incident[h].state = "EXPIRED" /\ ~marking[h].busy => Lifted(incident[h])

Explained(h) ==
    \E e \in eventKeys : /\ HostOf[e] = h
                        /\ task[e].pc \in {"calling", "raised", "lost"}

\* MITIGATING is never a leftover of calls that all ended well: some call for
\* the host is still waiting, or died before it could record a result
\* (service.py:75-105).
MitigatingExplained ==
    \A h \in Hosts : incident[h].state = "MITIGATING" => Explained(h)

\* No incident has two running actions of the same kind, while one event is decided
\* after the other (incident_manager.py:92-99).  Two that overlap at the await may both
\* start one, which the README of M4 does not say (security/m4/README.md:331).
OneLivePerKind ==
    \A h \in Hosts :
        LET history == incident[h].history
        IN \A i, j \in DOMAIN history :
              /\ Live(history[i]) /\ Live(history[j])
              /\ history[i].act = history[j].act
              => i = j

\* An executed action that has ended, by its time or by the expire handler, is
\* never taken for running again (incident_manager.py:114-140).
LiftIsFinal ==
    [][\A h \in Hosts :
         \A i \in DOMAIN incident[h].history, j \in DOMAIN incident'[h].history :
            /\ incident[h].history[i].ev = incident'[h].history[j].ev
            /\ incident[h].history[i].status = "EXECUTED"
            /\ ~Live(incident[h].history[i])
            => ~Live(incident[h].history[j])']_vars

\* When an event has been decided, an incident left MIRRORING, CONTAINED or
\* BLOCKED has an action that still runs: a lapsed one is noticed by the next
\* event (incident_manager.py:53-65, 91-140).
ActiveMeansRunning ==
    [][\A e \in Events :
         /\ task[e].pc = "deciding" /\ task'[e].pc = "done"
         /\ incident'[HostOf[e]].state \in ActiveStates
         => \E i \in DOMAIN incident'[HostOf[e]].history :
               Live(incident[HostOf[e]].history[i])']_vars

\* An incident does not stay in MITIGATING: it leaves the state unless a call
\* for it died (service.py:97-105, under the client timeout of config.py:33).
MitigatingEnds ==
    \A h \in Hosts :
        (incident[h].state = "MITIGATING") ~>
            \/ incident[h].state # "MITIGATING"
            \/ \E e \in Events : HostOf[e] = h /\ task[e].pc \in {"raised", "lost"}

=============================================================================
