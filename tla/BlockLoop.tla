------------------------------- MODULE BlockLoop -------------------------------
(***************************************************************************)
(* M4 and M6 together: M4's request for a block, what becomes of it in M6, *)
(* the answer M4 may have stopped waiting for, the unblocking by an        *)
(* operator and the notice of it that M6 sends to M4 once.                 *)
(*                                                                         *)
(* A step is one of IncidentService or one of Mitigations; the steps that  *)
(* the two share are the ones below.  A host has one incident in both and  *)
(* one DROP flow, at its own switch (procesar_alerta_seguridad): the       *)
(* alerts about it name one signature and one destination, from which M6   *)
(* makes the selector of the flow.                                         *)
(***************************************************************************)
EXTENDS IncidentService

CONSTANTS
    Handlers,       \* M6's request handlers at work at the same time
    Nobody,         \* no handler
    Failing         \* bound: the hosts for which calls to ONOS may fail

ASSUME LoopConstants == Nobody \notin Handlers /\ Failing \subseteq Hosts

VARIABLES
    mitigaciones, rules, notices, at, host, ttl, todo, got, current, failed, forgotten,
    mail,           \* what has become of the request of each event
    strayed         \* history: hosts that M4 and ONOS may disagree about

m4 == <<eventKeys, known, incident, actions, task, marking>>
m6 == <<mitigaciones, rules, notices, at, host, ttl, todo, got, current, failed, forgotten>>
loopVars == <<m4, m6, clock, mail, strayed>>

M6 == INSTANCE Mitigations WITH
    Threads <- Handlers, Incidents <- Hosts, Flows <- Hosts,
    Requests <- [h \in Hosts |-> {{h}}], Ttls <- {Ttl[a] : a \in DOMAIN Ttl},
    pc <- at, incident <- host

\* A request: none, sent, taken by a handler, answered with the end of the block or,
\* as an error, with 0.
Mail == [step : {"none", "sent", "taken", "answered"}, act : Actionable,
         by : Handlers \cup {Nobody}, until : Nat]
NoMail == [step |-> "none", act |-> "BLOCK", by |-> Nobody, until |-> 0]

LoopInit ==
    /\ Init /\ M6!Empty
    /\ mail = [e \in Events |-> NoMail] /\ strayed = {}

-----------------------------------------------------------------------------
(***************************************************************************)
(* What the two should agree about: until when a host is blocked.          *)
(***************************************************************************)
Latest(S) == CHOOSE n \in S \cup {0} : \A k \in S : k <= n

\* When the entries of a history that M4 takes for running end, and when the flows do that
\* ONOS has for a host.
LiveEnds(history) == {history[i].until : i \in {k \in DOMAIN history : Live(history[k])}}
RuleEnds(h) == {r.until : r \in {q \in rules : q.owner = h /\ q.until > clock}}

\* What M4 takes for running, and what ONOS has.
Believed(h) == Latest(LiveEnds(incident[h].history))
Enforced(h) == Latest(RuleEnds(h))

Agreed(h) == Believed(h) = Enforced(h)

MyEvents(h) == {e \in Events : HostOf[e] = h}
Asking(h) ==
    \/ \E e \in MyEvents(h) : task[e].pc = "calling" \/ mail[e].step # "none"
    \/ \E t \in Handlers : at[t] = "installing" /\ host[t] = h
Requesting(h) == Asking(h) \/ \E e \in MyEvents(h) : task[e].pc = "deciding"
Unblocking(h) ==
    \/ h \in notices \/ marking[h].busy
    \/ \E t \in Handlers : at[t] = "deleting" /\ host[t] = h
Quiet(h) == ~Requesting(h) /\ ~Unblocking(h)

\* Something happens to the hosts in S that may leave them in disagreement: so does an
\* unblocking that overlaps with a request.  It is over when they agree again.
Stray(S) ==
    strayed' = {h \in Hosts : /\ h \in strayed \cup S \/ (Requesting(h) /\ Unblocking(h))'
                              /\ ~(Quiet(h) /\ Agreed(h))'}

\* The history that a call works on is full and its oldest entry still runs: the next
\* entry pushes it out.
Forgetful(e) ==
    LET history == Held(e).history
    IN Len(history) = HistoryCap /\ Live(history[HistoryCap])

\* The host of an event, if so.
HostIf(e, so) == {h \in {HostOf[e]} : so}

-----------------------------------------------------------------------------
(***************************************************************************)
(* M4's requests                                                           *)
(***************************************************************************)
\* A shorter block replaces a longer one that M4 goes on believing in.
Shortens(e, act) == Believed(HostOf[e]) > clock + Ttl[act]

Send(e, act) ==
    /\ act # "MIRROR" /\ DecideCall(e, act)
    /\ mail' = [mail EXCEPT ![e] = [NoMail EXCEPT !.step = "sent", !.act = act]]
    /\ UNCHANGED m6
    /\ Stray(HostIf(e, Shortens(e, act) \/ Asking(HostOf[e])))

\* An answer reaches M4 if it still waits.
Heard(e, until) ==
    IF task[e].pc = "calling"
    THEN [mail[e] EXCEPT !.step = "answered", !.until = until]
    ELSE NoMail

\* M6 takes it, or answers at once with an error: there is no session, no policy.
Accept(t, e) ==
    /\ mail[e].step = "sent"
    /\ M6!Mitigate(t, HostOf[e], {HostOf[e]}, Ttl[mail[e].act])
    /\ mail' = [mail EXCEPT ![e].step = "taken", ![e].by = t]
    /\ UNCHANGED m4
    /\ Stray({})

Refuse(e) ==
    /\ mail[e].step = "sent"
    /\ mail' = [mail EXCEPT ![e] = Heard(e, 0)]
    /\ UNCHANGED <<m4, m6, clock>>
    /\ Stray({})

\* Mutated form of Reply: an answer is a success, whatever it says.
ReplyAlways(t) == clock + ttl[t]

\* 200 with expires_at when a flow was installed, 400 when none was.
Reply(t) == IF got[t] = {} THEN 0 ELSE clock + ttl[t]

Answer(t) ==
    /\ M6!Store(t)
    /\ mail' = [e \in Events |->
                  IF mail[e].by = t /\ mail[e].step = "taken"
                  THEN Heard(e, Reply(t))
                  ELSE mail[e]]
    /\ UNCHANGED m4
    /\ Stray({})

\* M6Client.execute: the answer in time.
Answered(e) ==
    /\ mail[e].step = "answered"
    /\ Record(e, IF mail[e].until = 0 THEN AnswerFailed(e)
                 ELSE [AnswerExecuted(e) EXCEPT !.until = mail[e].until])
    /\ mail' = [mail EXCEPT ![e] = NoMail]
    /\ UNCHANGED m6
    /\ Stray(HostIf(e, Forgetful(e)))

\* No answer in time: the request is lost, or M6 goes on with it.
GiveUp(e) ==
    /\ Record(e, AnswerFailed(e))
    /\ \/ mail' = [mail EXCEPT ![e] = NoMail]
       \/ mail[e].step = "sent" /\ UNCHANGED mail
    /\ UNCHANGED m6
    /\ Stray({HostOf[e]})

\* M4 stops while it waits.
Stop ==
    /\ Restart
    /\ \/ mail' = [e \in Events |-> NoMail]
       \/ /\ \E e \in Events : mail[e].step = "sent"
          /\ mail' = [e \in Events |-> IF mail[e].step = "sent" THEN mail[e] ELSE NoMail]
    /\ UNCHANGED m6
    /\ Stray(Hosts)

-----------------------------------------------------------------------------
(***************************************************************************)
(* M6's notice                                                             *)
(***************************************************************************)
Told(h) == M6!Notify(h) /\ MarkBegin(h) /\ UNCHANGED mail /\ Stray({})

NoticeLost(h) == M6!Notify(h) /\ UNCHANGED <<m4, mail>> /\ Stray({h})

\* M6 is restarted: the requests that its handlers worked on end for M4 with an error,
\* what they have done and what it was about to tell M4 is forgotten.
StopM6 ==
    /\ M6!Restart
    /\ mail' = [e \in Events |-> IF mail[e].step = "taken" THEN Heard(e, 0) ELSE mail[e]]
    /\ UNCHANGED m4
    /\ Stray(notices \cup {host[t] : t \in {u \in Handlers : at[u] # "idle"}})

-----------------------------------------------------------------------------
(***************************************************************************)
(* What each does alone                                                    *)
(***************************************************************************)
M4Alone ==
    /\ \/ \E e \in Events : Receive(e)
       \/ \E e \in Events, act \in Decision : DecideOnly(e, act)
       \/ \E h \in Hosts : MarkEnd(h)
    /\ UNCHANGED <<m6, mail>>
    /\ Stray({})

Simulate(e, act) ==
    /\ DecideSimulated(e, act)
    /\ UNCHANGED <<m6, mail>>
    /\ Stray(HostIf(e, Forgetful(e)))

M6Alone ==
    /\ \/ \E t \in Handlers :
             \/ M6!Install(t) \/ M6!Delete(t) \/ M6!DeleteFails(t)
             \/ M6!InstallFails(t) /\ rules' = rules
             \/ \E h \in Hosts : M6!Undo(t, h)
       \/ M6!RuleTimesOut
    /\ UNCHANGED <<m4, mail>>
    /\ Stray({})

\* A flow is installed, and M6 does not learn of it.
InstalledUnknown(t) ==
    /\ M6!InstallFails(t) /\ rules' # rules
    /\ UNCHANGED <<m4, mail>>
    /\ Stray({host[t]})

\* An unblocking ends, perhaps with the flow in place: its deletion failed, or the record
\* had not named it since a later request for it failed.
Unblocked(t) ==
    /\ M6!Mark(t)
    /\ UNCHANGED <<m4, mail>>
    /\ Stray({h \in {host[t]} : Enforced(h) # 0})

\* M6 reads the clock when it has installed the flow.
Time ==
    /\ Tick
    /\ UNCHANGED <<m6, mail>>
    /\ Stray({host[t] : t \in {u \in Handlers : got[u] # {}}})

LoopNext ==
    \/ \E e \in Events :
          \/ \E act \in Decision : Send(e, act) \/ Simulate(e, act)
          \/ \E t \in Handlers : Accept(t, e)
          \/ Refuse(e) \/ Answered(e) \/ GiveUp(e)
    \/ \E t \in Handlers : Answer(t) \/ InstalledUnknown(t) \/ Unblocked(t)
    \/ \E h \in Hosts : Told(h) \/ NoticeLost(h)
    \/ Stop \/ StopM6 \/ M4Alone \/ M6Alone \/ Time

LoopSpec == LoopInit /\ [][LoopNext]_loopVars

-----------------------------------------------------------------------------
(***************************************************************************)
(* Properties                                                              *)
(***************************************************************************)
\* When nothing is under way for a host, M4 and ONOS agree until when it is blocked: the
\* latest end among the actions M4 takes for running is the end of the flow.  If they do
\* not, something has happened since they last agreed that the code does not make good:
\* M4 gave up (m6_client.py:82) or stopped, M6 stopped with a handler at work on the host
\* or a notice of it still to send, the notice was lost (m6_traductor.py:2716),
\* ONOS installed a flow without saying so or did not delete one, the record no longer
\* named it (4640), an unblocking met a request, two requests for the host overlapped, the
\* clock went on between the flow and the record (4616), a shorter block was asked for
\* while a longer one ran (incident_manager.py:92), or newer entries pushed a running
\* block out of the history (service.py:98).
BlockAgreed == \A h \in Hosts : Quiet(h) /\ h \notin strayed => Agreed(h)
=============================================================================
