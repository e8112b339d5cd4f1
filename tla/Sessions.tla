------------------------------- MODULE Sessions -------------------------------
(***************************************************************************)
(* The sessions of M1 and their flows in M6: M1 (Logins) sends a role      *)
(* token after a login and a close request after a logout, M6 installs the *)
(* session gate and a permission, remembers them by MAC and deletes them.  *)
(*                                                                         *)
(* M6's handlers are threads.  Its dictionaries are locked for each        *)
(* access, never during a call to ONOS.  M1 waits 12 s for the answer to a *)
(* token and 3 s for the answer to a close request, goes on whatever came, *)
(* and M6 may still be at work then.                                       *)
(***************************************************************************)
EXTENDS Logins

CONSTANTS
    Jobs,           \* M6's request handlers at work at the same time
    Nobody,         \* nobody waits for the answer to a call
    Restarts,       \* whether M6 may be restarted
    Sweeps,         \* bound: how often the gates are swept
    Faults          \* bound: calls lost, late, failed, and gates that time out

ASSUME SessionConstants ==
    /\ Nobody \notin Threads
    /\ Restarts \in BOOLEAN /\ Sweeps \in Nat /\ Faults \in Nat

\* ONOS tells flows apart by device, table, priority and selector.  The gate's
\* selector has the host; its treatment has the VLAN of the role.  The selector of
\* a permission has the VLAN too.
Owners == Users \cup {Guest}
Gate(h) == <<"gate", h>>
Permit(h, u) == <<"permit", h, u>>
Flows == {Gate(h) : h \in Hosts} \cup {Permit(h, u) : h \in Hosts, u \in Owners}
HostOf(f) == f[2]
MacOf(f) == f[2].mac

VARIABLES
    calls,          \* calls to M6 on their way
    flows,          \* the flows in ONOS, with the user whose VLAN they carry
    cache,          \* flows_por_sesion
    gates,          \* session_gates
    jpc,            \* where each handler is
    job,            \* the call it handles
    doomed,         \* the flows it still has to delete
    listed,         \* the hosts a sweep has read as active, then the ones it clears
    sweeps, faults, \* how often there was a sweep, and a fault
    trouble,        \* history: MACs something has gone wrong with
    forgotten       \* history: flows that M6 knew before a restart

m6 == <<cache, gates>>
jobs == <<jpc, job, doomed, listed>>
bounds == <<sweeps, faults>>
history6 == <<trouble, forgotten>>
sessionVars == <<calls, flows, m6, jobs, bounds, history6>>
vars == <<loginVars, sessionVars>>

\* One shape for all requests; a "boot" is the sweep at the start of M6.
Kind == {"token", "close", "expired", "sweep", "boot"}
Call == [kind : Kind, host : Hosts, user : Owners,
         from : Threads \cup {Nobody}]
NoCall == [kind |-> "close", host |-> CHOOSE h \in Hosts : TRUE, user |-> Guest,
           from |-> Nobody]

Init ==
    /\ LoginInit
    /\ calls = {} /\ flows = {} /\ cache = {} /\ gates = {}
    /\ jpc = [j \in Jobs |-> "idle"] /\ job = [j \in Jobs |-> NoCall]
    /\ doomed = [j \in Jobs |-> {}] /\ listed = [j \in Jobs |-> {}]
    /\ sweeps = 0 /\ faults = 0 /\ trouble = {} /\ forgotten = {}

Mac(j) == job[j].host.mac
GoTo(j, there) == jpc' = [jpc EXCEPT ![j] = there]

\* Something goes wrong with the MACs M; or nothing does.
Fault(M) == faults < Faults /\ faults' = faults + 1 /\ trouble' = trouble \cup M
NoFault == UNCHANGED <<faults, trouble>>
Trouble(M) == trouble' = trouble \cup M

-----------------------------------------------------------------------------
(***************************************************************************)
(* M1's side of the calls                                                  *)
(***************************************************************************)
\* Nobody may be waiting for a call of this thread: it waits for one at a time.
Outstanding(t) ==
    \/ \E c \in calls : c.from = t
    \/ \E j \in Jobs : jpc[j] # "idle" /\ job[j].from = t

Ask(t, what) ==
    calls' = calls \cup {[kind |-> what, host |-> req[t].host, user |-> Id(req[t].who),
                          from |-> t]}

\* Nothing is left of the sessions the MAC had before, anywhere: what went wrong
\* with them does not matter any more.
Clean(mac) ==
    /\ \A f \in {g.id : g \in flows} \cup cache \cup gates : MacOf(f) # mac
    /\ \A c \in calls : c.host.mac # mac
    /\ \A j \in Jobs : jpc[j] = "idle"

SendToken(t) ==
    /\ Welcome(t)
    /\ Ask(t, "token")
    /\ trouble' = {mac \in trouble : mac = req[t].host.mac => ~Clean(mac)}
    /\ UNCHANGED <<flows, m6, jobs, bounds, forgotten>>

SendClose(t) ==
    /\ CloseSession(t)
    /\ Ask(t, "close")
    /\ UNCHANGED <<flows, m6, jobs, bounds, history6>>

Answered(t) ==
    /\ ~Outstanding(t)
    /\ LoggedIn(t) \/ LoggedOut(t)
    /\ UNCHANGED sessionVars

\* The timeout: M6 goes on, and nobody waits for it any more.
TimedOut(t) ==
    /\ Outstanding(t)
    /\ LoggedIn(t) \/ LoggedOut(t)
    /\ calls' = {IF c.from = t THEN [c EXCEPT !.from = Nobody] ELSE c : c \in calls}
    /\ job' = [j \in Jobs |-> IF job[j].from = t THEN [job[j] EXCEPT !.from = Nobody]
                                                 ELSE job[j]]
    /\ Fault({req[t].host.mac})
    /\ UNCHANGED <<flows, m6, jpc, doomed, listed, sweeps, forgotten>>

\* M6 does not get the call.
Lost(c) ==
    /\ c \in calls
    /\ calls' = calls \ {c}
    /\ Fault({c.host.mac})
    /\ UNCHANGED <<loginVars, flows, m6, jobs, sweeps, forgotten>>

\* M6 serves requests once the sweep at its start has ended.
Serving == \A k \in Jobs : job[k].kind # "boot"

Accept(j, c) ==
    /\ jpc[j] = "idle" /\ c \in calls /\ Serving
    /\ calls' = calls \ {c}
    /\ job' = [job EXCEPT ![j] = c]
    /\ GoTo(j, c.kind)
    /\ UNCHANGED <<loginVars, flows, m6, doomed, listed, bounds, history6>>

Finish(j) ==
    /\ GoTo(j, "idle")
    /\ job' = [job EXCEPT ![j] = NoCall]

-----------------------------------------------------------------------------
(***************************************************************************)
(* procesar_token_rol                                                      *)
(***************************************************************************)
\* Installing replaces the flow with the same selector.
Put(f, u) == flows' = {g \in flows : g.id # f} \cup {[id |-> f, user |-> u]}
Installed(f) == \E g \in flows : g.id = f

\* Under the lock, ONOS is asked for the gate the dictionary has for the MAC: one
\* that exists is kept as it is, any other is forgotten.
CheckGate(j) ==
    /\ jpc[j] = "token"
    /\ \/ /\ \E g \in gates : MacOf(g) = Mac(j) /\ Installed(g)
          /\ GoTo(j, "permit") /\ NoFault /\ UNCHANGED gates
       \/ /\ \A g \in gates : MacOf(g) = Mac(j) => ~Installed(g)
          /\ gates' = {g \in gates : MacOf(g) # Mac(j)}
          /\ GoTo(j, "gate") /\ NoFault
       \/ /\ gates' = {g \in gates : MacOf(g) # Mac(j)}
          /\ GoTo(j, "gate") /\ Fault({Mac(j)})
    /\ UNCHANGED <<loginVars, calls, flows, cache, job, doomed, listed, sweeps, forgotten>>

InstallGate(j) ==
    /\ jpc[j] = "gate"
    /\ Put(Gate(job[j].host), job[j].user)
    /\ GoTo(j, "cacheGate")
    /\ UNCHANGED <<loginVars, calls, m6, job, doomed, listed, bounds, history6>>

\* _instalar_y_cachear, under the lock.
CacheGate(j) ==
    /\ jpc[j] = "cacheGate"
    /\ cache' = cache \cup {Gate(job[j].host)}
    /\ GoTo(j, "setGate")
    /\ UNCHANGED <<loginVars, calls, flows, gates, job, doomed, listed, bounds, history6>>

\* The entry of the dictionary, under the lock once more.
SetGate(j) ==
    /\ jpc[j] = "setGate"
    /\ gates' = {g \in gates : MacOf(g) # Mac(j)} \cup {Gate(job[j].host)}
    /\ GoTo(j, "permit")
    /\ UNCHANGED <<loginVars, calls, flows, cache, job, doomed, listed, bounds, history6>>

InstallPermit(j) ==
    /\ jpc[j] = "permit"
    /\ Put(Permit(job[j].host, job[j].user), job[j].user)
    /\ GoTo(j, "cachePermit")
    /\ UNCHANGED <<loginVars, calls, m6, job, doomed, listed, bounds, history6>>

CachePermit(j) ==
    /\ jpc[j] = "cachePermit"
    /\ cache' = cache \cup {Permit(job[j].host, job[j].user)}
    /\ Finish(j)
    /\ UNCHANGED <<loginVars, calls, flows, gates, doomed, listed, bounds, history6>>

\* ONOS refuses all attempts, or does what it is asked and is not heard of.
InstallFails(j) ==
    /\ \/ /\ jpc[j] = "gate"
          /\ Put(Gate(job[j].host), job[j].user) \/ UNCHANGED flows
          /\ GoTo(j, "permit") /\ UNCHANGED job
       \/ /\ jpc[j] = "permit"
          /\ Put(Permit(job[j].host, job[j].user), job[j].user) \/ UNCHANGED flows
          /\ Finish(j)
    /\ Fault({Mac(j)})
    /\ UNCHANGED <<loginVars, calls, m6, doomed, listed, sweeps, forgotten>>

\* The destination is not known to ONOS: its flows are left to the packet-ins.
SkipPermit(j) ==
    /\ jpc[j] = "permit"
    /\ Finish(j)
    /\ UNCHANGED <<loginVars, calls, flows, m6, doomed, listed, bounds, history6>>

-----------------------------------------------------------------------------
(***************************************************************************)
(* procesar_flow_expired and cerrar_sesion                                 *)
(***************************************************************************)
RowOf(h) == {r \in rows : r.mac = h.mac /\ r.ip = h.ip /\ r.port = h.port}
With(M) == {mac \in M : \E r \in rows : r.mac = mac}

\* A session in the database is reported to M1, which has no such endpoint: its
\* 404 is accepted, and M6 closes the session.  It also does so when there is no
\* session or the database does not answer, and not when M1 does not answer.
Lookup(j) ==
    /\ jpc[j] = "expired"
    /\ \/ GoTo(j, "close") /\ UNCHANGED <<job, faults>> /\ Trouble(With({Mac(j)}))
       \/ RowOf(job[j].host) # {} /\ Finish(j) /\ Fault({Mac(j)})
    /\ UNCHANGED <<loginVars, calls, flows, m6, doomed, listed, sweeps, forgotten>>

Of(mac, F) == {f \in F : MacOf(f) = mac}

\* Mutated form of Pop: the session gate is left to expire.
PopPermits(j) ==
    /\ jpc[j] = "close"
    /\ doomed' = [doomed EXCEPT ![j] = Of(Mac(j), cache \ gates)]
    /\ cache' = cache \ Of(Mac(j), cache \ gates)
    /\ Trouble(IF job[j].kind = "expired" THEN With({Mac(j)}) ELSE {})
    /\ GoTo(j, "deleting")
    /\ UNCHANGED <<loginVars, calls, flows, gates, job, listed, bounds, forgotten>>

\* Under the lock: everything M6 knows of the MAC is taken out.
Pop(j) ==
    /\ jpc[j] = "close"
    /\ doomed' = [doomed EXCEPT ![j] = Of(Mac(j), cache)]
    /\ cache' = cache \ Of(Mac(j), cache)
    /\ gates' = gates \ Of(Mac(j), gates)
    /\ Trouble(IF job[j].kind = "expired" THEN With({Mac(j)}) ELSE {})
    /\ GoTo(j, "deleting")
    /\ UNCHANGED <<loginVars, calls, flows, job, listed, bounds, forgotten>>

\* ONOS may report that a gate is gone, whether it expired or was deleted.
Reported(f) ==
    \/ UNCHANGED calls
    \/ /\ f[1] = "gate"
       /\ calls' = calls \cup {[kind |-> "expired", host |-> HostOf(f), user |-> Guest,
                                from |-> Nobody]}

Remove(f) ==
    IF Installed(f) THEN flows' = {g \in flows : g.id # f} /\ Reported(f)
                    ELSE UNCHANGED <<flows, calls>>

\* One flow at a time, whatever ONOS answers.
Delete(j) ==
    /\ jpc[j] = "deleting"
    /\ \E f \in doomed[j] :
          /\ Remove(f)
          /\ doomed' = [doomed EXCEPT ![j] = @ \ {f}]
          /\ Trouble(IF job[j].kind = "close" THEN {} ELSE With({MacOf(f)}))
    /\ UNCHANGED <<loginVars, m6, jpc, job, listed, bounds, forgotten>>

DeleteFails(j) ==
    /\ jpc[j] = "deleting"
    /\ \E f \in doomed[j] :
          /\ doomed' = [doomed EXCEPT ![j] = @ \ {f}]
          /\ Fault({MacOf(f)})
    /\ UNCHANGED <<loginVars, calls, flows, m6, jpc, job, listed, sweeps, forgotten>>

Sweeping(j) == job[j].kind \in {"sweep", "boot"}

Closed(j) ==
    /\ jpc[j] = "deleting" /\ doomed[j] = {} /\ ~Sweeping(j)
    /\ Finish(j)
    /\ UNCHANGED <<loginVars, calls, flows, m6, doomed, listed, bounds, history6>>

-----------------------------------------------------------------------------
(***************************************************************************)
(* cleanup_session_gates_huerfanos                                         *)
(***************************************************************************)
BeginSweep(j) ==
    /\ jpc[j] = "idle" /\ Serving
    /\ sweeps < Sweeps /\ sweeps' = sweeps + 1
    /\ job' = [job EXCEPT ![j] = [NoCall EXCEPT !.kind = "sweep"]]
    /\ GoTo(j, "sweep")
    /\ UNCHANGED <<loginVars, calls, flows, m6, doomed, listed, faults, history6>>

\* _sesiones_activas_db_keys: an error looks like an empty table.
ReadActive(j) ==
    /\ jpc[j] = "sweep"
    /\ \/ /\ listed' = [listed EXCEPT ![j] = {h \in Hosts : RowOf(h) # {}}]
          /\ NoFault
       \/ /\ listed' = [listed EXCEPT ![j] = {}]
          /\ Fault({r.mac : r \in rows})
    /\ GoTo(j, "scan")
    /\ UNCHANGED <<loginVars, calls, flows, m6, job, doomed, sweeps, forgotten>>

GatesInOnos == {h \in Hosts : Installed(Gate(h))}

\* Mutated form of Adopted: the gates of active sessions are not adopted.
AdoptedNone(H) == {}

\* The gates of hosts that were active.
Adopted(H) == {Gate(h) : h \in GatesInOnos \cap H}

\* Gates of active hosts go into the dictionaries, the others are to be deleted.
\* Of two gates of a MAC the dictionary of gates keeps one.
Scan(j) ==
    LET new == Adopted(listed[j])
        stale == GatesInOnos \ listed[j]
    IN /\ jpc[j] = "scan"
       /\ cache' = cache \cup new
       /\ \E G \in SUBSET new :
             /\ \A g \in new : \E k \in G : MacOf(k) = MacOf(g)
             /\ \A g, k \in G : MacOf(g) = MacOf(k) => g = k
             /\ gates' = G \cup {k \in gates : \A g \in G : MacOf(k) # MacOf(g)}
       /\ doomed' = [doomed EXCEPT ![j] = {Gate(h) : h \in stale}]
       /\ listed' = [listed EXCEPT ![j] = stale]
       /\ GoTo(j, "deleting")
       /\ UNCHANGED <<loginVars, calls, flows, job, bounds, history6>>

\* Under the lock: all M6 knows of the MACs of the gates it has deleted.
PopStale(j) ==
    LET macs == {h.mac : h \in listed[j]}
    IN /\ jpc[j] = "deleting" /\ doomed[j] = {} /\ Sweeping(j)
       /\ cache' = {f \in cache : MacOf(f) \notin macs}
       /\ gates' = {g \in gates : MacOf(g) \notin macs}
       /\ listed' = [listed EXCEPT ![j] = {}]
       /\ Trouble({MacOf(f) : f \in cache \ cache'})
       /\ Finish(j)
       /\ UNCHANGED <<loginVars, calls, flows, doomed, bounds, forgotten>>

-----------------------------------------------------------------------------
\* The process is killed with its dictionaries and its handlers; the new one
\* sweeps the gates before it serves.
Restart(j) ==
    /\ Restarts /\ sweeps < Sweeps /\ sweeps' = sweeps + 1
    /\ cache' = {} /\ gates' = {}
    /\ jpc' = [[k \in Jobs |-> "idle"] EXCEPT ![j] = "sweep"]
    /\ job' = [[k \in Jobs |-> NoCall] EXCEPT ![j].kind = "boot"]
    /\ doomed' = [k \in Jobs |-> {}] /\ listed' = [k \in Jobs |-> {}]
    /\ Trouble({Mac(k) : k \in {i \in Jobs : jpc[i] # "idle" /\ ~Sweeping(i)}})
    /\ forgotten' = forgotten \cup {f.id : f \in flows}
    /\ UNCHANGED <<loginVars, calls, flows, faults>>

\* ONOS removes a gate after SESSION_IDLE_TIMEOUT, a permission after its own.
FlowTimesOut ==
    \E f \in flows :
        /\ Remove(f.id)
        /\ IF f.id[1] = "gate" THEN Fault({MacOf(f.id)}) ELSE NoFault
        /\ UNCHANGED <<loginVars, m6, jobs, sweeps, forgotten>>

TokenStep(j) ==
    \/ CheckGate(j) \/ InstallGate(j) \/ CacheGate(j) \/ SetGate(j)
    \/ InstallPermit(j) \/ CachePermit(j) \/ SkipPermit(j) \/ InstallFails(j)

CloseStep(j) == Lookup(j) \/ Pop(j) \/ Delete(j) \/ DeleteFails(j) \/ Closed(j)

SweepStep(j) == ReadActive(j) \/ Scan(j) \/ PopStale(j)

PortalStep ==
    \E t \in Threads :
        \/ AloneStep(t) /\ UNCHANGED sessionVars
        \/ SendToken(t) \/ SendClose(t) \/ Answered(t) \/ TimedOut(t)

Next ==
    \/ PortalStep
    \/ \E c \in calls : Lost(c) \/ \E j \in Jobs : Accept(j, c)
    \/ \E j \in Jobs : TokenStep(j) \/ CloseStep(j) \/ SweepStep(j)
    \/ \E j \in Jobs : BeginSweep(j) \/ Restart(j)
    \/ FlowTimesOut

Spec == Init /\ [][Next]_vars

-----------------------------------------------------------------------------
(***************************************************************************)
(* Properties                                                              *)
(***************************************************************************)
\* Every variable keeps its shape; the tables are those of LoginTypeOK.
TypeOK ==
    /\ LoginTypeOK
    /\ calls \subseteq Call
    /\ flows \subseteq [id : Flows, user : Owners]
    /\ \A f, g \in flows : f.id = g.id => f = g
    /\ cache \subseteq Flows
    /\ gates \subseteq {Gate(h) : h \in Hosts}
    /\ \A g, k \in gates : MacOf(g) = MacOf(k) => g = k
    /\ jpc \in [Jobs -> {"idle", "token", "gate", "cacheGate", "setGate", "permit",
                         "cachePermit", "expired", "close", "sweep", "scan", "deleting"}]
    /\ job \in [Jobs -> Call]
    /\ doomed \in [Jobs -> SUBSET Flows] /\ listed \in [Jobs -> SUBSET Hosts]
    /\ sweeps \in 0 .. Sweeps /\ faults \in 0 .. Faults
    /\ trouble \subseteq Macs /\ forgotten \subseteq Flows

InWork(mac) ==
    \/ \E c \in calls : c.host.mac = mac
    \/ \E j \in Jobs : jpc[j] # "idle" /\ ~Sweeping(j) /\ Mac(j) = mac

\* Something has gone wrong with the MAC, or its session was taken over.
Excused(mac) ==
    \/ mac \in trouble
    \/ \E r \in rows, s \in Sids : r.mac = mac /\ {s, r.id} \in excused

\* Every flow belongs to a session: one in the database, of its host, and of the
\* user whose VLAN it carries.  If not, M6 is about to handle a call for that host,
\* or something went wrong: a call lost or given up, a call to ONOS failed, a sweep
\* in the middle of a login, a restart, for the permissions it made M6 forget
\* (m6_traductor.py:2000-2008, 3206-3240, m1_auth.py:622-688).
NoOrphanFlow ==
    \A f \in flows :
        \/ \E r \in RowOf(HostOf(f.id)) : r.user = f.user
        \/ InWork(MacOf(f.id)) \/ Excused(MacOf(f.id))
        \/ f.id[1] = "permit" /\ f.id \in forgotten

\* Every session has its gate, with the VLAN of its user, once its login has been
\* answered, unless something went wrong.  That holds across restarts: the sweep
\* at the start of M6 keeps and adopts the gates of active sessions
\* (m6_traductor.py:2036-2068, 3287-3388).
SessionsServed ==
    \A r \in rows :
        \/ \E f \in flows : HostOf(f.id) \in Hosts /\ f.id[1] = "gate"
                              /\ r \in RowOf(HostOf(f.id)) /\ f.user = r.user
        \/ InWork(r.mac) \/ Excused(r.mac)
        \/ \E t \in Threads : pc[t] \in {"registered", "bound"} /\ req[t].sid = r.id

\* A sweep deletes no gate of an active session.  Its docstring says that it deletes
\* the gates that are in ONOS and no longer exist as active sessions in M6 or the
\* database (m6_traductor.py:3288-3291).  The code does not ensure it, and no run checks
\* it: the sessions are read before the gates, and not again.
SweepSparesSessions ==
    [][\A j \in Jobs :
          Sweeping(j) /\ jpc[j] = "deleting" =>
            \A f \in doomed[j] \ doomed'[j] : RowOf(HostOf(f)) = {}
      ]_vars

=============================================================================
