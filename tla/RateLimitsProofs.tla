---------------------------- MODULE RateLimitsProofs ----------------------------
(***************************************************************************)
(* Theorems about RateLimits, for any handlers, ports, alerts, meters and  *)
(* lifetimes, but for those a theorem names.                               *)
(***************************************************************************)
EXTENDS RateLimits, TLAPS

\* What a record of the dictionary becomes when it is to be deleted.
LEMMA DoomFact ==
    ASSUME NEW r \in Limit
    PROVE  /\ Doom(r) \in Deletion
           /\ Doom(r).flow = r.flow /\ Doom(r).meter = r.meter
           /\ Doom(r).stage = "flow"
BY DEF Doom, Limit, Deletion

\* Installing a flow keeps the rules well formed.
LEMMA PutFact ==
    ASSUME TypeOK, NEW f \in Flow, NEW m \in Meters, Put(f, m)
    PROVE  /\ rules' \subseteq Rule
           /\ \A r \in rules' : r \in rules \/ (r.flow = f /\ r.meter = m)
<1>1. [flow |-> f, meter |-> m, until |-> clock + Ttl] \in Rule
    BY ConstantsAssumption DEF TypeOK, Rule
<1> QED BY <1>1 DEF Put, TypeOK

\* Every step keeps the shape of the variables.
LEMMA TypeStep == TypeOK /\ [Next]_vars => TypeOK'
<1> SUFFICES ASSUME TypeOK, [Next]_vars PROVE TypeOK'
    OBVIOUS
<1> USE DEF Go
<1>1. ASSUME NEW t \in Threads, NEW what \in Kind, NEW k \in Key,
             Request(t, what, k)
      PROVE  TypeOK'
    BY <1>1 DEF Request, work, TypeOK
<1>2. ASSUME NEW t \in Threads, Purge(t) PROVE TypeOK'
    <2>1. \A r \in limits : Doom(r) \in Deletion
        BY DoomFact DEF TypeOK
    <2> QED BY <1>2, <2>1 DEF Purge, request, work, TypeOK
<1>3. ASSUME NEW t \in Threads, DeleteFlow(t) PROVE TypeOK'
    <2>1. PICK d \in doomed[t] :
             /\ rules' \subseteq rules
             /\ doomed' = [doomed EXCEPT ![t] =
                             (@ \ {d}) \cup {[d EXCEPT !.stage = "meter"]}]
        BY <1>3 DEF DeleteFlow
    <2>2. [d EXCEPT !.stage = "meter"] \in Deletion
        BY DEF TypeOK, Deletion
    <2> QED BY <1>3, <2>1, <2>2 DEF DeleteFlow, request, work, TypeOK
<1>4. ASSUME NEW t \in Threads, DeleteMeter(t) PROVE TypeOK'
    BY <1>4 DEF DeleteMeter, request, work, TypeOK
<1>5. ASSUME NEW t \in Threads, Resolved(t) PROVE TypeOK'
    BY <1>5 DEF Resolved, work, TypeOK, Kind
<1>6. ASSUME NEW t \in Threads, Remove(t) PROVE TypeOK'
    <2>1. \A r \in limits : Doom(r) \in Deletion
        BY DoomFact DEF TypeOK
    <2> QED BY <1>6, <2>1 DEF Remove, LimitsOf, request, work, TypeOK
<1>7. ASSUME NEW t \in Threads, Listed(t) PROVE TypeOK'
    BY <1>7 DEF Listed, request, work, TypeOK
<1>8. ASSUME NEW t \in Threads, End(t) PROVE TypeOK'
    BY <1>8 DEF End, request, TypeOK
<1>9. ASSUME NEW t \in Threads, AlreadyActive(t) PROVE TypeOK'
    BY <1>9 DEF AlreadyActive, request, work, TypeOK
<1>10. ASSUME NEW t \in Threads, Look(t) PROVE TypeOK'
    BY <1>10 DEF Look, request, TypeOK
<1>11. ASSUME NEW t \in Threads, CreateMeter(t) PROVE TypeOK'
    BY <1>11 DEF CreateMeter, request, TypeOK
<1>12. ASSUME NEW t \in Threads, MeterRefused(t) PROVE TypeOK'
    <2>1. meters' \subseteq Meters
        BY <1>12 DEF MeterRefused, TypeOK
    <2> QED BY <1>12, <2>1 DEF MeterRefused, request, work, TypeOK
<1>13. ASSUME NEW t \in Threads, InstallFlow(t) PROVE TypeOK'
    <2>1. PICK target \in Targets, m \in meter[t] :
             /\ Put(<<key[t][1], target>>, m)
             /\ placed' = [placed EXCEPT ![t] = {<<key[t][1], target>>}]
        BY <1>13 DEF InstallFlow
    <2>2. <<key[t][1], target>> \in Flow /\ m \in Meters
        BY DEF TypeOK, Flow, Key
    <2>3. rules' \subseteq Rule
        BY <2>1, <2>2, PutFact
    <2> QED BY <1>13, <2>1, <2>2, <2>3 DEF InstallFlow, request, TypeOK
<1>14. ASSUME NEW t \in Threads, InstallFails(t) PROVE TypeOK'
    <2>1. PICK target \in Targets, m \in meter[t] :
             /\ UNCHANGED rules \/ Put(<<key[t][1], target>>, m)
             /\ doomed' = [doomed EXCEPT ![t] =
                    {[flow |-> <<key[t][1], target>>, meter |-> m,
                      stage |-> "meter"]}]
        BY <1>14 DEF InstallFails
    <2>2. <<key[t][1], target>> \in Flow /\ m \in Meters
        BY DEF TypeOK, Flow, Key
    <2>3. rules' \subseteq Rule
        BY <2>1, <2>2, PutFact DEF TypeOK
    <2>4. [flow |-> <<key[t][1], target>>, meter |-> m, stage |-> "meter"] \in Deletion
        BY <2>2 DEF Deletion
    <2> QED BY <1>14, <2>1, <2>3, <2>4 DEF InstallFails, request, TypeOK
<1>15. ASSUME NEW t \in Threads, Store(t) PROVE TypeOK'
    <2>1. \A f \in placed[t], m \in meter[t] :
             [key |-> key[t], flow |-> f, meter |-> m, until |-> Until(t)] \in Limit
        BY ConstantsAssumption DEF TypeOK, Limit, Until
    <2> QED BY <1>15, <2>1 DEF Store, LimitsOf, request, TypeOK
<1>16. CASE RuleTimesOut
    BY <1>16 DEF RuleTimesOut, request, work, TypeOK
<1>17. CASE Tick
    BY <1>17 DEF Tick, request, work, TypeOK
<1>18. CASE UNCHANGED vars
    BY <1>18 DEF vars, request, work, TypeOK
<1> QED
    BY <1>1, <1>2, <1>3, <1>4, <1>5, <1>6, <1>7, <1>8, <1>9, <1>10, <1>11,
       <1>12, <1>13, <1>14, <1>15, <1>16, <1>17, <1>18 DEF Next, Step

\* Type correctness of the rate limits, in every reachable state.
THEOREM TypeCorrect == Spec => []TypeOK
<1>1. Init => TypeOK
    BY DEF Init, TypeOK, Kind
<1> QED BY <1>1, TypeStep, PTL DEF Spec

-----------------------------------------------------------------------------
(***************************************************************************)
(* A meter has one owner: an entry of the dictionary, the handler that has *)
(* created it or a deletion to be done                                     *)
(***************************************************************************)
\* A handler has at most one meter and one flow, and a meter only between its
\* creation and the entry.
HandlersHoldOne ==
    \A t \in Threads :
        /\ \A m, n \in meter[t] : m = n
        /\ \A f, g \in placed[t] : f = g
        /\ meter[t] # {} => pc[t] \in {"installing", "storing"}

OwnedExist ==
    /\ \A r \in limits : r.meter \in meters
    /\ \A t \in Threads : meter[t] \subseteq meters
    /\ \A t \in Threads : \A d \in doomed[t] : d.meter \in meters

EntriesDiffer ==
    /\ \A r, s \in limits : r.meter = s.meter => r = s
    /\ \A r \in limits, t \in Threads : r.meter \notin meter[t]
    /\ \A r \in limits, t \in Threads : \A d \in doomed[t] : d.meter # r.meter

HandlersDiffer ==
    /\ \A t, u \in Threads : \A m \in meter[t] : m \in meter[u] => t = u
    /\ \A t, u \in Threads : \A d \in doomed[t] : d.meter \notin meter[u]
    /\ \A t, u \in Threads : \A c \in doomed[t], d \in doomed[u] :
          c.meter = d.meter => t = u /\ c = d

OInv == TypeOK /\ HandlersHoldOne /\ OwnedExist /\ EntriesDiffer /\ HandlersDiffer

LEMMA OInvInit == Init => OInv
BY DEF Init, OInv, TypeOK, Kind, HandlersHoldOne, OwnedExist, EntriesDiffer,
       HandlersDiffer

\* Taking entries out of the dictionary to delete what they name passes their
\* meters on to the handler.
LEMMA TakeOut ==
    ASSUME OInv, TypeOK', NEW t \in Threads, NEW gone \in SUBSET limits,
           limits' = limits \ gone,
           doomed' = [doomed EXCEPT ![t] = {Doom(r) : r \in gone}],
           meter' = meter, meters' = meters, placed' = placed,
           meter[t] = {}, \A u \in Threads : u # t => pc'[u] = pc[u]
    PROVE  OInv'
<1>1. TypeOK
    BY DEF OInv
<1>2. \A d \in doomed'[t] : \E r \in gone : d = Doom(r) /\ d.meter = r.meter
    BY <1>1, DoomFact DEF TypeOK
<1>3. \A u \in Threads : u # t => doomed'[u] = doomed[u]
    BY <1>1 DEF TypeOK
<1>4. HandlersHoldOne'
    BY DEF OInv, HandlersHoldOne
<1>5. OwnedExist'
    BY <1>2, <1>3 DEF OInv, OwnedExist
<1>6. EntriesDiffer'
    BY <1>2, <1>3 DEF OInv, EntriesDiffer
<1>7. HandlersDiffer'
    <2>1. \A u, v \in Threads : \A m \in meter'[u] : m \in meter'[v] => u = v
        BY DEF OInv, HandlersDiffer
    <2>2. ASSUME NEW u \in Threads, NEW v \in Threads, NEW d \in doomed'[u]
          PROVE  d.meter \notin meter'[v]
        BY <1>2, <1>3, <2>2 DEF OInv, HandlersDiffer, EntriesDiffer
    <2>3. ASSUME NEW u \in Threads, NEW v \in Threads, NEW c \in doomed'[u],
                 NEW d \in doomed'[v], c.meter = d.meter
          PROVE  u = v /\ c = d
        <3>1. CASE u = t /\ v = t
            BY <1>2, <2>3, <3>1 DEF OInv, EntriesDiffer
        <3>2. CASE u = t /\ v # t
            BY <1>2, <1>3, <2>3, <3>2 DEF OInv, EntriesDiffer
        <3>3. CASE u # t /\ v = t
            BY <1>2, <1>3, <2>3, <3>3 DEF OInv, EntriesDiffer
        <3>4. CASE u # t /\ v # t
            BY <1>3, <2>3, <3>4 DEF OInv, HandlersDiffer
        <3> QED BY <3>1, <3>2, <3>3, <3>4
    <2> QED BY <2>1, <2>2, <2>3 DEF HandlersDiffer
<1> QED BY <1>4, <1>5, <1>6, <1>7 DEF OInv

\* Steps that move no meter keep its owner.
LEMMA NothingMoves ==
    ASSUME OInv, TypeOK', limits' = limits, doomed' = doomed,
           meters \subseteq meters',
           \A t \in Threads : meter'[t] = meter[t],
           \A t \in Threads : \A f, g \in placed'[t] : f = g,
           \A t \in Threads : meter[t] # {} =>
               pc'[t] \in {"installing", "storing"}
    PROVE  OInv'
<1>1. HandlersHoldOne' /\ OwnedExist'
    BY DEF OInv, HandlersHoldOne, OwnedExist
<1>2. EntriesDiffer' /\ HandlersDiffer'
    BY DEF OInv, EntriesDiffer, HandlersDiffer
<1> QED BY <1>1, <1>2 DEF OInv

LEMMA OInvStep == OInv /\ [Next]_vars => OInv'
<1> SUFFICES ASSUME OInv, [Next]_vars PROVE OInv'
    OBVIOUS
<1>0. TypeOK /\ TypeOK'
    BY TypeStep DEF OInv
<1>a. ASSUME NEW t \in Threads, pc[t] \notin {"installing", "storing"}
      PROVE  meter[t] = {}
    BY <1>a DEF OInv, HandlersHoldOne
<1> USE DEF Go
<1>1. ASSUME NEW t \in Threads, NEW what \in Kind, NEW k \in Key,
             Request(t, what, k)
      PROVE  OInv'
    BY <1>0, <1>1, <1>a, NothingMoves DEF Request, work, OInv, HandlersHoldOne, TypeOK
<1>2. ASSUME NEW t \in Threads, Purge(t) PROVE OInv'
    <2> DEFINE expired == {r \in limits : r.until <= clock}
    <2>1. meter[t] = {}
        BY <1>2, <1>a DEF Purge
    <2>2. /\ limits' = limits \ expired
          /\ doomed' = [doomed EXCEPT ![t] = {Doom(r) : r \in expired}]
          /\ meter' = meter /\ meters' = meters /\ placed' = placed
          /\ \A u \in Threads : u # t => pc'[u] = pc[u]
        BY <1>0, <1>2 DEF Purge, work, TypeOK
    <2> QED BY <1>0, <2>1, <2>2, TakeOut
<1>3. ASSUME NEW t \in Threads, DeleteFlow(t) PROVE OInv'
    <2>1. PICK d \in doomed[t] :
             doomed' = [doomed EXCEPT ![t] =
                             (@ \ {d}) \cup {[d EXCEPT !.stage = "meter"]}]
        BY <1>3 DEF DeleteFlow
    <2> DEFINE c == [d EXCEPT !.stage = "meter"]
    <2>2. c.meter = d.meter
        BY <1>0 DEF TypeOK, Deletion
    <2>3. /\ doomed'[t] = (doomed[t] \ {d}) \cup {c}
          /\ \A u \in Threads : u # t => doomed'[u] = doomed[u]
        BY <1>0, <2>1 DEF TypeOK
    <2> HIDE DEF c
    <2>4. /\ limits' = limits /\ meters' = meters /\ meter' = meter
          /\ placed' = placed /\ pc' = pc
        BY <1>3 DEF DeleteFlow, work
    <2>5. HandlersHoldOne' /\ OwnedExist' /\ EntriesDiffer'
        BY <2>2, <2>3, <2>4 DEF OInv, HandlersHoldOne, OwnedExist, EntriesDiffer
    <2>6. HandlersDiffer'
        BY <2>2, <2>3, <2>4 DEF OInv, HandlersDiffer
    <2> QED BY <1>0, <2>5, <2>6 DEF OInv
<1>4. ASSUME NEW t \in Threads, DeleteMeter(t) PROVE OInv'
    <2>1. PICK d \in doomed[t] :
             /\ meters' = meters \ {d.meter} \/ meters' = meters
             /\ doomed' = [doomed EXCEPT ![t] = @ \ {d}]
        BY <1>4 DEF DeleteMeter
    <2>2. /\ doomed'[t] = doomed[t] \ {d}
          /\ \A u \in Threads : u # t => doomed'[u] = doomed[u]
        BY <1>0, <2>1 DEF TypeOK
    <2>3. limits' = limits /\ meter' = meter /\ placed' = placed /\ pc' = pc
        BY <1>4 DEF DeleteMeter, work
    <2>4. HandlersHoldOne' /\ EntriesDiffer' /\ HandlersDiffer'
        BY <2>2, <2>3 DEF OInv, HandlersHoldOne, EntriesDiffer, HandlersDiffer
    <2>5. \A u \in Threads : \A c \in doomed'[u] : c.meter # d.meter
        BY <2>2 DEF OInv, HandlersDiffer
    <2>6. OwnedExist'
        BY <2>1, <2>2, <2>3, <2>5
        DEF OInv, OwnedExist, EntriesDiffer, HandlersDiffer
    <2> QED BY <1>0, <2>4, <2>6 DEF OInv
<1>5. ASSUME NEW t \in Threads, Resolved(t) PROVE OInv'
    BY <1>0, <1>5, <1>a, NothingMoves DEF Resolved, work, OInv, HandlersHoldOne, TypeOK
<1>6. ASSUME NEW t \in Threads, Remove(t) PROVE OInv'
    <2>1. meter[t] = {}
        BY <1>6, <1>a DEF Remove
    <2>2. /\ limits' = limits \ LimitsOf(key[t])
          /\ LimitsOf(key[t]) \in SUBSET limits
          /\ doomed' = [doomed EXCEPT ![t] = {Doom(r) : r \in LimitsOf(key[t])}]
          /\ meter' = meter /\ meters' = meters /\ placed' = placed
          /\ \A u \in Threads : u # t => pc'[u] = pc[u]
        BY <1>0, <1>6 DEF Remove, LimitsOf, work, TypeOK
    <2> QED BY <1>0, <2>1, <2>2, TakeOut
<1>7. ASSUME NEW t \in Threads, Listed(t) PROVE OInv'
    BY <1>0, <1>7, <1>a, NothingMoves DEF Listed, work, OInv, HandlersHoldOne, TypeOK
<1>8. ASSUME NEW t \in Threads, End(t) PROVE OInv'
    <2>1. meter[t] = {}
        BY <1>8, <1>a DEF End
    <2>2. \A u \in Threads : meter'[u] = meter[u]
        BY <1>0, <1>8, <2>1 DEF End, TypeOK
    <2> QED
        BY <1>0, <1>8, <1>a, <2>2, NothingMoves DEF End, OInv, HandlersHoldOne, TypeOK
<1>9. ASSUME NEW t \in Threads, AlreadyActive(t) PROVE OInv'
    BY <1>0, <1>9, <1>a, NothingMoves
    DEF AlreadyActive, work, OInv, HandlersHoldOne, TypeOK
<1>10. ASSUME NEW t \in Threads, Look(t) PROVE OInv'
    BY <1>0, <1>10, <1>a, NothingMoves DEF Look, OInv, HandlersHoldOne, TypeOK
<1>11. ASSUME NEW t \in Threads, CreateMeter(t) PROVE OInv'
    <2>1. PICK m \in Meters \ meters :
             meters' = meters \cup {m} /\ meter' = [meter EXCEPT ![t] = {m}]
        BY <1>11 DEF CreateMeter
    <2>2. /\ meter'[t] = {m}
          /\ \A u \in Threads : u # t => meter'[u] = meter[u]
          /\ limits' = limits /\ doomed' = doomed /\ placed' = placed
          /\ pc'[t] = "installing"
          /\ \A u \in Threads : u # t => pc'[u] = pc[u]
        BY <1>0, <1>11, <2>1 DEF CreateMeter, TypeOK
    <2>3. HandlersHoldOne' /\ OwnedExist'
        BY <2>1, <2>2 DEF OInv, HandlersHoldOne, OwnedExist
    <2>4. EntriesDiffer' /\ HandlersDiffer'
        BY <2>1, <2>2 DEF OInv, OwnedExist, EntriesDiffer, HandlersDiffer
    <2> QED BY <1>0, <2>3, <2>4 DEF OInv
<1>12. ASSUME NEW t \in Threads, MeterRefused(t) PROVE OInv'
    BY <1>0, <1>12, <1>a, NothingMoves
    DEF MeterRefused, work, OInv, HandlersHoldOne, TypeOK
<1>13. ASSUME NEW t \in Threads, InstallFlow(t) PROVE OInv'
    <2>1. \A u \in Threads : \A f, g \in placed'[u] : f = g
        BY <1>0, <1>13 DEF InstallFlow, OInv, HandlersHoldOne, TypeOK
    <2> QED
        BY <1>0, <1>13, <2>1, NothingMoves
        DEF InstallFlow, OInv, HandlersHoldOne, TypeOK
<1>14. ASSUME NEW t \in Threads, InstallFails(t) PROVE OInv'
    <2>1. PICK f \in Flow, m \in meter[t] :
             doomed' = [doomed EXCEPT ![t] =
                    {[flow |-> f, meter |-> m, stage |-> "meter"]}]
        BY <1>0, <1>14 DEF InstallFails, TypeOK, Flow, Key
    <2> DEFINE d == [flow |-> f, meter |-> m, stage |-> "meter"]
    <2>2. d.meter = m
        OBVIOUS
    <2>3. /\ doomed'[t] = {d}
          /\ \A u \in Threads : u # t => doomed'[u] = doomed[u]
        BY <1>0, <2>1 DEF TypeOK
    <2> HIDE DEF d
    <2>4. /\ limits' = limits /\ meters' = meters /\ placed' = placed
          /\ meter'[t] = {}
          /\ \A u \in Threads : u # t => meter'[u] = meter[u] /\ pc'[u] = pc[u]
        BY <1>0, <1>14 DEF InstallFails, TypeOK
    <2>5. HandlersHoldOne' /\ OwnedExist'
        BY <2>2, <2>3, <2>4 DEF OInv, HandlersHoldOne, OwnedExist
    <2>6. EntriesDiffer'
        BY <2>2, <2>3, <2>4 DEF OInv, EntriesDiffer
    <2>7. HandlersDiffer'
        BY <2>2, <2>3, <2>4 DEF OInv, HandlersDiffer
    <2> QED BY <1>0, <2>5, <2>6, <2>7 DEF OInv
<1>15. ASSUME NEW t \in Threads, Store(t) PROVE OInv'
    <2> DEFINE stored == {[key |-> key[t], flow |-> f, meter |-> m,
                           until |-> Until(t)] : f \in placed[t], m \in meter[t]}
    <2>1. \A r, s \in stored : r.meter \in meter[t] /\ r = s
        BY DEF OInv, HandlersHoldOne
    <2>2. /\ \A r \in limits' : r \in limits \/ r \in stored
          /\ doomed' = doomed /\ meters' = meters
          /\ meter'[t] = {} /\ placed'[t] = {}
          /\ \A u \in Threads : u # t =>
                meter'[u] = meter[u] /\ placed'[u] = placed[u] /\ pc'[u] = pc[u]
        BY <1>0, <1>15 DEF Store, LimitsOf, TypeOK
    <2> HIDE DEF stored
    <2>3. HandlersHoldOne' /\ OwnedExist'
        BY <2>1, <2>2 DEF OInv, HandlersHoldOne, OwnedExist
    <2>4. EntriesDiffer'
        BY <2>1, <2>2 DEF OInv, EntriesDiffer, HandlersDiffer
    <2>5. HandlersDiffer'
        BY <2>1, <2>2 DEF OInv, HandlersDiffer
    <2> QED BY <1>0, <2>3, <2>4, <2>5 DEF OInv
<1>16. CASE RuleTimesOut
    BY <1>0, <1>16, NothingMoves DEF RuleTimesOut, work, OInv, HandlersHoldOne
<1>17. CASE Tick
    BY <1>0, <1>17, NothingMoves DEF Tick, work, OInv, HandlersHoldOne
<1>18. CASE UNCHANGED vars
    BY <1>0, <1>18, NothingMoves DEF vars, work, OInv, HandlersHoldOne
<1> QED
    BY <1>1, <1>2, <1>3, <1>4, <1>5, <1>6, <1>7, <1>8, <1>9, <1>10, <1>11,
       <1>12, <1>13, <1>14, <1>15, <1>16, <1>17, <1>18 DEF Next, Step

LEMMA OInvImplies == OInv => DeletionIsOwn
BY DEF OInv, EntriesDiffer, HandlersDiffer, DeletionIsOwn

\* A handler only ever deletes meters nobody else has, whatever the requests,
\* their interleaving and the failures of ONOS.
THEOREM DeletionIsOwnHolds == Spec => []DeletionIsOwn
BY OInvInit, OInvStep, OInvImplies, PTL DEF Spec

-----------------------------------------------------------------------------
(***************************************************************************)
(* A flow goes before its meter                                            *)
(***************************************************************************)
\* The flows in ONOS that send traffic to a meter are the one its owner knows;
\* none is left when the owner is a deletion that has come to the meter.
FlowsFollow ==
    \A r \in rules :
        /\ r.meter \in meters
        /\ \A e \in limits : e.meter = r.meter => e.flow = r.flow
        /\ \A t \in Threads : \A d \in doomed[t] :
              d.meter = r.meter => d.stage = "flow" /\ d.flow = r.flow
        /\ \A t \in Threads :
              r.meter \in meter[t] => pc[t] = "storing" /\ r.flow \in placed[t]

FInv == OInv /\ FlowsFollow

\* Steps that put in no flow and take out no meter, and leave the owners alone.
LEMMA FlowsStay ==
    ASSUME FlowsFollow, rules' \subseteq rules, meters \subseteq meters',
           limits' = limits, doomed' = doomed,
           \A t \in Threads : meter[t] # {} => pc'[t] = pc[t],
           \A t \in Threads : meter'[t] = meter[t],
           \A t \in Threads : meter[t] # {} => placed'[t] = placed[t]
    PROVE  FlowsFollow'
BY DEF FlowsFollow

LEMMA FInvStep ==
    ASSUME ~OnosFails
    PROVE  FInv /\ [Next]_vars => FInv'
<1> SUFFICES ASSUME FInv, [Next]_vars PROVE FlowsFollow'
    BY OInvStep DEF FInv
<1>0. TypeOK /\ OInv /\ FlowsFollow
    BY DEF FInv, OInv
<1>a. ASSUME NEW t \in Threads, pc[t] \notin {"installing", "storing"}
      PROVE  meter[t] = {}
    BY <1>a, <1>0 DEF OInv, HandlersHoldOne
<1> USE DEF Go
<1>1. ASSUME NEW t \in Threads, NEW what \in Kind, NEW k \in Key,
             Request(t, what, k)
      PROVE  FlowsFollow'
    BY <1>0, <1>1, <1>a, FlowsStay DEF Request, work, TypeOK
<1>b. ASSUME NEW t \in Threads, NEW gone \in SUBSET limits,
             limits' = limits \ gone,
             doomed' = [doomed EXCEPT ![t] = {Doom(r) : r \in gone}],
             rules' = rules, meters' = meters, meter' = meter, placed' = placed,
             meter[t] = {}, \A u \in Threads : u # t => pc'[u] = pc[u]
      PROVE  FlowsFollow'
    <2>1. \A d \in doomed'[t] : \E r \in gone :
             d.meter = r.meter /\ d.flow = r.flow /\ d.stage = "flow"
        BY <1>0, <1>b, DoomFact DEF TypeOK
    <2>2. \A u \in Threads : u # t => doomed'[u] = doomed[u]
        BY <1>0, <1>b DEF TypeOK
    <2> QED BY <1>0, <1>b, <2>1, <2>2 DEF FlowsFollow
<1>2. ASSUME NEW t \in Threads, Purge(t) PROVE FlowsFollow'
    <2> DEFINE expired == {r \in limits : r.until <= clock}
    <2>1. meter[t] = {}
        BY <1>2, <1>a DEF Purge
    <2>2. /\ limits' = limits \ expired /\ rules' = rules
          /\ doomed' = [doomed EXCEPT ![t] = {Doom(r) : r \in expired}]
          /\ meter' = meter /\ meters' = meters /\ placed' = placed
          /\ \A u \in Threads : u # t => pc'[u] = pc[u]
        BY <1>0, <1>2 DEF Purge, work, TypeOK
    <2> QED BY <1>b, <2>1, <2>2
<1>3. ASSUME NEW t \in Threads, DeleteFlow(t) PROVE FlowsFollow'
    <2>1. PICK d \in doomed[t] :
             /\ rules' = {r \in rules : r.flow # d.flow}
             /\ doomed' = [doomed EXCEPT ![t] =
                             (@ \ {d}) \cup {[d EXCEPT !.stage = "meter"]}]
        BY <1>3 DEF DeleteFlow
    <2> DEFINE c == [d EXCEPT !.stage = "meter"]
    <2>2. c.meter = d.meter
        BY <1>0 DEF TypeOK, Deletion
    <2>3. /\ doomed'[t] = (doomed[t] \ {d}) \cup {c}
          /\ \A u \in Threads : u # t => doomed'[u] = doomed[u]
        BY <1>0, <2>1 DEF TypeOK
    <2> HIDE DEF c
    <2>4. /\ limits' = limits /\ meters' = meters /\ meter' = meter
          /\ placed' = placed /\ pc' = pc
        BY <1>3 DEF DeleteFlow, work
    <2>5. \A r \in rules' : r \in rules /\ r.meter # d.meter
        BY <1>0, <2>1 DEF FlowsFollow
    <2> QED BY <1>0, <2>2, <2>3, <2>4, <2>5 DEF FlowsFollow
<1>4. ASSUME NEW t \in Threads, DeleteMeter(t) PROVE FlowsFollow'
    <2>1. PICK d \in doomed[t] :
             /\ d.stage = "meter" /\ meters' = meters \ {d.meter}
             /\ doomed' = [doomed EXCEPT ![t] = @ \ {d}]
        BY <1>4 DEF DeleteMeter
    <2>2. \A u \in Threads : doomed'[u] \subseteq doomed[u]
        BY <1>0, <2>1 DEF TypeOK
    <2>3. /\ limits' = limits /\ rules' = rules /\ meter' = meter
          /\ placed' = placed /\ pc' = pc
        BY <1>4 DEF DeleteMeter, work
    <2>4. \A r \in rules : r.meter # d.meter
        BY <1>0, <2>1 DEF FlowsFollow
    <2> QED BY <1>0, <2>1, <2>2, <2>3, <2>4 DEF FlowsFollow
<1>5. ASSUME NEW t \in Threads, Resolved(t) PROVE FlowsFollow'
    BY <1>0, <1>5, <1>a, FlowsStay DEF Resolved, work, TypeOK
<1>6. ASSUME NEW t \in Threads, Remove(t) PROVE FlowsFollow'
    <2>1. meter[t] = {}
        BY <1>6, <1>a DEF Remove
    <2>2. /\ limits' = limits \ LimitsOf(key[t]) /\ rules' = rules
          /\ LimitsOf(key[t]) \in SUBSET limits
          /\ doomed' = [doomed EXCEPT ![t] = {Doom(r) : r \in LimitsOf(key[t])}]
          /\ meter' = meter /\ meters' = meters /\ placed' = placed
          /\ \A u \in Threads : u # t => pc'[u] = pc[u]
        BY <1>0, <1>6 DEF Remove, LimitsOf, work, TypeOK
    <2> QED BY <1>b, <2>1, <2>2
<1>7. ASSUME NEW t \in Threads, Listed(t) PROVE FlowsFollow'
    BY <1>0, <1>7, <1>a, FlowsStay DEF Listed, work, TypeOK
<1>8. ASSUME NEW t \in Threads, End(t) PROVE FlowsFollow'
    <2>1. meter[t] = {}
        BY <1>8, <1>a DEF End
    <2> QED BY <1>0, <1>8, <2>1, FlowsStay DEF End, TypeOK
<1>9. ASSUME NEW t \in Threads, AlreadyActive(t) PROVE FlowsFollow'
    BY <1>0, <1>9, <1>a, FlowsStay DEF AlreadyActive, work, TypeOK
<1>10. ASSUME NEW t \in Threads, Look(t) PROVE FlowsFollow'
    BY <1>0, <1>10, <1>a, FlowsStay DEF Look, TypeOK
<1>11. ASSUME NEW t \in Threads, CreateMeter(t) PROVE FlowsFollow'
    <2>1. PICK m \in Meters \ meters :
             meters' = meters \cup {m} /\ meter' = [meter EXCEPT ![t] = {m}]
        BY <1>11 DEF CreateMeter
    <2>2. /\ meter'[t] = {m} /\ rules' = rules
          /\ \A u \in Threads : u # t => meter'[u] = meter[u] /\ pc'[u] = pc[u]
          /\ limits' = limits /\ doomed' = doomed /\ placed' = placed
        BY <1>0, <1>11, <2>1 DEF CreateMeter, TypeOK
    <2>3. \A r \in rules : r.meter # m
        BY <1>0, <2>1 DEF FlowsFollow
    <2> QED BY <1>0, <2>1, <2>2, <2>3 DEF FlowsFollow
<1>12. ASSUME NEW t \in Threads, MeterRefused(t) PROVE FlowsFollow'
    BY <1>0, <1>12, <1>a, FlowsStay DEF MeterRefused, work, TypeOK
<1>13. ASSUME NEW t \in Threads, InstallFlow(t) PROVE FlowsFollow'
    <2>1. PICK f \in Flow, m \in meter[t] :
             Put(f, m) /\ placed' = [placed EXCEPT ![t] = {f}]
        BY <1>0, <1>13 DEF InstallFlow, TypeOK, Flow, Key
    <2>2. \A r \in rules' : (r \in rules \/ (r.flow = f /\ r.meter = m))
        BY <1>0, <2>1, PutFact DEF TypeOK
    <2>3. /\ limits' = limits /\ meters' = meters /\ meter' = meter
          /\ doomed' = doomed /\ pc'[t] = "storing" /\ placed'[t] = {f}
          /\ \A u \in Threads : u # t => pc'[u] = pc[u] /\ placed'[u] = placed[u]
        BY <1>0, <1>13, <2>1 DEF InstallFlow, TypeOK
    <2>4. pc[t] = "installing"
        BY <1>13 DEF InstallFlow
    <2>5. ASSUME NEW r \in rules, r \in rules'
          PROVE  /\ r.meter \in meters'
                 /\ \A e \in limits' : e.meter = r.meter => e.flow = r.flow
                 /\ \A u \in Threads : \A d \in doomed'[u] :
                      d.meter = r.meter => d.stage = "flow" /\ d.flow = r.flow
                 /\ \A u \in Threads :
                      r.meter \in meter'[u] => pc'[u] = "storing" /\ r.flow \in placed'[u]
        BY <1>0, <2>3, <2>4 DEF FlowsFollow
    <2>6. ASSUME NEW r \in rules', r.flow = f, r.meter = m
          PROVE  /\ r.meter \in meters'
                 /\ \A e \in limits' : e.meter # r.meter
                 /\ \A u \in Threads : \A d \in doomed'[u] : d.meter # r.meter
                 /\ \A u \in Threads :
                      r.meter \in meter'[u] => pc'[u] = "storing" /\ r.flow \in placed'[u]
        BY <1>0, <2>1, <2>3, <2>6
        DEF OInv, OwnedExist, EntriesDiffer, HandlersDiffer
    <2> QED BY <2>2, <2>5, <2>6 DEF FlowsFollow
<1>14. ASSUME NEW t \in Threads, InstallFails(t) PROVE FlowsFollow'
    BY <1>14 DEF InstallFails
<1>15. ASSUME NEW t \in Threads, Store(t) PROVE FlowsFollow'
    <2> DEFINE stored == {[key |-> key[t], flow |-> f, meter |-> m,
                           until |-> Until(t)] : f \in placed[t], m \in meter[t]}
    <2>1. \A e \in stored : e.meter \in meter[t] /\ placed[t] = {e.flow}
        BY <1>0 DEF OInv, HandlersHoldOne
    <2>2. /\ \A e \in limits' : e \in limits \/ e \in stored
          /\ rules' = rules /\ doomed' = doomed /\ meters' = meters
          /\ meter'[t] = {}
          /\ \A u \in Threads : u # t =>
                meter'[u] = meter[u] /\ placed'[u] = placed[u] /\ pc'[u] = pc[u]
        BY <1>0, <1>15 DEF Store, LimitsOf, TypeOK
    <2> HIDE DEF stored
    <2>3. \A r \in rules, e \in limits' : e.meter = r.meter => e.flow = r.flow
        BY <1>0, <2>1, <2>2 DEF FlowsFollow
    <2> QED BY <1>0, <2>2, <2>3 DEF FlowsFollow
<1>16. CASE RuleTimesOut
    BY <1>0, <1>16, FlowsStay DEF RuleTimesOut, work
<1>17. CASE Tick
    BY <1>0, <1>17, FlowsStay DEF Tick, work
<1>18. CASE UNCHANGED vars
    BY <1>0, <1>18, FlowsStay DEF vars, work
<1> QED
    BY <1>1, <1>2, <1>3, <1>4, <1>5, <1>6, <1>7, <1>8, <1>9, <1>10, <1>11,
       <1>12, <1>13, <1>14, <1>15, <1>16, <1>17, <1>18 DEF Next, Step

LEMMA FInvInit == Init => FInv
BY OInvInit DEF Init, FInv, FlowsFollow

\* While ONOS carries out what it is asked, no flow is left with a meter that has
\* been deleted, however the handlers of alerts and removals interleave.
THEOREM NoDanglingFlowHolds ==
    ASSUME ~OnosFails
    PROVE  Spec => []NoDanglingFlow
<1>1. FInv => NoDanglingFlow
    BY DEF FInv, FlowsFollow, NoDanglingFlow
<1>2. FInv /\ [Next]_vars => FInv'
    BY FInvStep
<1> QED BY <1>1, <1>2, FInvInit, PTL DEF Spec

-----------------------------------------------------------------------------
(***************************************************************************)
(* A limit that is listed is in force                                      *)
(***************************************************************************)
\* ONOS has the flow, and keeps it that long.
InForce(flow, m, until) ==
    \E f \in rules : f.flow = flow /\ f.meter = m /\ f.until >= until

Making == {"creating", "installing", "storing"}

\* A port has one entry, in force for as long as it has not expired.
EntriesInForce ==
    /\ \A r, s \in limits : r.key = s.key => r = s
    /\ \A r \in limits :
          /\ r.flow[1] = r.key[1]
          /\ r.until > clock => InForce(r.flow, r.meter, r.until)

\* A flow that is still to be deleted is not one of a port that has an entry.
DeletedGone ==
    \A t \in Threads : \A d \in doomed[t] :
        d.stage = "flow" => \A r \in limits : r.flow[1] # d.flow[1]

\* While a handler makes a limit its port has none that has not expired; what it has
\* installed will be in force for as long as the entry says.
MakersReady ==
    \A t \in Threads :
        /\ pc[t] \in Making =>
              /\ doomed[t] = {} /\ now[t] <= clock
              /\ \A r \in LimitsOf(key[t]) : r.until <= clock
        /\ placed[t] # {} => pc[t] = "storing"
        /\ \A f \in placed[t], m \in meter[t] :
              /\ f[1] = key[t][1]
              /\ now[t] + Ttl > clock => InForce(f, m, now[t] + Ttl)

ForceInv == OInv /\ EntriesInForce /\ DeletedGone /\ MakersReady

\* The deletions of entries that have just been taken out.
LEMMA ForceTakeOut ==
    ASSUME ForceInv, OInv', NEW t \in Threads, \A u \in Threads : u = t,
           \A a, b \in Alerts : a = b, NEW gone \in SUBSET limits,
           limits' = limits \ gone,
           doomed' = [doomed EXCEPT ![t] = {Doom(r) : r \in gone}],
           rules' = rules, clock' = clock, placed' = placed,
           pc[t] \notin Making, pc'[t] \notin Making
    PROVE  ForceInv'
<1>1. TypeOK /\ EntriesInForce /\ placed[t] = {}
    BY DEF ForceInv, OInv, MakersReady, Making
<1>2. EntriesInForce'
    BY <1>1 DEF EntriesInForce, InForce
<1>3. DeletedGone'
    <2> SUFFICES ASSUME NEW d \in doomed'[t], NEW r \in limits' PROVE r.flow[1] # d.flow[1]
        BY DEF DeletedGone
    <2>1. PICK q \in gone : d.flow = q.flow
        BY <1>1, DoomFact DEF TypeOK
    <2>2. r \in limits /\ r # q /\ r.key \in Key /\ q.key \in Key
        BY <1>1 DEF TypeOK, Limit
    <2>3. r.flow[1] = r.key[1] /\ q.flow[1] = q.key[1] /\ r.key # q.key
        BY <1>1, <2>2 DEF EntriesInForce
    <2>4. r.key[1] # q.key[1]
        BY <2>2, <2>3 DEF Key
    <2> QED BY <2>1, <2>3, <2>4
<1>4. MakersReady'
    BY <1>1 DEF MakersReady, Making
<1> QED BY <1>2, <1>3, <1>4 DEF ForceInv

\* A step that makes nothing and leaves entries and flows.
LEMMA ForceKept ==
    ASSUME ForceInv, OInv', NEW t \in Threads, \A u \in Threads : u = t,
           limits' = limits, rules' = rules, clock' = clock,
           \A d \in doomed'[t] : d.stage = "flow" => d \in doomed[t],
           placed'[t] = {}, pc'[t] \notin Making
    PROVE  ForceInv'
<1>1. EntriesInForce'
    BY DEF ForceInv, EntriesInForce, InForce
<1>2. DeletedGone'
    BY DEF ForceInv, DeletedGone
<1>3. MakersReady'
    BY DEF MakersReady
<1> QED BY <1>1, <1>2, <1>3 DEF ForceInv

\* A flow that is put in takes the place only of one of the same port, which has no
\* entry that has not expired.
LEMMA ForcePut ==
    ASSUME ForceInv, NEW t \in Threads, \A a, b \in Alerts : a = b, pc[t] \in Making,
           NEW f \in Flow, f[1] = key[t][1], NEW m \in Meters, Put(f, m),
           limits' = limits, clock' = clock
    PROVE  EntriesInForce' /\ InForce(f, m, clock + Ttl)'
<1>1. TypeOK /\ EntriesInForce /\ \A r \in LimitsOf(key[t]) : r.until <= clock
    BY DEF ForceInv, OInv, MakersReady
<1>2. ASSUME NEW r \in limits, r.until > clock
      PROVE  InForce(r.flow, r.meter, r.until)'
    <2>1. r.key \in Key /\ key[t] \in Key /\ r.until \in Nat /\ clock \in Nat
        BY <1>1 DEF TypeOK, Limit
    <2>2. r.key # key[t]
        BY <1>1, <1>2, <2>1 DEF LimitsOf
    <2>3. r.key[1] # key[t][1]
        BY <2>1, <2>2 DEF Key
    <2>4. r.flow # f /\ InForce(r.flow, r.meter, r.until)
        BY <1>1, <1>2, <2>3 DEF EntriesInForce
    <2> QED BY <2>4 DEF InForce, Put
<1>3. EntriesInForce'
    BY <1>1, <1>2 DEF EntriesInForce
<1>4. InForce(f, m, clock + Ttl)'
    <2> DEFINE new == [flow |-> f, meter |-> m, until |-> clock + Ttl]
    <2>1. new \in rules' /\ new.flow = f /\ new.meter = m /\ new.until = clock + Ttl
        BY DEF Put
    <2>2. clock + Ttl \in Nat
        BY <1>1, ConstantsAssumption DEF TypeOK
    <2> HIDE DEF new
    <2> QED BY <2>1, <2>2 DEF InForce
<1> QED BY <1>3, <1>4

LEMMA ForceStep ==
    ASSUME \A t, u \in Threads : t = u, \A a, b \in Alerts : a = b, ForceInv, [Next]_vars
    PROVE  ForceInv'
<1>0. OInv /\ OInv' /\ TypeOK /\ TypeOK'
    BY OInvStep, TypeStep DEF ForceInv, OInv
<1>a. ASSUME NEW t \in Threads, pc[t] # "storing" PROVE placed[t] = {}
    BY <1>a DEF ForceInv, MakersReady
<1> USE DEF Go
<1>1. ASSUME NEW t \in Threads, NEW what \in Kind, NEW k \in Key, Request(t, what, k)
      PROVE  ForceInv'
    BY <1>0, <1>1, <1>a, ForceKept DEF Request, work, TypeOK, Making
<1>2. ASSUME NEW t \in Threads, Purge(t) PROVE ForceInv'
    <2> DEFINE expired == {r \in limits : r.until <= clock}
    <2>1. /\ limits' = limits \ expired /\ expired \in SUBSET limits
          /\ doomed' = [doomed EXCEPT ![t] = {Doom(r) : r \in expired}]
          /\ rules' = rules /\ clock' = clock /\ placed' = placed
          /\ pc[t] \notin Making /\ pc'[t] \notin Making
        BY <1>0, <1>2 DEF Purge, work, TypeOK, Making
    <2> HIDE DEF expired
    <2> QED BY <1>0, <2>1, ForceTakeOut
<1>3. ASSUME NEW t \in Threads, DeleteFlow(t) PROVE ForceInv'
    <2>1. PICK d \in doomed[t] :
             /\ d.stage = "flow"
             /\ rules' = {r \in rules : r.flow # d.flow} \/ rules' = rules
             /\ doomed' = [doomed EXCEPT ![t] =
                             (@ \ {d}) \cup {[d EXCEPT !.stage = "meter"]}]
        BY <1>3 DEF DeleteFlow
    <2>2. /\ [d EXCEPT !.stage = "meter"].stage = "meter"
          /\ pc' = pc /\ limits' = limits /\ clock' = clock /\ placed' = placed
        BY <1>0, <1>3 DEF DeleteFlow, work, TypeOK, Deletion
    <2>3. \A c \in doomed'[t] : c.stage = "flow" => c \in doomed[t]
        BY <1>0, <2>1, <2>2 DEF TypeOK
    <2>4. pc[t] \notin Making /\ placed[t] = {}
        BY <2>1, <1>a DEF ForceInv, MakersReady, Making
    <2>5. \A r \in limits : r.flow # d.flow
        BY <2>1 DEF ForceInv, DeletedGone
    <2>6. EntriesInForce'
        BY <2>1, <2>2, <2>5 DEF ForceInv, EntriesInForce, InForce
    <2>7. DeletedGone'
        BY <2>2, <2>3 DEF ForceInv, DeletedGone
    <2>8. MakersReady'
        BY <2>2, <2>4 DEF MakersReady
    <2> QED BY <1>0, <2>6, <2>7, <2>8 DEF ForceInv
<1>4. ASSUME NEW t \in Threads, DeleteMeter(t) PROVE ForceInv'
    <2>1. doomed[t] # {} /\ doomed'[t] \subseteq doomed[t]
        BY <1>0, <1>4 DEF DeleteMeter, TypeOK
    <2>2. pc[t] \notin Making /\ placed[t] = {}
        BY <2>1, <1>a DEF ForceInv, MakersReady, Making
    <2> QED BY <1>0, <1>4, <2>1, <2>2, ForceKept DEF DeleteMeter, work
<1>5. ASSUME NEW t \in Threads, Resolved(t) PROVE ForceInv'
    BY <1>0, <1>5, <1>a, ForceKept DEF Resolved, work, TypeOK, Making
<1>6. ASSUME NEW t \in Threads, Remove(t) PROVE ForceInv'
    <2>1. /\ limits' = limits \ LimitsOf(key[t])
          /\ LimitsOf(key[t]) \in SUBSET limits
          /\ doomed' = [doomed EXCEPT ![t] = {Doom(r) : r \in LimitsOf(key[t])}]
          /\ rules' = rules /\ clock' = clock /\ placed' = placed
          /\ pc[t] \notin Making /\ pc'[t] \notin Making
        BY <1>0, <1>6 DEF Remove, LimitsOf, work, TypeOK, Making
    <2> QED BY <1>0, <2>1, ForceTakeOut
<1>7. ASSUME NEW t \in Threads, Listed(t) PROVE ForceInv'
    BY <1>0, <1>7, <1>a, ForceKept DEF Listed, work, TypeOK, Making
<1>8. ASSUME NEW t \in Threads, End(t) PROVE ForceInv'
    BY <1>0, <1>8, ForceKept DEF End, TypeOK, Making
<1>9. ASSUME NEW t \in Threads, AlreadyActive(t) PROVE ForceInv'
    BY <1>0, <1>9, <1>a, ForceKept DEF AlreadyActive, work, TypeOK, Making
<1>10. ASSUME NEW t \in Threads, Look(t) PROVE ForceInv'
    <2>1. /\ doomed' = doomed /\ doomed[t] = {} /\ now'[t] = clock /\ key' = key
          /\ limits' = limits /\ rules' = rules /\ clock' = clock
          /\ \A r \in LimitsOf(key[t]) : r.until <= clock
          /\ placed'[t] = {}
        BY <1>0, <1>10, <1>a DEF Look, TypeOK, Drained, request
    <2>2. EntriesInForce' /\ DeletedGone'
        BY <2>1 DEF ForceInv, EntriesInForce, InForce, DeletedGone
    <2>3. MakersReady'
        BY <1>0, <2>1 DEF MakersReady, LimitsOf, TypeOK
    <2> QED BY <1>0, <2>2, <2>3 DEF ForceInv
<1>b. ASSUME NEW t \in Threads, pc[t] \in Making, UNCHANGED <<limits, clock, now, key>>,
             doomed' = doomed, EntriesInForce',
             pc'[t] = "storing" \/ placed'[t] = {},
             \A f \in placed'[t], m \in meter'[t] :
                /\ f[1] = key[t][1]
                /\ now[t] + Ttl > clock => InForce(f, m, now[t] + Ttl)'
      PROVE  ForceInv'
    <2>1. DeletedGone'
        BY <1>b DEF ForceInv, DeletedGone
    <2>2. MakersReady'
        <3> SUFFICES ASSUME NEW u \in Threads
                     PROVE  /\ pc'[u] \in Making =>
                                 /\ doomed'[u] = {} /\ now'[u] <= clock'
                                 /\ \A r \in LimitsOf(key[u])' : r.until <= clock'
                            /\ placed'[u] # {} => pc'[u] = "storing"
                            /\ \A f \in placed'[u], m \in meter'[u] :
                                 /\ f[1] = key'[u][1]
                                 /\ now'[u] + Ttl > clock' =>
                                       InForce(f, m, now[u] + Ttl)'
            BY DEF MakersReady
        <3>1. u = t
            OBVIOUS
        <3>2. LimitsOf(key[u])' = LimitsOf(key[u])
            BY <1>b DEF LimitsOf
        <3>3. doomed[u] = {} /\ now[u] <= clock /\ \A r \in LimitsOf(key[u]) : r.until <= clock
            BY <1>b, <3>1 DEF ForceInv, MakersReady
        <3>4. \A f, m : InForce(f, m, now[u] + Ttl)' <=>
                 \E r \in rules' : r.flow = f /\ r.meter = m /\ r.until >= now[u] + Ttl
            BY <1>b DEF InForce
        <3> QED BY <1>b, <3>1, <3>2, <3>3, <3>4 DEF InForce
    <2> QED BY <1>0, <1>b, <2>1, <2>2 DEF ForceInv
<1>11. ASSUME NEW t \in Threads, CreateMeter(t) PROVE ForceInv'
    <2>1. EntriesInForce'
        BY <1>11 DEF CreateMeter, ForceInv, EntriesInForce, InForce
    <2> QED BY <1>0, <1>11, <1>a, <1>b, <2>1 DEF CreateMeter, request, Making
<1>12. ASSUME NEW t \in Threads, MeterRefused(t) PROVE ForceInv'
    BY <1>0, <1>12, <1>a, ForceKept DEF MeterRefused, work, TypeOK, Making
<1>13. ASSUME NEW t \in Threads, InstallFlow(t) PROVE ForceInv'
    <2> DEFINE Port == key[t][1]
    <2>p. PICK target \in Targets, m \in meter[t] :
             /\ Put(<<Port, target>>, m)
             /\ placed' = [placed EXCEPT ![t] = {<<Port, target>>}]
        BY <1>13 DEF InstallFlow
    <2>q. PICK f : f = <<Port, target>>
        OBVIOUS
    <2>r. Port \in Ports
        BY <1>0 DEF TypeOK, Key
    <2>1. /\ Put(f, m) /\ placed' = [placed EXCEPT ![t] = {f}]
          /\ f \in Flow /\ f[1] = key[t][1] /\ m \in meter[t]
        BY <2>p, <2>q, <2>r DEF Flow
    <2>2. /\ pc[t] = "installing" /\ pc'[t] = "storing" /\ placed'[t] = {f}
          /\ meter' = meter /\ m \in Meters /\ \A n \in meter[t] : n = m
          /\ limits' = limits /\ clock' = clock /\ doomed' = doomed
          /\ UNCHANGED <<limits, clock, now, key>>
        BY <1>0, <1>13, <2>1 DEF InstallFlow, TypeOK, request, OInv, HandlersHoldOne
    <2>3. EntriesInForce' /\ InForce(f, m, clock + Ttl)'
        BY <2>1, <2>2, ForcePut DEF Making
    <2>4. now[t] <= clock /\ now[t] \in Nat /\ clock \in Nat
        BY <1>0, <2>2 DEF ForceInv, MakersReady, Making, TypeOK
    <2>5. \E r \in rules' : r.flow = f /\ r.meter = m /\ r.until >= now[t] + Ttl
        <3>1. PICK r \in rules' : r.flow = f /\ r.meter = m /\ r.until >= clock + Ttl
            BY <2>2, <2>3 DEF InForce
        <3>2. r.until \in Nat
            BY <1>0 DEF TypeOK, Rule
        <3> QED BY <2>4, <3>1, <3>2, ConstantsAssumption
    <2>6. InForce(f, m, now[t] + Ttl)'
        BY <2>2, <2>5 DEF InForce
    <2> QED BY <1>b, <2>1, <2>2, <2>3, <2>6 DEF Making
<1>14. ASSUME NEW t \in Threads, InstallFails(t) PROVE ForceInv'
    <2> DEFINE Port == key[t][1]
    <2>p. PICK target \in Targets, m \in meter[t] :
             /\ (rules' = rules \/ Put(<<Port, target>>, m))
             /\ doomed' = [doomed EXCEPT ![t] =
                    {[flow |-> <<Port, target>>, meter |-> m, stage |-> "meter"]}]
        BY <1>14 DEF InstallFails
    <2>q. PICK f : f = <<Port, target>>
        OBVIOUS
    <2>r. Port \in Ports
        BY <1>0 DEF TypeOK, Key
    <2>1. /\ f \in Flow /\ f[1] = key[t][1] /\ m \in meter[t]
          /\ (rules' = rules \/ Put(f, m))
          /\ doomed' = [doomed EXCEPT ![t] =
                 {[flow |-> f, meter |-> m, stage |-> "meter"]}]
        BY <2>p, <2>q, <2>r DEF Flow
    <2>2. /\ pc[t] = "installing" /\ pc'[t] = "ending" /\ placed'[t] = {}
          /\ limits' = limits /\ clock' = clock /\ m \in Meters
          /\ \A d \in doomed'[t] : d.stage = "meter"
        BY <1>0, <1>14, <2>1, <1>a DEF InstallFails, TypeOK
    <2>3. EntriesInForce'
        <3>1. CASE rules' = rules
            BY <2>2, <3>1 DEF ForceInv, EntriesInForce, InForce
        <3>2. CASE Put(f, m)
            BY <2>1, <2>2, <3>2, ForcePut DEF Making
        <3> QED BY <2>1, <3>1, <3>2
    <2>4. DeletedGone' /\ MakersReady'
        BY <2>2 DEF DeletedGone, MakersReady, Making
    <2> QED BY <1>0, <2>3, <2>4 DEF ForceInv
<1>15. ASSUME NEW t \in Threads, Store(t) PROVE ForceInv'
    <2> DEFINE Entry(f, m) == [key |-> key[t], flow |-> f, meter |-> m,
                               until |-> now[t] + Ttl]
    <2>1. /\ limits' = (limits \ LimitsOf(key[t]))
                         \cup {Entry(f, m) : f \in placed[t], m \in meter[t]}
          /\ pc[t] = "storing" /\ pc'[t] = "ending" /\ placed'[t] = {}
          /\ doomed' = doomed /\ rules' = rules /\ clock' = clock
        BY <1>0, <1>15 DEF Store, Until, TypeOK
    <2>2. doomed[t] = {} /\ EntriesInForce
        BY <2>1 DEF ForceInv, MakersReady, Making
    <2>3. /\ \A f, g \in placed[t] : f = g
          /\ \A m, n \in meter[t] : m = n
        BY <1>0 DEF OInv, HandlersHoldOne
    <2>4. \A f, m : /\ Entry(f, m).key = key[t] /\ Entry(f, m).flow = f
                    /\ Entry(f, m).meter = m /\ Entry(f, m).until = now[t] + Ttl
        OBVIOUS
    <2> HIDE DEF Entry
    <2>5. \A r, s \in limits' : r.key = s.key => r = s
        BY <2>1, <2>2, <2>3, <2>4 DEF EntriesInForce, LimitsOf
    <2>6. \A r \in limits' :
             /\ r.flow[1] = r.key[1]
             /\ r.until > clock => InForce(r.flow, r.meter, r.until)
        <3> SUFFICES ASSUME NEW r \in limits'
                     PROVE  /\ r.flow[1] = r.key[1]
                            /\ r.until > clock => InForce(r.flow, r.meter, r.until)
            OBVIOUS
        <3>1. CASE r \in limits
            BY <2>2, <3>1 DEF EntriesInForce
        <3>2. CASE \E f \in placed[t], m \in meter[t] : r = Entry(f, m)
            <4>1. PICK f \in placed[t], m \in meter[t] : r = Entry(f, m)
                BY <3>2
            <4>2. /\ f[1] = key[t][1]
                  /\ now[t] + Ttl > clock => InForce(f, m, now[t] + Ttl)
                BY DEF ForceInv, MakersReady
            <4> QED BY <2>4, <4>1, <4>2
        <3> QED BY <2>1, <3>1, <3>2
    <2>7. EntriesInForce'
        BY <2>1, <2>5, <2>6 DEF EntriesInForce, InForce
    <2>8. DeletedGone' /\ MakersReady'
        BY <2>1, <2>2 DEF DeletedGone, MakersReady, Making
    <2> QED BY <1>0, <2>7, <2>8 DEF ForceInv
<1>16. CASE RuleTimesOut
    <2>1. /\ \A r \in rules : r.until > clock => r \in rules'
          /\ UNCHANGED <<limits, clock, doomed, pc, now, key, placed, meter>>
        BY <1>0, <1>16 DEF RuleTimesOut, work, request, TypeOK, Rule
    <2>2. \A f, m : \A u \in Nat : u > clock /\ InForce(f, m, u) => InForce(f, m, u)'
        <3> SUFFICES ASSUME NEW f, NEW m, NEW u \in Nat, u > clock, InForce(f, m, u)
                     PROVE  \E r \in rules' : r.flow = f /\ r.meter = m /\ r.until >= u
            BY DEF InForce
        <3>1. PICK r \in rules : r.flow = f /\ r.meter = m /\ r.until >= u
            BY DEF InForce
        <3>2. r.until \in Nat /\ clock \in Nat
            BY <1>0 DEF TypeOK, Rule
        <3> QED BY <2>1, <3>1, <3>2
    <2>3. EntriesInForce'
        BY <1>0, <2>1, <2>2 DEF ForceInv, EntriesInForce, TypeOK, Limit
    <2>4. DeletedGone'
        BY <2>1 DEF ForceInv, DeletedGone
    <2>5. MakersReady'
        <3> SUFFICES ASSUME NEW t \in Threads, NEW f \in placed[t], NEW m \in meter[t],
                            now[t] + Ttl > clock
                     PROVE  \E r \in rules' :
                               r.flow = f /\ r.meter = m /\ r.until >= now[t] + Ttl
            BY <2>1 DEF ForceInv, MakersReady, LimitsOf, InForce
        <3>1. InForce(f, m, now[t] + Ttl) /\ now[t] + Ttl \in Nat
            BY <1>0, ConstantsAssumption DEF ForceInv, MakersReady, TypeOK
        <3>2. PICK r \in rules : r.flow = f /\ r.meter = m /\ r.until >= now[t] + Ttl
            BY <3>1 DEF InForce
        <3>3. r.until \in Nat /\ clock \in Nat
            BY <1>0 DEF TypeOK, Rule
        <3> QED BY <2>1, <3>1, <3>2, <3>3
    <2> QED BY <1>0, <2>3, <2>4, <2>5 DEF ForceInv
<1>17. CASE Tick
    <2>1. /\ clock' = clock + 1 /\ clock \in Nat
          /\ UNCHANGED <<limits, rules, doomed, pc, now, key, placed, meter>>
        BY <1>0, <1>17 DEF Tick, work, request, TypeOK
    <2>2. \A r \in limits : r.until \in Nat
        BY <1>0 DEF TypeOK, Limit
    <2>3. EntriesInForce' /\ DeletedGone'
        BY <2>1, <2>2 DEF ForceInv, EntriesInForce, InForce, DeletedGone
    <2>4. \A t \in Threads : now[t] \in Nat /\ now[t] + Ttl \in Nat
        BY <1>0, ConstantsAssumption DEF TypeOK
    <2>5. MakersReady'
        BY <2>1, <2>2, <2>4 DEF ForceInv, MakersReady, LimitsOf, InForce
    <2> QED BY <1>0, <2>3, <2>5 DEF ForceInv
<1>18. CASE UNCHANGED vars
    BY <1>0, <1>18 DEF vars, work, request, ForceInv, EntriesInForce, InForce, DeletedGone,
                       MakersReady, LimitsOf
<1> QED
    BY <1>1, <1>2, <1>3, <1>4, <1>5, <1>6, <1>7, <1>8, <1>9, <1>10, <1>11,
       <1>12, <1>13, <1>14, <1>15, <1>16, <1>17, <1>18 DEF Next, Step

\* With one request at a time and one alert that limits a port, what listar_rate_limits
\* calls active is in force, whatever ONOS fails to do: the entry is written after the
\* flow, and ends no later (m6_traductor.py:4449-4480).  Neither hypothesis can go: a
\* second alert of the port and target replaces the flow of the first, and a second
\* request can delete the flow that a first one has just put in.
THEOREM ListedIsInForceHolds ==
    ASSUME \A t, u \in Threads : t = u, \A a, b \in Alerts : a = b
    PROVE  Spec => []ListedIsInForce
<1>1. Init => ForceInv
    BY OInvInit DEF Init, ForceInv, EntriesInForce, DeletedGone, MakersReady, Making
<1>2. ForceInv /\ [Next]_vars => ForceInv'
    BY ForceStep
<1>3. ForceInv => ListedIsInForce
    BY DEF ForceInv, EntriesInForce, InForce, ListedIsInForce
<1> QED BY <1>1, <1>2, <1>3, PTL DEF Spec

=============================================================================
