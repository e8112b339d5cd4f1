------------------------ MODULE MonitoringTunnelProofs ------------------------
(***************************************************************************)
(* The tunnel stands, whatever the topology, the fixed route, the handlers *)
(* at work and the failures.                                               *)
(*                                                                         *)
(* While nothing is excused, a handler at work follows a way all of whose  *)
(* links carry; and there is a failure still to deal with, or a handler    *)
(* that deletes, or no way at all, or the packets get to where they are    *)
(* let out or to the switch a handler is about to look at.  A handler that *)
(* begins to look is at the source, where the packets are; with each flow  *)
(* it finds or installs they get one switch further.  A flow it replaces   *)
(* may have been on another way of theirs: then they take its own.         *)
(***************************************************************************)
EXTENDS MonitoringTunnel, TLAPS, FiniteSetTheorems

-----------------------------------------------------------------------------
(***************************************************************************)
(* The search                                                              *)
(***************************************************************************)
\* The tunnel's route is found as the paths of the sessions are, by the search of which
\* FailoverProofs tells: an instance with one session, from the source to the egress, and
\* nothing of Failover at work.
Search == INSTANCE FailoverProofs WITH
    Wires <- {}, Sessions <- {[entry |-> Source, exit |-> Egress, table |-> "T2"]},
    Handlers <- {}, Nobody <- Outside, QueueCap <- 1, DedupWindow <- 0, Limits <- {1},
    Overlap <- FALSE, Frail <- {}, Losses <- {}, Changes <- 0, Faults <- 0,
    link <- {}, told <- {}, queue <- events, posting <- Outside, shared <- {}, cached <- {},
    records <- {}, handled <- {}, cooling <- {}, seen <- {}, promised <- {},
    forgotten <- {}

LEMMA RouteApart == Source \in Switches /\ Egress \in Switches /\ Source # Egress
BY TunnelConstants DEF Source, Egress

LEMMA SearchApplies == Search!TopologyConstants /\ Search!FailoverConstants
<1>1. Search!TopologyConstants
    BY TopologyConstants DEF Search!TopologyConstants
<1>2. Search!FailoverConstants
    BY RouteApart DEF Search!FailoverConstants, Search!Links
<1> QED BY <1>1, <1>2

\* What PathIsBest says of the instance it says of the search here: the definitions are
\* the same, letter by letter.
LEMMA PathFound ==
    ASSUME NEW links
    PROVE  /\ Path(links, Source, Egress) \in Seq(Switches)
           /\ Best(links, Source, Egress, Path(links, Source, Egress))
<1>1. Search!Path(links, Source, Egress) \in Seq(Switches)
      /\ Search!Best(links, Source, Egress, Search!Path(links, Source, Egress))
    BY SearchApplies, RouteApart, Search!PathIsBest
<1>2. Search!Path(links, Source, Egress) = Path(links, Source, Egress)
    <2>1. Search!Sorted = Sorted
        BY DEF Search!Sorted, Sorted
    <2>2. \A S : Search!Members(S) = Members(S)
        BY DEF Search!Members, Members
    <2>3. \A L, d : Search!Neighbours(L, d) = Neighbours(L, d)
        BY DEF Search!Neighbours, Neighbours
    <2>4. \A L, p, v : Search!NewNeighbours(L, p, v) = NewNeighbours(L, p, v)
        BY <2>1, <2>3 DEF Search!NewNeighbours, NewNeighbours
    <2>5. \A L, d, b : Search!Expand(L, d, b) = Expand(L, d, b)
        BY <2>2, <2>4 DEF Search!Expand, Expand
    <2>6. \A L, d, b : Search!After(L, d, b) = After(L, d, b)
        BY <2>5 DEF Search!After, After
    <2>7. Search!Start(Source) = Start(Source)
        BY DEF Search!Start, Start
    <2>8. Search!Cardinality(Switches) = Cardinality(Switches)
        BY DEF Search!Cardinality, Cardinality, Search!IsFiniteSet, IsFiniteSet
    <2> DEFINE Is(g) == g = [n \in Nat |-> IF n = 0 THEN Start(Source)
                      ELSE CHOOSE a \in {After(links, Egress, b) : b \in {g[n - 1]}} : TRUE]
               Was(g) == g = [n \in Nat |-> IF n = 0 THEN Search!Start(Source)
                      ELSE CHOOSE a \in {Search!After(links, Egress, b) : b \in {g[n - 1]}} :
                              TRUE]
    <2>9. Path(links, Source, Egress) = (CHOOSE g : Is(g))[Cardinality(Switches)].found
        BY RouteApart DEF Path
    <2>10. Search!Path(links, Source, Egress)
              = (CHOOSE g : Was(g))[Search!Cardinality(Switches)].found
        BY RouteApart DEF Search!Path
    <2>11. ASSUME NEW g PROVE Is(g) <=> Was(g)
        <3>1. ASSUME NEW n \in Nat
              PROVE  (CHOOSE a \in {After(links, Egress, b) : b \in {g[n - 1]}} : TRUE)
                     = (CHOOSE a \in {Search!After(links, Egress, b) : b \in {g[n - 1]}} : TRUE)
            <4>1. {After(links, Egress, b) : b \in {g[n - 1]}}
                  = {Search!After(links, Egress, b) : b \in {g[n - 1]}}
                BY <2>6
            <4> QED BY <4>1
        <3> QED BY <2>7, <3>1
    <2> HIDE DEF Is, Was
    <2>12. (CHOOSE g : Is(g)) = (CHOOSE g : Was(g))
        BY <2>11, Zenon
    <2> QED BY <2>8, <2>9, <2>10, <2>12
<1>3. ASSUME NEW p
      PROVE  Search!Best(links, Source, Egress, p) <=> Best(links, Source, Egress, p)
    <2>1. \A q : Search!IsPath(links, q, Source, Egress) <=> IsPath(links, q, Source, Egress)
        BY DEF Search!IsPath, IsPath
    <2>2. \A n : Search!PathsOf(links, Source, Egress, n) = PathsOf(links, Source, Egress, n)
        BY <2>1 DEF Search!PathsOf, PathsOf
    <2>3. \A d : Search!Rank(d) = Rank(d)
        BY DEF Search!Rank, Rank
    <2>4. \A q, r : Search!Before(q, r) <=> Before(q, r)
        BY <2>3 DEF Search!Before, Before
    <2>5. Search!Cardinality(Switches) = Cardinality(Switches)
        BY DEF Search!Cardinality, Cardinality, Search!IsFiniteSet, IsFiniteSet
    <2> QED BY <2>1, <2>2, <2>4, <2>5 DEF Search!Best, Best
<1> QED BY <1>1, <1>2, <1>3

\* A set of numbers that has zero and the successor of each of its members has them all.
LEMMA Numbers ==
    ASSUME NEW T, 0 \in T, \A n \in Nat : n \in T => n + 1 \in T
    PROVE  Nat \subseteq T
BY SearchApplies, Search!AllNumbers

Apart(p) == \A i, k \in 1..Len(p) : p[i] = p[k] => i = k

LEMMA SwitchesFinite == IsFiniteSet(Switches) /\ Cardinality(Switches) \in Nat
<1>1. IsFiniteSet(Switches)
    BY TopologyConstants DEF TopologyConstants, IsFiniteSet
<1> QED BY <1>1, FS_CardinalityType

\* Where there is a way that visits no switch twice, the search finds one.
LEMMA FoundIfThere ==
    ASSUME NEW links, NEW p \in Seq(Switches), Apart(p), IsPath(links, p, Source, Egress)
    PROVE  Path(links, Source, Egress) # <<>>
<1>1. PICK n \in Nat : n = Len(p) /\ n > 0 /\ p \in [1..n -> Switches]
    BY DEF IsPath
<1>2. n <= Cardinality(Switches)
    <2>1. IsFiniteSet(1..n) /\ Cardinality(1..n) = n
        BY FS_Interval
    <2>2. p \in Injection(1..n, Switches)
        BY <1>1 DEF Apart, Injection, IsInjective
    <2>3. Cardinality(1..n) <= Cardinality(Switches)
        BY <2>2, SwitchesFinite, FS_Injection DEF ExistsInjection
    <2> QED BY <2>1, <2>3
<1>3. p \in PathsOf(links, Source, Egress, n)
    BY <1>1 DEF PathsOf
<1>4. n \in 1..Cardinality(Switches)
    BY <1>1, <1>2, SwitchesFinite
<1>5. Best(links, Source, Egress, Path(links, Source, Egress))
    BY PathFound
<1> QED BY <1>3, <1>4, <1>5 DEF Best

\* The way the search finds visits no switch twice: it is as short as any.
LEMMA FoundIsApart ==
    ASSUME NEW links, NEW p, p = Path(links, Source, Egress), p # <<>>
    PROVE  p \in Seq(Switches) /\ Apart(p) /\ IsPath(links, p, Source, Egress)
<1>1. p \in Seq(Switches) /\ Best(links, Source, Egress, p)
    BY PathFound
<1>2. IsPath(links, p, Source, Egress)
    BY <1>1 DEF Best
<1>3. PICK n \in Nat : n = Len(p) /\ n > 0 /\ p \in [1..n -> Switches]
    BY <1>1, <1>2 DEF IsPath
<1>4. ASSUME NEW i \in 1..n, NEW k \in 1..n, p[i] = p[k], i < k
      PROVE  FALSE
    <2>0. PICK m : m = n - (k - i)
        OBVIOUS
    <2>1. m = n - (k - i) /\ m \in 1..n - 1 /\ m \in Nat /\ i \in Int /\ k \in Int
        BY <1>3, <1>4, <2>0
    <2>2. PICK q : q = [x \in 1..m |-> IF x <= i THEN p[x] ELSE p[x + (k - i)]]
        OBVIOUS
    <2>3. q \in [1..m -> Switches]
        <3>1. \A x \in 1..m : x \in 1..n /\ (x > i => x + (k - i) \in 1..n)
            BY <1>3, <1>4, <2>1
        <3>2. ASSUME NEW x \in 1..m
              PROVE  (IF x <= i THEN p[x] ELSE p[x + (k - i)]) \in Switches
            <4>1. CASE x <= i
                BY <1>3, <3>1, <4>1
            <4>2. CASE ~(x <= i)
                <5>1. PICK y \in 1..n : y = x + (k - i)
                    BY <2>1, <3>1, <4>2
                <5> QED BY <1>3, <4>2, <5>1
            <4> QED BY <4>1, <4>2
        <3> QED BY <2>2, <3>2
    <2>4. q \in Seq(Switches) /\ Len(q) = m
        BY <2>1, <2>3
    <2>5. q[1] = Source
        BY <1>2, <1>3, <2>1, <2>2 DEF IsPath
    <2>6. q[m] = Egress
        <3>1. CASE m <= i
            <4>0. n \in Int /\ k <= n
                BY <1>3
            <4>1. m = i /\ k = n
                BY ONLY <2>1, <3>1, <4>0
            <4> QED BY <1>2, <1>3, <1>4, <2>1, <2>2, <4>1 DEF IsPath
        <3>2. CASE m > i
            <4>1. m + (k - i) = n /\ m \in 1..m
                BY <1>3, <2>1
            <4> QED BY <1>2, <1>3, <2>1, <2>2, <3>2, <4>1 DEF IsPath
        <3> QED BY <3>1, <3>2, <2>1
    <2>7. ASSUME NEW x \in 1..m - 1
          PROVE  <<q[x], q[x + 1]>> \in links
        <3>0. x \in 1..m /\ x + 1 \in 1..m
            BY <2>1
        <3>1. CASE x < i
            <4>1. x \in 1..n - 1 /\ q[x] = p[x] /\ q[x + 1] = p[x + 1]
                BY <1>3, <2>1, <2>2, <3>0, <3>1
            <4> QED BY <1>2, <1>3, <4>1 DEF IsPath
        <3>2. CASE x = i
            <4>1. k \in 1..n - 1 /\ q[x] = p[k] /\ q[x + 1] = p[k + 1]
                <5>1. x + 1 + (k - i) = k + 1 /\ ~(x + 1 <= i) /\ x <= i
                    BY <3>2
                <5>2. q[x + 1] = p[x + 1 + (k - i)] /\ q[x] = p[x]
                    BY <2>2, <3>0, <5>1
                <5> QED BY <1>3, <1>4, <2>1, <3>2, <5>1, <5>2
            <4> QED BY <1>2, <1>3, <4>1 DEF IsPath
        <3>3. CASE x > i
            <4>1. PICK y \in 1..n - 1 : y = x + (k - i)
                BY <1>3, <2>1, <3>3
            <4>2. q[x] = p[y] /\ q[x + 1] = p[y + 1]
                <5>1. x + 1 + (k - i) = y + 1 /\ ~(x + 1 <= i) /\ ~(x <= i)
                    BY <3>3, <4>1
                <5>2. q[x + 1] = p[x + 1 + (k - i)] /\ q[x] = p[x + (k - i)]
                    BY <2>2, <3>0, <5>1
                <5> QED BY <4>1, <5>1, <5>2
            <4> QED BY <1>2, <1>3, <4>1, <4>2 DEF IsPath
        <3> QED BY <3>1, <3>2, <3>3
    <2>8. q \in PathsOf(links, Source, Egress, m)
        BY <2>1, <2>3, <2>4, <2>5, <2>6, <2>7 DEF PathsOf, IsPath
    <2> QED BY <1>1, <1>2, <1>3, <2>1, <2>8 DEF Best, IsPath
<1>5. Apart(p)
    BY <1>3, <1>4 DEF Apart
<1> QED BY <1>1, <1>2, <1>5

-----------------------------------------------------------------------------
(***************************************************************************)
(* The types of the variables                                              *)
(***************************************************************************)
Ports == Switches \cup {Outside}
FlowSet == [at : Switches, in : Ports, out : Ports]
Failure == [devices : SUBSET Switches, links : SUBSET Links]
Installing == {"look", "install"}
AtWork == {"clean", "delete"} \cup Installing
Jobs == [failed : Failure, cleanup : BOOLEAN, again : BOOLEAN, route : Seq(Switches),
         at : Nat, doomed : SUBSET FlowSet]

\* A handler at work is at a switch of its route.
Typed ==
    /\ up \subseteq Links /\ away \subseteq Switches /\ events \in Seq(Failure)
    /\ flows \subseteq FlowSet
    /\ pc \in [Handlers -> {"idle", "plan"} \cup AtWork] /\ job \in [Handlers -> Jobs]
    /\ excused \in BOOLEAN
    /\ \A h \in Handlers : pc[h] \in AtWork => job[h].at \in 1..Len(job[h].route)

LEMMA FlowTyped ==
    ASSUME NEW r \in Seq(Switches), NEW i \in 1..Len(r)
    PROVE  Flow(r, i) \in FlowSet
<1>1. r[i] \in Switches
    OBVIOUS
<1>2. InPort(r, i) \in Ports
    <2>1. CASE i = 1
        BY <2>1 DEF InPort, Ports
    <2>2. CASE i # 1
        <3>1. PICK k \in 1..Len(r) : k = i - 1
            BY <2>2
        <3>2. r[k] \in Switches
            OBVIOUS
        <3> QED BY <2>2, <3>1, <3>2 DEF InPort, Ports
    <2> QED BY <2>1, <2>2
<1>3. OutPort(r, i) \in Ports
    <2>1. CASE i = Len(r)
        BY <2>1 DEF OutPort, Ports
    <2>2. CASE i # Len(r)
        <3>1. PICK k \in 1..Len(r) : k = i + 1
            BY <2>2
        <3>2. r[k] \in Switches
            OBVIOUS
        <3> QED BY <2>2, <3>1, <3>2 DEF OutPort, Ports
    <2> QED BY <2>1, <2>2
<1> QED BY <1>1, <1>2, <1>3 DEF Flow, FlowSet

LEMMA BaseRouteIs ==
    /\ BaseRoute \in Seq(Switches) /\ Len(BaseRoute) \in Nat /\ Len(BaseRoute) > 1
    /\ Apart(BaseRoute) /\ IsPath(Wires, BaseRoute, Source, Egress)
    /\ Wires \subseteq Links
BY TunnelConstants DEF Apart, IsPath, Source, Egress

LEMMA IdleTyped == Idle \in Jobs /\ NoFailure \in Failure
BY DEF Idle, NoFailure, Jobs, Failure

LEMMA InitTyped == Init => Typed
<1> SUFFICES ASSUME Init PROVE Typed
    OBVIOUS
<1>1. flows \subseteq FlowSet
    BY BaseRouteIs, FlowTyped DEF Init
<1>2. pc \in [Handlers -> {"idle", "plan"} \cup AtWork] /\ job \in [Handlers -> Jobs]
    BY IdleTyped DEF Init
<1>3. \A h \in Handlers : pc[h] \notin AtWork
    BY DEF Init, AtWork, Installing
<1>4. up \subseteq Links /\ away \subseteq Switches /\ excused \in BOOLEAN
    BY BaseRouteIs DEF Init
<1>5. events \in Seq(Failure)
    BY DEF Init
<1> QED BY <1>1, <1>2, <1>3, <1>4, <1>5 DEF Typed

\* How a handler moves: its place and its job, and no other's.
LEMMA HandlerMoves ==
    ASSUME Typed, NEW h \in Handlers, NEW there \in {"idle", "plan"} \cup AtWork,
           NEW j \in Jobs, there \in AtWork => j.at \in 1..Len(j.route),
           pc' = [pc EXCEPT ![h] = there], job' = [job EXCEPT ![h] = j],
           up' \subseteq Links, away' \subseteq Switches, events' \in Seq(Failure),
           flows' \subseteq FlowSet, excused' \in BOOLEAN
    PROVE  Typed'
<1>1. pc' \in [Handlers -> {"idle", "plan"} \cup AtWork] /\ job' \in [Handlers -> Jobs]
    BY DEF Typed
<1>2. ASSUME NEW k \in Handlers, pc'[k] \in AtWork
      PROVE  job'[k].at \in 1..Len(job'[k].route)
    BY <1>2 DEF Typed
<1> QED BY <1>1, <1>2 DEF Typed

LEMMA FollowMoves ==
    ASSUME Typed, NEW h \in Handlers, NEW r \in Seq(Switches), Len(r) > 0, Follow(h, r)
    PROVE  \E j \in Jobs, there \in {"clean", "look"} :
              /\ j.at = 1 /\ j.route = r
              /\ pc' = [pc EXCEPT ![h] = there] /\ job' = [job EXCEPT ![h] = j]
<1>1. PICK j : j = [job[h] EXCEPT !.route = r, !.at = 1]
    OBVIOUS
<1>2. j \in Jobs /\ j.at = 1 /\ j.route = r
    BY <1>1 DEF Typed, Jobs
<1>3. job' = [job EXCEPT ![h] = j]
    BY <1>1 DEF Typed, Follow
<1>4. PICK there \in {"clean", "look"} : pc' = [pc EXCEPT ![h] = there]
    BY DEF Follow, GoTo
<1> QED BY <1>2, <1>3, <1>4

LEMMA EndedMoves ==
    ASSUME Typed, NEW h \in Handlers, Ended(h)
    PROVE  \E j \in Jobs, there \in {"idle", "plan"} :
              pc' = [pc EXCEPT ![h] = there] /\ job' = [job EXCEPT ![h] = j]
<1>1. CASE job[h].again
    <2>1. PICK j : j = [Idle EXCEPT !.failed = job[h].failed, !.cleanup = TRUE]
        OBVIOUS
    <2>2. j \in Jobs
        BY <2>1, IdleTyped DEF Typed, Jobs
    <2>3. pc' = [pc EXCEPT ![h] = "plan"] /\ job' = [job EXCEPT ![h] = j]
        BY <1>1, <2>1 DEF Ended, GoTo
    <2> QED BY <2>2, <2>3
<1>2. CASE ~job[h].again
    <2>1. pc' = [pc EXCEPT ![h] = "idle"] /\ job' = [job EXCEPT ![h] = Idle]
        BY <1>2 DEF Ended, GoTo
    <2> QED BY <2>1, IdleTyped
<1> QED BY <1>1, <1>2

\* On to the next switch of the route.
Onwards(h, there) ==
    \E j \in Jobs :
        /\ job[h].at < Len(job[h].route)
        /\ j.at = job[h].at + 1 /\ j.route = job[h].route
        /\ pc' = [pc EXCEPT ![h] = there] /\ job' = [job EXCEPT ![h] = j]

LEMMA ForwardMoves ==
    ASSUME Typed, NEW h \in Handlers, pc[h] \in AtWork, NEW there, NEW ACTION last,
           Forward(h, there, last)
    PROVE  Onwards(h, there) \/ (job[h].at = Len(job[h].route) /\ last)
<1>1. job[h].at \in 1..Len(job[h].route) /\ job[h].route \in Seq(Switches)
    BY DEF Typed, Jobs
<1>2. CASE job[h].at < Len(job[h].route)
    <2>1. PICK j : j = [job[h] EXCEPT !.at = @ + 1, !.doomed = {}]
        OBVIOUS
    <2>2. j \in Jobs /\ j.at = job[h].at + 1 /\ j.route = job[h].route
        <3>1. job[h] \in Jobs
            BY DEF Typed
        <3>2. job[h].at + 1 \in Nat
            BY <3>1 DEF Jobs
        <3> QED BY ONLY <2>1, <3>1, <3>2 DEF Jobs
    <2>3. job' = [job EXCEPT ![h] = j] /\ pc' = [pc EXCEPT ![h] = there]
        BY <1>2, <2>1 DEF Typed, Forward, GoTo
    <2> QED BY <1>2, <2>2, <2>3 DEF Onwards
<1>3. CASE ~(job[h].at < Len(job[h].route))
    BY <1>1, <1>3 DEF Forward
<1> QED BY <1>2, <1>3

\* No handler moves.
LEMMA NobodyMoves ==
    ASSUME Typed, UNCHANGED <<pc, job>>, up' \subseteq Links, away' \subseteq Switches,
           events' \in Seq(Failure), flows' \subseteq FlowSet, excused' \in BOOLEAN
    PROVE  Typed'
BY DEF Typed

\* What each step does, as far as the invariant goes: which handler moves, and where to.
Moves(h, there, j) == pc' = [pc EXCEPT ![h] = there] /\ job' = [job EXCEPT ![h] = j]

LEMMA HopTyped ==
    ASSUME Typed, NEW h \in Handlers, pc[h] \in AtWork
    PROVE  Hop(h) \in FlowSet
<1>1. job[h].route \in Seq(Switches) /\ job[h].at \in 1..Len(job[h].route)
    BY DEF Typed, Jobs
<1> QED BY <1>1, FlowTyped DEF Hop

LEMMA ReplacedTyped ==
    ASSUME Typed, NEW f \in FlowSet
    PROVE  Replaced(f) \subseteq FlowSet
BY DEF Typed, Replaced

LEMMA NetworkTyped ==
    ASSUME Typed, \/ \E l \in Wires \cap Frail : LinkFails(l)
                  \/ \E d \in Switches \cap Frail : DeviceFails(d)
                  \/ Returns \/ EventLost
    PROVE  Typed'
<1>1. ASSUME NEW l \in Wires \cap Frail, LinkFails(l)
      PROVE  Typed'
    <2>1. PICK e \in Failure : e = [NoFailure EXCEPT !.links = {l}]
        BY BaseRouteIs DEF NoFailure, Failure
    <2>2. events' \in Seq(Failure) /\ excused' \in BOOLEAN
        BY <1>1, <2>1 DEF LinkFails, Report, Typed, Late
    <2> QED BY <1>1, <2>2, NobodyMoves DEF LinkFails, Typed
<1>2. ASSUME NEW d \in Switches \cap Frail, DeviceFails(d)
      PROVE  Typed'
    <2>1. PICK e \in Failure : e = [NoFailure EXCEPT !.devices = {d}]
        BY DEF NoFailure, Failure
    <2>2. events' \in Seq(Failure) /\ excused' \in BOOLEAN
        BY <1>2, <2>1 DEF DeviceFails, Report, Typed, Late
    <2> QED BY <1>2, <2>2, NobodyMoves DEF DeviceFails, Typed
<1>3. CASE Returns
    <2>1. up' \subseteq Links /\ away' \subseteq Switches /\ excused' \in BOOLEAN
        BY <1>3, BaseRouteIs DEF Returns, Typed
    <2> QED BY <1>3, <2>1, NobodyMoves DEF Returns, Typed
<1>4. CASE EventLost
    <2>1. events' \in Seq(Failure)
        BY <1>4 DEF EventLost, Typed
    <2> QED BY <1>4, <2>1, NobodyMoves DEF EventLost, Fault, network, Typed
<1> QED BY <1>1, <1>2, <1>3, <1>4

LEMMA StartTyped ==
    ASSUME Typed, NEW h \in Handlers, Post(h) \/ Ensure(h)
    PROVE  Typed'
<1>1. CASE Post(h)
    <2>1. Head(events) \in Failure /\ events' \in Seq(Failure)
        <3>1. events \in Seq(Failure) /\ events # <<>> /\ events' = Tail(events)
            BY <1>1 DEF Post, Typed
        <3> QED BY ONLY <3>1
    <2>2. PICK again \in BOOLEAN :
             job' = [job EXCEPT ![h] = [Idle EXCEPT !.failed = Head(events),
                                                    !.cleanup = TRUE, !.again = again]]
        BY <1>1 DEF Post
    <2>3. PICK j : j = [Idle EXCEPT !.failed = Head(events), !.cleanup = TRUE, !.again = again]
        OBVIOUS
    <2>4. j \in Jobs
        BY <2>1, <2>3, IdleTyped DEF Jobs
    <2>5. job' = [job EXCEPT ![h] = j] /\ pc' = [pc EXCEPT ![h] = "plan"]
        BY <1>1, <2>2, <2>3 DEF Post
    <2> QED BY <1>1, <2>1, <2>4, <2>5, HandlerMoves DEF Post, network, Typed, AtWork, Installing
<1>2. CASE Ensure(h)
    <2>1. job[h] \in Jobs /\ job' = [job EXCEPT ![h] = job[h]]
        BY <1>2 DEF Ensure, Typed
    <2> QED BY <1>2, <2>1, HandlerMoves DEF Ensure, network, Typed, AtWork, Installing
<1> QED BY <1>1, <1>2

\* Where nobody is at work, nothing is left to be typed of the jobs.
LEMMA RestartTyped ==
    ASSUME Typed, NEW h \in Handlers, Restart(h)
    PROVE  Typed'
<1>1. UNCHANGED <<up, away, events, flows>>
    BY DEF Restart, network
<1>2. job' \in [Handlers -> Jobs]
    BY IdleTyped DEF Restart
<1>3. pc' \in [Handlers -> {"idle", "plan"} \cup AtWork]
    BY DEF Restart
<1>4. excused' \in BOOLEAN
    BY DEF Restart, Typed
<1>5. \A k \in Handlers : pc'[k] \notin AtWork
    BY DEF Restart, AtWork, Installing
<1> QED BY <1>1, <1>2, <1>3, <1>4, <1>5 DEF Typed

LEMMA FollowTyped ==
    ASSUME Typed, NEW h \in Handlers, NEW r \in Seq(Switches), Len(r) > 0, Follow(h, r),
           excused' \in BOOLEAN, UNCHANGED <<network, events, flows>>
    PROVE  Typed'
<1>1. PICK j \in Jobs, there \in {"clean", "look"} :
         /\ j.at = 1 /\ j.route = r
         /\ pc' = [pc EXCEPT ![h] = there] /\ job' = [job EXCEPT ![h] = j]
    BY FollowMoves
<1>2. there \in AtWork /\ j.at \in 1..Len(j.route)
    BY <1>1 DEF AtWork, Installing
<1> QED BY <1>1, <1>2, HandlerMoves DEF network, Typed

LEMMA EndedTyped ==
    ASSUME Typed, NEW h \in Handlers, Ended(h), flows' \subseteq FlowSet,
           excused' \in BOOLEAN, UNCHANGED <<network, events>>
    PROVE  Typed'
<1>1. PICK j \in Jobs, there \in {"idle", "plan"} :
         pc' = [pc EXCEPT ![h] = there] /\ job' = [job EXCEPT ![h] = j]
    BY EndedMoves
<1>2. there \notin AtWork
    BY DEF AtWork, Installing
<1> QED BY <1>1, <1>2, HandlerMoves DEF network, Typed

LEMMA OnwardsTyped ==
    ASSUME Typed, NEW h \in Handlers, pc[h] \in AtWork, NEW there \in AtWork,
           Onwards(h, there), flows' \subseteq FlowSet,
           excused' \in BOOLEAN, UNCHANGED <<network, events>>
    PROVE  Typed'
<1>1. PICK j \in Jobs :
         /\ job[h].at < Len(job[h].route)
         /\ j.at = job[h].at + 1 /\ j.route = job[h].route
         /\ pc' = [pc EXCEPT ![h] = there] /\ job' = [job EXCEPT ![h] = j]
    BY DEF Onwards
<1>2. j.at \in 1..Len(j.route)
    <2>1. job[h].at \in 1..Len(job[h].route) /\ Len(job[h].route) \in Nat
        BY DEF Typed, Jobs
    <2> QED BY <1>1, <2>1
<1> QED BY <1>1, <1>2, HandlerMoves DEF network, Typed

LEMMA PlanTyped ==
    ASSUME Typed, NEW h \in Handlers, PlanStatic(h) \/ PlanDynamic(h) \/ LinksUnread(h)
    PROVE  Typed'
<1>1. CASE PlanStatic(h)
    <2>1. excused' \in BOOLEAN
        BY <1>1 DEF PlanStatic, StillBroken
    <2> QED BY <1>1, <2>1, BaseRouteIs, FollowTyped DEF PlanStatic
<1>2. CASE PlanDynamic(h)
    <2>1. PICK e, route :
             /\ e = job[h].failed
             /\ route = Path(Remaining(up, e.devices, e.links), Source, Egress)
             /\ IF route = <<>> \/ {Source, Egress} \cap e.devices # {} THEN Ended(h)
                ELSE Follow(h, route)
             /\ excused' = (excused \/ StillBroken(route, e)
                                      \/ (route = <<>> /\ LeftOut(e) /\ ~Reaches))
             /\ UNCHANGED <<network, events, flows, bounds>>
        BY <1>2 DEF PlanDynamic
    <2>2. excused' \in BOOLEAN /\ flows' \subseteq FlowSet /\ UNCHANGED <<network, events, flows>>
        BY <2>1 DEF Typed, StillBroken
    <2>3. CASE Ended(h)
        BY <2>2, <2>3, EndedTyped
    <2>4. CASE route # <<>> /\ Follow(h, route)
        <3>1. route \in Seq(Switches) /\ Len(route) > 0
            BY <2>1, <2>4, PathFound
        <3> QED BY <2>2, <2>4, <3>1, FollowTyped
    <2> QED BY <2>1, <2>3, <2>4
<1>3. CASE LinksUnread(h)
    <2>1. flows' \subseteq FlowSet
        BY <1>3 DEF LinksUnread, Typed
    <2> QED BY <1>3, <2>1, EndedTyped DEF LinksUnread, Fault
<1> QED BY <1>1, <1>2, <1>3

\* The handler deletes: it goes on, or starts to look.
LEMMA CleanTyped ==
    ASSUME Typed, NEW h \in Handlers,
           Conflicts(h) \/ Delete(h) \/ DeleteFails(h) \/ Deleted(h)
    PROVE  Typed'
<1>0. pc[h] \in AtWork /\ job[h].at \in 1..Len(job[h].route) /\ job[h] \in Jobs
    BY DEF Conflicts, Delete, DeleteFails, Deleted, AtWork, Typed
<1>1. ASSUME NEW F \in SUBSET FlowSet, job' = [job EXCEPT ![h].doomed = F],
             NEW there \in AtWork, pc' = [pc EXCEPT ![h] = there],
             flows' \subseteq FlowSet, excused' \in BOOLEAN, UNCHANGED <<network, events>>
      PROVE  Typed'
    <2>1. PICK j : j = [job[h] EXCEPT !.doomed = F]
        OBVIOUS
    <2>2. j \in Jobs /\ j.at \in 1..Len(j.route)
        BY <1>0, <2>1 DEF Jobs
    <2>3. job' = [job EXCEPT ![h] = j]
        BY <1>1, <2>1 DEF Typed
    <2> QED BY <1>1, <2>2, <2>3, HandlerMoves DEF network, Typed
<1>2. CASE Conflicts(h)
    <2>1. PICK F : F = {f \in flows : f.at = Hop(h).at /\ f # Hop(h)}
        OBVIOUS
    <2>2. F \in SUBSET FlowSet
        BY <2>1 DEF Typed
    <2> QED BY <1>1, <1>2, <2>1, <2>2 DEF Conflicts, GoTo, Typed, AtWork
<1>3. CASE Delete(h)
    <2>1. PICK f \in job[h].doomed : /\ flows' = {g \in flows : ~SameSelector(f, g)}
                                     /\ job' = [job EXCEPT ![h].doomed = @ \ {f}]
        BY <1>3 DEF Delete
    <2>2. PICK F \in SUBSET FlowSet : F = job[h].doomed \ {f}
        BY <1>0 DEF Jobs
    <2>3. job' = [job EXCEPT ![h].doomed = F] /\ flows' \subseteq FlowSet
        BY <2>1, <2>2 DEF Typed
    <2>4. pc' = [pc EXCEPT ![h] = "delete"]
        BY <1>3 DEF Delete, Typed
    <2> QED BY <1>1, <1>3, <2>2, <2>3, <2>4 DEF Delete, Typed, AtWork
<1>4. CASE DeleteFails(h)
    <2>1. PICK f \in job[h].doomed : job' = [job EXCEPT ![h].doomed = @ \ {f}]
        BY <1>4 DEF DeleteFails
    <2>2. PICK F \in SUBSET FlowSet : F = job[h].doomed \ {f}
        BY <1>0 DEF Jobs
    <2>3. job' = [job EXCEPT ![h].doomed = F] /\ flows' \subseteq FlowSet
        BY <1>4, <2>1, <2>2 DEF Typed, DeleteFails
    <2>4. pc' = [pc EXCEPT ![h] = "delete"]
        BY <1>4 DEF DeleteFails, Typed
    <2> QED BY <1>1, <1>4, <2>2, <2>3, <2>4 DEF DeleteFails, Fault, Typed, AtWork
<1>5. CASE Deleted(h)
    <2>1. flows' \subseteq FlowSet /\ excused' \in BOOLEAN /\ UNCHANGED <<network, events>>
        BY <1>5 DEF Deleted, Typed
    <2>2. Forward(h, "clean", job' = [job EXCEPT ![h].at = 1] /\ GoTo(h, "look"))
        BY <1>5 DEF Deleted
    <2>3. CASE Onwards(h, "clean")
        BY <1>0, <2>1, <2>3, OnwardsTyped DEF AtWork
    <2>4. CASE job' = [job EXCEPT ![h].at = 1] /\ GoTo(h, "look")
        <3>1. PICK j : j = [job[h] EXCEPT !.at = 1]
            OBVIOUS
        <3>2. j \in Jobs /\ j.at \in 1..Len(j.route)
            BY <1>0, <3>1 DEF Jobs
        <3>3. job' = [job EXCEPT ![h] = j] /\ pc' = [pc EXCEPT ![h] = "look"]
            BY <2>4, <3>1 DEF Typed, GoTo
        <3> QED BY <2>1, <3>2, <3>3, HandlerMoves DEF network, Typed, AtWork, Installing
    <2> QED BY <1>0, <2>2, <2>3, <2>4, ForwardMoves
<1> QED BY <1>2, <1>3, <1>4, <1>5

LEMMA InstallTyped ==
    ASSUME Typed, NEW h \in Handlers,
           AlreadyPresent(h) \/ Missing(h) \/ Install(h) \/ InstallFails(h)
    PROVE  Typed'
<1>0. pc[h] \in AtWork /\ job[h].at \in 1..Len(job[h].route) /\ job[h] \in Jobs
    BY DEF AlreadyPresent, Missing, Install, InstallFails, AtWork, Installing, Typed
<1>1. Replaced(Hop(h)) \subseteq FlowSet /\ "look" \in AtWork
    BY <1>0, HopTyped, ReplacedTyped DEF AtWork, Installing
<1>2. ASSUME Forward(h, "look", Ended(h)), flows' \subseteq FlowSet,
             excused' \in BOOLEAN, UNCHANGED <<network, events>>
      PROVE  Typed'
    BY <1>0, <1>1, <1>2, ForwardMoves, OnwardsTyped, EndedTyped
<1>3. CASE AlreadyPresent(h)
    BY <1>2, <1>3 DEF AlreadyPresent, Typed
<1>4. CASE Missing(h)
    <2>1. job' = [job EXCEPT ![h] = job[h]] /\ pc' = [pc EXCEPT ![h] = "install"]
        BY <1>4 DEF Missing, GoTo, Typed
    <2> QED BY <1>0, <1>4, <2>1, HandlerMoves DEF Missing, network, Typed, AtWork, Installing
<1>5. CASE Install(h)
    BY <1>1, <1>2, <1>5 DEF Install, Typed
<1>6. CASE InstallFails(h)
    BY <1>1, <1>2, <1>6 DEF InstallFails, Fault, Typed
<1> QED BY <1>3, <1>4, <1>5, <1>6

LEMMA NextTyped == Typed /\ [Next]_vars => Typed'
<1> SUFFICES ASSUME Typed, [Next]_vars PROVE Typed'
    OBVIOUS
<1>1. CASE UNCHANGED vars
    BY <1>1, NobodyMoves DEF vars, network, Typed
<1> QED BY <1>1, NetworkTyped, StartTyped, RestartTyped, PlanTyped, CleanTyped,
       InstallTyped DEF Next

-----------------------------------------------------------------------------
(***************************************************************************)
(* Where the packets get to                                                *)
(***************************************************************************)
\* The links that carry, and the ways over them.
Carrying == {l \in up : l[1] \notin away /\ l[2] \notin away}
Way(r) == r \in Seq(Switches) /\ Apart(r) /\ IsPath(Carrying, r, Source, Egress)

\* Where a packet may be: at a switch, in by a port.
Spots == Switches \X Ports
Spot(f) == <<f.at, f.in>>
Entry == <<Source, Outside>>

\* All the places the mirrored packets get to, and perhaps more.
Guided(S) == /\ Entry \in S
             /\ \A f \in flows : Spot(f) \in S /\ Carries(f.at, f.out) => <<f.out, f.at>> \in S

\* The packets get to where they are let out, or to where a handler is at work on its route.
Awaited(h) == pc[h] \in Installing
Goal(s) == \/ \E f \in flows : Delivers(f) /\ Spot(f) = s
           \/ \E h \in Handlers : Awaited(h) /\ Spot(Hop(h)) = s
Standing == \A S \in SUBSET Spots : Guided(S) => \E s \in S : Goal(s)

LEMMA CarriesIsTyped ==
    ASSUME Typed, NEW a, NEW b, Carries(a, b)
    PROVE  a \in Switches /\ b \in Switches /\ <<a, b>> \in Carrying
<1>1. <<a, b>> \in Links
    BY DEF Carries, Typed
<1> QED BY <1>1 DEF Carries, Links, Carrying

LEMMA ReachesStands ==
    ASSUME Typed, Reaches
    PROVE  Standing
<1> SUFFICES ASSUME NEW P \in SUBSET Spots, Guided(P)
             PROVE  \E s \in P : Goal(s)
    BY DEF Standing
<1>1. PICK S \in SUBSET flows : S = {f \in flows : Spot(f) \in P}
    OBVIOUS
<1>2. Followed(S)
    <2>1. ASSUME NEW f \in flows, Entered(f)
          PROVE  f \in S
        BY <1>1, <2>1 DEF Entered, Guided, Entry, Spot
    <2>2. ASSUME NEW f \in flows, NEW g \in S, SendsTo(g, f)
          PROVE  f \in S
        <3>1. g \in flows /\ Spot(g) \in P
            BY <1>1
        <3>2. <<g.out, g.at>> \in P
            BY <2>2, <3>1 DEF Guided, SendsTo
        <3> QED BY <1>1, <2>2, <3>2 DEF SendsTo, Spot
    <2> QED BY <2>1, <2>2 DEF Followed
<1>3. PICK f \in S : Delivers(f)
    BY <1>2 DEF Reaches
<1> QED BY <1>1, <1>3 DEF Goal

LEMMA StandsReaches ==
    ASSUME Typed, Standing, \A h \in Handlers : ~Awaited(h)
    PROVE  Reaches
<1> SUFFICES ASSUME NEW S \in SUBSET flows, Followed(S)
             PROVE  \E f \in S : Delivers(f)
    BY DEF Reaches
<1>1. PICK P : P = {Entry} \cup {<<f.out, f.at>> : f \in {g \in S : Carries(g.at, g.out)}}
    OBVIOUS
<1>2. P \in SUBSET Spots
    <2>1. Entry \in Spots
        BY RouteApart DEF Entry, Spots, Ports
    <2>2. ASSUME NEW f \in S, Carries(f.at, f.out)
          PROVE  <<f.out, f.at>> \in Spots
        BY <2>2, CarriesIsTyped DEF Spots, Ports
    <2> QED BY <1>1, <2>1, <2>2
<1>3. ASSUME NEW f \in flows, Spot(f) \in P
      PROVE  f \in S
    <2>1. CASE Spot(f) = Entry
        BY <2>1 DEF Spot, Entry, Entered, Followed
    <2>2. CASE Spot(f) # Entry
        <3>1. PICK g \in S : Carries(g.at, g.out) /\ Spot(f) = <<g.out, g.at>>
            BY <1>1, <1>3, <2>2
        <3>2. SendsTo(g, f)
            BY <3>1 DEF SendsTo, Spot
        <3> QED BY <3>2 DEF Followed
    <2> QED BY <2>1, <2>2
<1>4. Guided(P)
    BY <1>1, <1>3 DEF Guided
<1>5. PICK s \in P : Goal(s)
    BY <1>2, <1>4 DEF Standing
<1>6. PICK f \in flows : Delivers(f) /\ Spot(f) = s
    BY <1>5 DEF Goal
<1> QED BY <1>3, <1>5, <1>6

\* Nothing that takes packets is lost, and no goal.
LEMMA StandsOn ==
    ASSUME Standing, UNCHANGED flows,
           \A a, b : Carries(a, b) => Carries(a, b)',
           \A h \in Handlers : Awaited(h) => Awaited(h)' /\ Spot(Hop(h))' = Spot(Hop(h))
    PROVE  Standing'
<1> SUFFICES ASSUME NEW S \in SUBSET Spots, Guided(S)'
             PROVE  \E s \in S : Goal(s)'
    BY DEF Standing
<1>1. Guided(S)
    BY DEF Guided, Spot, Entry
<1>2. PICK s \in S : Goal(s)
    BY <1>1 DEF Standing
<1>3. Goal(s)'
    BY <1>2 DEF Goal, Delivers, Spot
<1> QED BY <1>3

\* The flow for the next switch is there: the packets get one switch further, or out.
LEMMA StandsFurther ==
    ASSUME Typed, Standing, UNCHANGED network, NEW h \in Handlers, Awaited(h),
           Way(job[h].route), Hop(h) \in flows',
           \A g \in flows : Spot(g) # Spot(Hop(h)) => g \in flows',
           \A k \in Handlers \ {h} : pc'[k] = pc[k] /\ job'[k] = job[k],
           Onwards(h, "look") \/ job[h].at = Len(job[h].route)
    PROVE  Standing'
<1>1. PICK r, i, f : r = job[h].route /\ i = job[h].at /\ f = Hop(h)
    OBVIOUS
<1>2. /\ r \in Seq(Switches) /\ IsPath(Carrying, r, Source, Egress)
      /\ i \in 1..Len(r) /\ f = Flow(r, i) /\ Len(r) \in Nat
    BY <1>1 DEF Typed, AtWork, Awaited, Way, Hop
<1>3. \A a, b : Carries(a, b)' <=> Carries(a, b)
    BY DEF Carries, network
<1> SUFFICES ASSUME NEW S \in SUBSET Spots, Guided(S)'
             PROVE  \E s \in S : Goal(s)'
    BY DEF Standing
<1>4. CASE Spot(f) \in S
    <2>1. CASE Onwards(h, "look")
        <3>1. PICK j \in Jobs : /\ i < Len(r) /\ j.at = i + 1 /\ j.route = r
                                /\ pc' = [pc EXCEPT ![h] = "look"]
                                /\ job' = [job EXCEPT ![h] = j]
            BY <1>1, <2>1 DEF Onwards
        <3>2. f.at = r[i] /\ f.out = r[i + 1]
            BY <1>2, <3>1 DEF Flow, OutPort
        <3>3. <<r[i], r[i + 1]>> \in Carrying
            BY <1>2, <3>1 DEF IsPath
        <3>4. Carries(f.at, f.out)'
            BY <1>3, <3>2, <3>3 DEF Carries, Carrying
        <3>5. <<f.out, f.at>> \in S
            BY <1>1, <1>4, <3>4 DEF Guided, Spot
        <3>6. Awaited(h)' /\ Hop(h)' = Flow(r, i + 1)
            BY <3>1 DEF Awaited, Installing, Typed, Hop
        <3>7. InPort(r, i + 1) = r[i]
            BY <1>2 DEF InPort
        <3>8. Spot(Hop(h))' = <<f.out, f.at>>
            BY <3>2, <3>6, <3>7 DEF Spot, Flow
        <3> QED BY <3>5, <3>6, <3>8 DEF Goal
    <2>2. CASE i = Len(r)
        <3>1. f.at = Egress /\ f.out = Outside
            BY <1>2, <2>2 DEF Flow, OutPort, IsPath
        <3> QED BY <1>1, <1>4, <3>1 DEF Goal, Delivers, Spot
    <2> QED BY <1>1, <2>1, <2>2
<1>5. CASE Spot(f) \notin S
    <2>1. Guided(S)
        BY <1>1, <1>3, <1>5 DEF Guided, Spot, Entry
    <2>2. PICK s \in S : Goal(s)
        BY <2>1 DEF Standing
    <2>3. CASE \E g \in flows : Delivers(g) /\ Spot(g) = s
        <3>1. PICK g \in flows : Delivers(g) /\ Spot(g) = s
            BY <2>3
        <3>2. g \in flows'
            BY <1>1, <1>5, <3>1
        <3> QED BY <3>1, <3>2 DEF Goal, Delivers, Spot
    <2>4. CASE \E k \in Handlers : Awaited(k) /\ Spot(Hop(k)) = s
        <3>1. PICK k \in Handlers : Awaited(k) /\ Spot(Hop(k)) = s
            BY <2>4
        <3>2. k # h
            BY <1>1, <1>5, <3>1
        <3>3. Awaited(k)' /\ Spot(Hop(k))' = s
            BY <3>1, <3>2 DEF Awaited, Hop, Spot
        <3> QED BY <3>3 DEF Goal
    <2> QED BY <2>2, <2>3, <2>4 DEF Goal
<1> QED BY <1>4, <1>5

-----------------------------------------------------------------------------
(***************************************************************************)
(* The invariant                                                           *)
(***************************************************************************)
\* There is more to come before the tunnel need stand.
Pending == events # <<>> \/ \E h \in Handlers : pc[h] \in {"plan", "clean", "delete"}

OnTheWay == \A h \in Handlers : pc[h] \in AtWork => Way(job[h].route)
Promised == Pending \/ Standing \/ ~Connected
TunnelInv == Typed /\ (~excused => OnTheWay /\ Promised)

LEMMA ConnectedIs == Connected <=> Path(Carrying, Source, Egress) # <<>>
BY DEF Connected, Carrying

LEMMA WayConnects ==
    ASSUME NEW r, Way(r)
    PROVE  Connected
BY FoundIfThere, ConnectedIs DEF Way

LEMMA CarryingSame == ASSUME UNCHANGED network PROVE Carrying' = Carrying
BY DEF Carrying, network

LEMMA ConnectedSame == ASSUME UNCHANGED network PROVE Connected' <=> Connected
BY DEF Connected, network

\* The fixed route stands at first.
LEMMA InitStands == Init => Standing
<1> SUFFICES ASSUME Init, NEW S \in SUBSET Spots, Guided(S)
             PROVE  \E s \in S : Goal(s)
    BY DEF Standing
<1>1. PICK r, n : r = BaseRoute /\ n = Len(r) /\ n > 1 /\ n \in Nat
    BY BaseRouteIs
<1>2. \A i \in 1..n : Flow(r, i) \in flows
    BY <1>1 DEF Init
<1>3. /\ r[1] = Source /\ r[n] = Egress
      /\ \A i \in 1..n - 1 : <<r[i], r[i + 1]>> \in Wires
    BY <1>1, BaseRouteIs DEF IsPath
<1> DEFINE U == {i \in Nat : i + 1 <= n => Spot(Flow(r, i + 1)) \in S}
<1>4. 0 \in U
    <2>1. Spot(Flow(r, 0 + 1)) = Entry
        BY <1>3 DEF Flow, InPort, Spot, Entry
    <2> QED BY <2>1 DEF Guided
<1>5. ASSUME NEW i \in Nat, i \in U
      PROVE  i + 1 \in U
    <2> SUFFICES ASSUME (i + 1) + 1 <= n
                 PROVE  Spot(Flow(r, (i + 1) + 1)) \in S
        OBVIOUS
    <2>1. PICK k \in 1..n - 1 : k = i + 1
        BY <1>1
    <2>2. PICK f : f = Flow(r, k)
        OBVIOUS
    <2>3. Spot(f) \in S /\ f \in flows
        BY <1>1, <1>2, <1>5, <2>1, <2>2
    <2>4. f.at = r[k] /\ f.out = r[k + 1]
        BY <1>1, <2>1, <2>2 DEF Flow, OutPort
    <2>5. Carries(f.at, f.out)
        BY <1>3, <2>4 DEF Carries, Init
    <2>6. <<r[k + 1], r[k]>> \in S
        BY <2>3, <2>4, <2>5 DEF Guided
    <2>7. Spot(Flow(r, k + 1)) = <<r[k + 1], r[k]>>
        BY <2>1 DEF Spot, Flow, InPort
    <2> QED BY <2>1, <2>6, <2>7
<1>6. PICK m \in Nat : m + 1 = n
    <2>1. n - 1 \in Nat /\ (n - 1) + 1 = n
        BY <1>1
    <2> QED BY <2>1
<1>7. m \in U
    <2> HIDE DEF U
    <2> QED BY <1>4, <1>5, Numbers
<1>8. Spot(Flow(r, n)) \in S
    BY <1>6, <1>7
<1>9. Flow(r, n) \in flows /\ Delivers(Flow(r, n))
    BY <1>1, <1>2, <1>3 DEF Delivers, Flow, OutPort
<1> QED BY <1>8, <1>9 DEF Goal

LEMMA InitHolds == Init => TunnelInv
<1> SUFFICES ASSUME Init PROVE TunnelInv
    OBVIOUS
<1>1. Typed /\ Standing
    BY InitTyped, InitStands
<1>2. OnTheWay
    BY DEF OnTheWay, Init, AtWork, Installing
<1> QED BY <1>1, <1>2 DEF TunnelInv, Promised

-----------------------------------------------------------------------------
(***************************************************************************)
(* What each step keeps of it                                              *)
(***************************************************************************)
Kept == ~excused' => OnTheWay' /\ Promised'

\* A step of the handler h that leaves the network alone keeps the others on their ways.
LEMMA WaysKept ==
    ASSUME Typed, OnTheWay, UNCHANGED network, NEW h \in Handlers,
           \A k \in Handlers \ {h} : pc'[k] = pc[k] /\ job'[k] = job[k],
           pc'[h] \in AtWork => Way(job'[h].route)
    PROVE  OnTheWay'
<1>1. \A r : Way(r)' <=> Way(r)
    BY CarryingSame DEF Way, IsPath
<1> QED BY <1>1 DEF OnTheWay

LEMMA RouteNotUsing ==
    ASSUME NEW r \in Seq(Switches), NEW D, NEW L, ~UsesFailure(r, D, L)
    PROVE  \A i \in 1..Len(r) - 1 : /\ <<r[i], r[i + 1]>> \notin Ends(L)
                                    /\ r[i] \notin D /\ r[i + 1] \notin D
<1> SUFFICES ASSUME NEW i \in 1..Len(r) - 1
             PROVE  /\ <<r[i], r[i + 1]>> \notin Ends(L)
                    /\ r[i] \notin D /\ r[i + 1] \notin D
    OBVIOUS
<1>1. i \in 1..Len(r) /\ i + 1 \in 1..Len(r) /\ OutPort(r, i) = r[i + 1]
    BY DEF OutPort
<1> QED BY <1>1 DEF UsesFailure

\* Whatever fails is reported: there is an event, and no route at work uses it.
LEMMA FailsKept ==
    ASSUME Typed, TunnelInv, ~excused,
           \/ \E l \in Wires \cap Frail : LinkFails(l)
           \/ \E d \in Switches \cap Frail : DeviceFails(d)
    PROVE  Kept
<1> SUFFICES ASSUME ~excused' PROVE OnTheWay' /\ Promised'
    BY DEF Kept
<1>1. OnTheWay
    BY DEF TunnelInv
<1>2. ASSUME NEW e \in Failure, Report(e), UNCHANGED <<flows, pc, job>>,
             \A l \in Carrying : \/ l \in Carrying'
                                 \/ l \in Ends(e.links)
                                 \/ l[1] \in e.devices \/ l[2] \in e.devices
      PROVE  OnTheWay' /\ Promised'
    <2>1. ~Late(e) /\ events' = Append(events, e)
        BY <1>2 DEF Report
    <2>2. events' # <<>>
        BY <2>1 DEF Typed
    <2>3. ASSUME NEW h \in Handlers, pc[h] \in AtWork
          PROVE  Way(job[h].route)'
        <3>1. PICK r \in Seq(Switches) : r = job[h].route /\ Way(r)
            BY <1>1, <2>3 DEF OnTheWay, Way
        <3>2. ~UsesFailure(r, e.devices, e.links)
            BY <2>1, <3>1 DEF Late
        <3>3. \A i \in 1..Len(r) - 1 : <<r[i], r[i + 1]>> \in Carrying'
            BY <1>2, <3>1, <3>2, RouteNotUsing DEF Way, IsPath
        <3>4. r = job'[h].route
            BY <1>2, <3>1
        <3> QED BY <3>1, <3>3, <3>4 DEF Way, IsPath
    <2> QED BY <1>2, <2>2, <2>3 DEF OnTheWay, Promised, Pending
<1>3. ASSUME NEW l \in Wires \cap Frail, LinkFails(l)
      PROVE  OnTheWay' /\ Promised'
    <2>1. PICK e \in Failure : e = [NoFailure EXCEPT !.links = {l}]
        BY BaseRouteIs DEF NoFailure, Failure
    <2>2. \A m \in Carrying : m \in Carrying' \/ m \in Ends(e.links)
        BY <1>3, <2>1 DEF LinkFails, Carrying, Ends, NoFailure
    <2> QED BY <1>2, <1>3, <2>1, <2>2 DEF LinkFails
<1>4. ASSUME NEW d \in Switches \cap Frail, DeviceFails(d)
      PROVE  OnTheWay' /\ Promised'
    <2>1. PICK e \in Failure : e = [NoFailure EXCEPT !.devices = {d}]
        BY DEF NoFailure, Failure
    <2>2. \A m \in Carrying : m \in Carrying' \/ m[1] \in e.devices \/ m[2] \in e.devices
        BY <1>4, <2>1 DEF DeviceFails, Carrying, NoFailure
    <2> QED BY <1>2, <1>4, <2>1, <2>2 DEF DeviceFails
<1> QED BY <1>3, <1>4

\* What comes back comes to a tunnel that stands, or there is still something to do.
LEMMA ReturnsKept ==
    ASSUME Typed, TunnelInv, ~excused, Returns
    PROVE  Kept
<1> SUFFICES ASSUME ~excused' PROVE OnTheWay' /\ Promised'
    BY DEF Kept
<1>1. OnTheWay /\ Promised /\ (Settled => Reaches)
    BY DEF TunnelInv, Returns
<1>2. UNCHANGED <<events, flows, pc, job>> /\ Carrying \subseteq Carrying'
    BY DEF Returns, Carrying
<1>3. \A a, b : Carries(a, b) => Carries(a, b)'
    BY DEF Returns, Carries
<1>4. OnTheWay'
    <2>1. \A r : Way(r) => Way(r)'
        BY <1>2 DEF Way, IsPath
    <2> QED BY <1>1, <1>2, <2>1 DEF OnTheWay
<1>5. Standing \/ Pending
    <2>1. CASE Settled
        BY <1>1, <2>1, ReachesStands
    <2>2. ASSUME NEW h \in Handlers, pc[h] \in Installing
          PROVE  Connected
        BY <1>1, <2>2, WayConnects DEF OnTheWay, AtWork
    <2>3. CASE ~Settled
        BY <1>1, <2>2, <2>3 DEF Settled, Promised, Pending, Typed, AtWork
    <2> QED BY <2>1, <2>3
<1>6. CASE Pending
    BY <1>2, <1>4, <1>6 DEF Pending, Promised
<1>7. CASE Standing
    <2>1. Standing'
        BY <1>2, <1>3, <1>7, StandsOn DEF Awaited, Hop, Spot
    <2> QED BY <1>4, <2>1 DEF Promised
<1> QED BY <1>5, <1>6, <1>7

\* A handler goes over to plan.
LEMMA ToPlan ==
    ASSUME Typed, OnTheWay, UNCHANGED network, NEW h \in Handlers, NEW j,
           Moves(h, "plan", j)
    PROVE  OnTheWay' /\ Promised'
<1>1. pc'[h] = "plan" /\ \A k \in Handlers \ {h} : pc'[k] = pc[k] /\ job'[k] = job[k]
    BY DEF Moves, Typed
<1>2. pc'[h] \notin AtWork
    BY <1>1 DEF AtWork, Installing
<1> QED BY <1>1, <1>2, WaysKept DEF Pending, Promised

LEMMA StartKept ==
    ASSUME Typed, TunnelInv, ~excused, NEW h \in Handlers, Post(h) \/ Ensure(h)
    PROVE  Kept
<1>1. OnTheWay /\ UNCHANGED network
    BY DEF TunnelInv, Post, Ensure
<1>2. \E j : Moves(h, "plan", j)
    <2>1. CASE Post(h)
        BY <2>1 DEF Post, Moves
    <2>2. CASE Ensure(h)
        <3>1. Moves(h, "plan", job[h])
            BY <2>2 DEF Ensure, Moves, Typed
        <3> QED BY <3>1
    <2> QED BY <2>1, <2>2
<1> QED BY <1>1, <1>2, ToPlan DEF Kept

\* M6 starts, and is about to ensure the tunnel or is excused.
LEMMA RestartKept ==
    ASSUME Typed, NEW h \in Handlers, Restart(h)
    PROVE  Kept
<1> SUFFICES ASSUME ~excused' PROVE OnTheWay' /\ Promised'
    BY DEF Kept
<1>1. pc' = [k \in Handlers |-> IF k = h THEN "plan" ELSE "idle"]
    BY DEF Restart
<1>2. OnTheWay'
    BY <1>1 DEF OnTheWay, AtWork, Installing
<1>3. Pending'
    BY <1>1 DEF Pending
<1> QED BY <1>2, <1>3 DEF Promised

\* A handler takes a way that carries: it deletes first, or stands at the source.
LEMMA FollowKept ==
    ASSUME Typed, OnTheWay, UNCHANGED <<network, events, flows>>, NEW h \in Handlers,
           NEW r, Way(r), Follow(h, r)
    PROVE  OnTheWay' /\ Promised'
<1>0. r \in Seq(Switches) /\ Len(r) > 0 /\ r[1] = Source
    BY DEF Way, IsPath
<1>1. PICK j \in Jobs, there \in {"clean", "look"} :
         j.at = 1 /\ j.route = r /\ Moves(h, there, j)
    BY <1>0, FollowMoves DEF Moves
<1>2. /\ pc'[h] = there /\ job'[h] = j
      /\ \A k \in Handlers \ {h} : pc'[k] = pc[k] /\ job'[k] = job[k]
    BY <1>1 DEF Moves, Typed
<1>3. OnTheWay'
    BY <1>1, <1>2, WaysKept
<1>4. CASE there = "clean"
    BY <1>2, <1>3, <1>4 DEF Promised, Pending
<1>5. CASE there = "look"
    <2>1. Awaited(h)' /\ job'[h].at = 1 /\ job'[h].route[1] = Source
        BY <1>0, <1>1, <1>2, <1>5 DEF Awaited, Installing
    <2>2. Standing'
        <3>1. Spot(Hop(h))' = Entry
            BY <2>1 DEF Hop, Flow, InPort, Spot, Entry
        <3> QED BY <2>1, <3>1 DEF Standing, Guided, Goal
    <2> QED BY <1>3, <2>2 DEF Promised
<1> QED BY <1>4, <1>5

LEMMA StaticKept ==
    ASSUME Typed, TunnelInv, ~excused, NEW h \in Handlers, PlanStatic(h)
    PROVE  Kept
<1> SUFFICES ASSUME ~excused' PROVE OnTheWay' /\ Promised'
    BY DEF Kept
<1>1. PICK e : e = job[h].failed /\ ~StillBroken(BaseRoute, e)
                /\ ~UsesFailure(BaseRoute, e.devices, e.links)
    BY DEF PlanStatic, StaticAffected
<1>2. \A i \in 1..Len(BaseRoute) - 1 : Carries(BaseRoute[i], BaseRoute[i + 1])
    <2>1. \A i \in 1..Len(BaseRoute) - 1 :
             /\ <<BaseRoute[i], BaseRoute[i + 1]>> \notin Ends(e.links)
             /\ BaseRoute[i] \notin e.devices /\ BaseRoute[i + 1] \notin e.devices
        BY <1>1, BaseRouteIs, RouteNotUsing
    <2> QED BY <1>1, <2>1 DEF StillBroken
<1>3. Way(BaseRoute)
    <2>1. \A i \in 1..Len(BaseRoute) - 1 : <<BaseRoute[i], BaseRoute[i + 1]>> \in Carrying
        BY <1>2 DEF Carries, Carrying
    <2> QED BY <2>1, BaseRouteIs DEF Way, IsPath
<1> QED BY <1>3, FollowKept DEF PlanStatic, TunnelInv

\* Without a route the tunnel stands, or there is no way for it.
LEMMA NoRouteLeft ==
    ASSUME NEW e, Path(Remaining(up, e.devices, e.links), Source, Egress) = <<>>,
           ~LeftOut(e) \/ Reaches, Typed
    PROVE  Standing \/ ~Connected
<1>1. CASE Reaches
    BY <1>1, ReachesStands
<1>2. CASE ~LeftOut(e) /\ Connected
    <2>1. PICK p : p = Path(Carrying, Source, Egress) /\ p # <<>>
        BY <1>2, ConnectedIs
    <2>2. p \in Seq(Switches) /\ Apart(p) /\ IsPath(Carrying, p, Source, Egress)
        BY <2>1, FoundIsApart
    <2>3. Carrying \subseteq Remaining(up, e.devices, e.links)
        <3>1. ASSUME NEW l \in Carrying
              PROVE  Carries(l[1], l[2])
            <4>1. l \in up /\ l = <<l[1], l[2]>>
                BY DEF Carrying, Typed, Links
            <4> QED BY <4>1 DEF Carries, Carrying
        <3> QED BY <1>2, <3>1 DEF LeftOut, Carrying
    <2>4. IsPath(Remaining(up, e.devices, e.links), p, Source, Egress)
        BY <2>2, <2>3 DEF IsPath
    <2> QED BY <2>2, <2>4, FoundIfThere
<1> QED BY <1>1, <1>2

LEMMA DynamicKept ==
    ASSUME Typed, TunnelInv, ~excused, NEW h \in Handlers, PlanDynamic(h)
    PROVE  Kept
<1> SUFFICES ASSUME ~excused' PROVE OnTheWay' /\ Promised'
    BY DEF Kept
<1>1. PICK e, L, route :
         /\ e = job[h].failed /\ L = Remaining(up, e.devices, e.links)
         /\ route = Path(L, Source, Egress)
         /\ IF route = <<>> \/ {Source, Egress} \cap e.devices # {} THEN Ended(h)
            ELSE Follow(h, route)
         /\ excused' = (excused \/ StillBroken(route, e)
                                  \/ (route = <<>> /\ LeftOut(e) /\ ~Reaches))
         /\ UNCHANGED <<network, events, flows, bounds>>
    BY DEF PlanDynamic
<1>2. OnTheWay /\ UNCHANGED network
    BY <1>1 DEF TunnelInv
<1>3. CASE route # <<>>
    <2>1. route \in Seq(Switches) /\ Apart(route) /\ IsPath(L, route, Source, Egress)
        BY <1>1, <1>3, FoundIsApart
    <2>2. ASSUME NEW i \in 1..Len(route) - 1
          PROVE  /\ <<route[i], route[i + 1]>> \in Carrying
                 /\ route[i] \notin e.devices /\ route[i + 1] \notin e.devices
        <3>1. <<route[i], route[i + 1]>> \in L
            BY <2>1 DEF IsPath
        <3>2. /\ <<route[i], route[i + 1]>> \in up
              /\ <<route[i], route[i + 1]>> \notin Ends(e.links)
              /\ route[i] \notin e.devices /\ route[i + 1] \notin e.devices
            BY <1>1, <3>1 DEF Remaining
        <3>3. Carries(route[i], route[i + 1])
            <4>1. ~StillBroken(route, e)
                BY <1>1
            <4> QED BY <3>2, <4>1 DEF StillBroken
        <3> QED BY <3>2, <3>3 DEF Carries, Carrying
    <2>3. Way(route)
        BY <2>1, <2>2 DEF Way, IsPath
    <2>4. {Source, Egress} \cap e.devices = {}
        <3>1. PICK n \in Nat : n = Len(route) /\ n > 1
            BY <2>1, RouteApart DEF IsPath
        <3>2. 1 \in 1..n - 1 /\ n - 1 \in 1..n - 1 /\ (n - 1) + 1 = n
            BY <3>1
        <3>3. route[1] \notin e.devices /\ route[n] \notin e.devices
            BY <2>2, <3>1, <3>2
        <3> QED BY <2>1, <3>1, <3>3 DEF IsPath
    <2>5. Follow(h, route)
        BY <1>1, <1>3, <2>4
    <2> QED BY <1>1, <1>2, <2>3, <2>5, FollowKept
<1>4. CASE route = <<>>
    <2>1. PICK j \in Jobs, there \in {"idle", "plan"} : Moves(h, there, j)
        BY <1>1, <1>4, EndedMoves DEF Moves
    <2>2. CASE there = "plan"
        BY <1>2, <2>1, <2>2, ToPlan
    <2>3. CASE there = "idle"
        <3>1. pc'[h] = "idle" /\ \A k \in Handlers \ {h} : pc'[k] = pc[k] /\ job'[k] = job[k]
            BY <2>1, <2>3 DEF Moves, Typed
        <3>2. OnTheWay'
            BY <1>2, <3>1, WaysKept DEF AtWork, Installing
        <3>3. Standing \/ ~Connected
            BY <1>1, <1>4, NoRouteLeft
        <3>4. CASE Standing
            <4>1. pc[h] = "plan"
                BY DEF PlanDynamic
            <4>2. \A k \in Handlers : Awaited(k) => Awaited(k)' /\ Spot(Hop(k))' = Spot(Hop(k))
                BY <3>1, <4>1 DEF Awaited, Installing, Hop, Spot
            <4>3. Standing'
                BY <1>1, <3>4, <4>2, StandsOn DEF Carries, network
            <4> QED BY <3>2, <4>3 DEF Promised
        <3>5. CASE ~Connected
            BY <1>2, <3>2, <3>5, ConnectedSame DEF Promised
        <3> QED BY <3>3, <3>4, <3>5
    <2> QED BY <2>1, <2>2, <2>3
<1> QED BY <1>3, <1>4

LEMMA CleanKept ==
    ASSUME Typed, TunnelInv, ~excused, NEW h \in Handlers,
           Conflicts(h) \/ Delete(h) \/ Deleted(h)
    PROVE  Kept
<1>1. OnTheWay /\ UNCHANGED network /\ pc[h] \in {"clean", "delete"} /\ pc[h] \in AtWork
    BY DEF TunnelInv, Conflicts, Delete, Deleted, AtWork
<1>2. Way(job[h].route)
    BY <1>1 DEF OnTheWay
<1>3. \A k \in Handlers \ {h} : pc'[k] = pc[k] /\ job'[k] = job[k]
    BY <1>1, ForwardMoves DEF Conflicts, Delete, Deleted, GoTo, Onwards, Typed
<1>4. ASSUME pc'[h] \in {"clean", "delete"}, job'[h].route = job[h].route
      PROVE  OnTheWay' /\ Promised'
    BY <1>1, <1>2, <1>3, <1>4, WaysKept DEF Promised, Pending
<1>5. CASE Conflicts(h)
    BY <1>4, <1>5 DEF Conflicts, GoTo, Typed, Jobs, Kept
<1>6. CASE Delete(h)
    BY <1>4, <1>6 DEF Delete, Typed, Jobs, Kept
<1>7. CASE Deleted(h)
    <2>1. CASE Onwards(h, "clean")
        <3>1. pc'[h] = "clean" /\ job'[h].route = job[h].route
            BY <2>1 DEF Onwards, Typed
        <3> QED BY <1>4, <3>1 DEF Kept
    <2>2. CASE job' = [job EXCEPT ![h].at = 1] /\ GoTo(h, "look")
        <3>1. pc'[h] = "look" /\ job'[h].route = job[h].route /\ job'[h].at = 1
            BY <2>2 DEF GoTo, Typed, Jobs
        <3>2. OnTheWay'
            BY <1>1, <1>2, <1>3, <3>1, WaysKept
        <3>3. Standing'
            <4>1. Awaited(h)' /\ job'[h].route[1] = Source
                BY <1>2, <3>1 DEF Awaited, Installing, Way, IsPath
            <4>2. Spot(Hop(h))' = Entry
                BY <3>1, <4>1 DEF Hop, Flow, InPort, Spot, Entry
            <4> QED BY <4>1, <4>2 DEF Standing, Guided, Goal
        <3> QED BY <3>2, <3>3 DEF Promised, Kept
    <2> QED BY <1>1, <1>7, <2>1, <2>2, ForwardMoves DEF Deleted
<1> QED BY <1>5, <1>6, <1>7

\* The flow for the switch is there, and the handler goes on or has done.
LEMMA FlowThere ==
    ASSUME Typed, OnTheWay, Promised, UNCHANGED <<network, events>>,
           NEW h \in Handlers, pc[h] \in Installing,
           Hop(h) \in flows', \A g \in flows : Spot(g) # Spot(Hop(h)) => g \in flows',
           Forward(h, "look", Ended(h))
    PROVE  OnTheWay' /\ Promised'
<1>1. pc[h] \in AtWork /\ Way(job[h].route)
    BY DEF OnTheWay, AtWork
<1>2. Onwards(h, "look") \/ (job[h].at = Len(job[h].route) /\ Ended(h))
    BY <1>1, ForwardMoves
<1>3. \A k \in Handlers \ {h} : pc'[k] = pc[k] /\ job'[k] = job[k]
    BY <1>2, EndedMoves DEF Onwards, Typed
<1>4. OnTheWay'
    <2>1. CASE Onwards(h, "look")
        <3>1. job'[h].route = job[h].route
            BY <2>1 DEF Onwards, Typed
        <3> QED BY <1>1, <1>3, <3>1, WaysKept
    <2>2. CASE Ended(h)
        <3>1. pc'[h] \notin AtWork
            BY <2>2, EndedMoves DEF Typed, AtWork, Installing
        <3> QED BY <1>3, <3>1, WaysKept
    <2> QED BY <1>2, <2>1, <2>2
<1>5. CASE Pending
    <2>1. \A k \in Handlers : pc[k] \in {"plan", "clean", "delete"} => k # h
        BY DEF Installing
    <2>2. Pending'
        BY <1>3, <1>5, <2>1 DEF Pending
    <2> QED BY <1>4, <2>2 DEF Promised
<1>6. CASE Standing
    <2>1. Standing'
        BY <1>1, <1>2, <1>3, <1>6, StandsFurther DEF Awaited
    <2> QED BY <1>4, <2>1 DEF Promised
<1>7. CASE ~Connected
    BY <1>4, <1>7, ConnectedSame DEF Promised
<1> QED BY <1>5, <1>6, <1>7 DEF Promised

LEMMA InstallKept ==
    ASSUME Typed, TunnelInv, ~excused, NEW h \in Handlers,
           AlreadyPresent(h) \/ Missing(h) \/ Install(h)
    PROVE  Kept
<1>1. OnTheWay /\ Promised /\ pc[h] \in Installing /\ pc[h] \in AtWork
    BY DEF TunnelInv, AlreadyPresent, Missing, Install, Installing, AtWork
<1>2. CASE AlreadyPresent(h)
    BY <1>1, <1>2, FlowThere DEF AlreadyPresent, Kept
<1>3. CASE Missing(h)
    <2>1. /\ pc'[h] \in Installing /\ job' = job
          /\ \A k \in Handlers \ {h} : pc'[k] = pc[k] /\ job'[k] = job[k]
        BY <1>3 DEF Missing, GoTo, Typed, Installing
    <2>2. OnTheWay'
        BY <1>1, <1>3, <2>1, WaysKept DEF Missing, OnTheWay
    <2>3. CASE Pending
        <3>1. \A k \in Handlers : pc[k] \in {"plan", "clean", "delete"} => k # h
            BY <1>1 DEF Installing
        <3>2. Pending'
            BY <1>3, <2>1, <2>3, <3>1 DEF Pending, Missing
        <3> QED BY <2>2, <3>2 DEF Promised, Kept
    <2>4. CASE Standing
        <3>1. \A k \in Handlers : Awaited(k) => Awaited(k)' /\ Spot(Hop(k))' = Spot(Hop(k))
            BY <2>1 DEF Awaited, Hop, Spot
        <3>2. Standing'
            BY <1>3, <2>4, <3>1, StandsOn DEF Missing, Carries, network
        <3> QED BY <2>2, <3>2 DEF Promised, Kept
    <2>5. CASE ~Connected
        BY <1>3, <2>2, <2>5, ConnectedSame DEF Promised, Kept, Missing
    <2> QED BY <1>1, <2>3, <2>4, <2>5 DEF Promised
<1>4. CASE Install(h)
    <2>1. Hop(h) \in flows'
        BY <1>4 DEF Install, Replaced
    <2>2. \A g \in flows : Spot(g) # Spot(Hop(h)) => g \in flows'
        BY <1>4 DEF Install, Replaced, SameSelector, Spot
    <2> QED BY <1>1, <1>4, <2>1, <2>2, FlowThere DEF Install, Kept
<1> QED BY <1>2, <1>3, <1>4

LEMMA NextHolds == TunnelInv /\ [Next]_vars => TunnelInv'
<1> SUFFICES ASSUME TunnelInv, [Next]_vars PROVE TunnelInv'
    OBVIOUS
<1>1. Typed /\ Typed'
    BY NextTyped DEF TunnelInv
<1>2. CASE excused
    <2>1. excused'
        BY <1>1, <1>2 DEF Next, vars, LinkFails, DeviceFails, Report, Returns, EventLost,
              Fault, Post, Ensure, Restart, PlanStatic, PlanDynamic, LinksUnread, Conflicts, Delete,
              DeleteFails, Deleted, AlreadyPresent, Missing, Install, InstallFails
    <2> QED BY <1>1, <2>1 DEF TunnelInv
<1>3. CASE ~excused /\ UNCHANGED vars
    <2>1. OnTheWay /\ Promised
        BY <1>3 DEF TunnelInv
    <2>2. UNCHANGED <<up, away, flows, events, pc, job, network>>
        BY <1>3 DEF vars, network
    <2>3. OnTheWay'
        BY <2>1, <2>2, CarryingSame DEF OnTheWay, Way, IsPath
    <2>4. Pending => Pending'
        BY <2>2 DEF Pending
    <2>5. Standing => Standing'
        BY <2>2, StandsOn DEF Awaited, Hop, Spot, Carries
    <2>6. Connected' <=> Connected
        BY <2>2, ConnectedSame
    <2> QED BY <1>1, <2>1, <2>3, <2>4, <2>5, <2>6 DEF TunnelInv, Promised
<1>4. CASE ~excused /\ Next
    <2>1. CASE excused'
        BY <1>1, <2>1 DEF TunnelInv
    <2>2. CASE ~excused'
        <3>1. Kept
            BY <1>1, <1>4, <2>2, FailsKept, ReturnsKept, StartKept, RestartKept, StaticKept,
               DynamicKept, CleanKept, InstallKept
               DEF Next, EventLost, LinksUnread, DeleteFails, InstallFails, Fault
        <3> QED BY <1>1, <2>2, <3>1 DEF Kept, TunnelInv
    <2> QED BY <2>1, <2>2
<1> QED BY <1>2, <1>3, <1>4

LEMMA TunnelInvStands == TunnelInv => TunnelStands
<1> SUFFICES ASSUME TunnelInv, Settled, ~excused, Connected PROVE Reaches
    BY DEF TunnelStands
<1>1. Typed /\ Promised /\ ~Pending
    BY DEF TunnelInv, Settled, Pending
<1>2. \A h \in Handlers : ~Awaited(h)
    BY DEF Settled, Awaited, Installing
<1> QED BY <1>1, <1>2, StandsReaches DEF Promised

-----------------------------------------------------------------------------
\* The mirrored packets arrive when M6 has dealt with all it was told of and there is a
\* way for them, unless something of the listed kind has happened (asegurar_monitoring_gre
\* and _monitoring_gre_plan, as procesar_failover_event and the endpoint call them).
THEOREM TunnelHolds == Spec => []TunnelStands
BY InitHolds, NextHolds, TunnelInvStands, PTL DEF Spec
=============================================================================
