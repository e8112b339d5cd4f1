---------------------------- MODULE FailoverProofs ----------------------------
(***************************************************************************)
(* The search finds the best path there is, every variable keeps its type, *)
(* M6 knows the flows of its sessions, and a session that a path was       *)
(* installed for has a path that works once M6 has nothing left to do,     *)
(* whatever the topology, the sessions and the handlers at work.           *)
(*                                                                         *)
(* The search: the paths of the queue are the best ones to their last      *)
(* switches, they wait in the order of their lengths and of their names,   *)
(* and all that lies behind them has been visited.                         *)
(*                                                                         *)
(* The flows: the invariant says what a handler holds at each place: flows *)
(* still to install only while it installs, for the session it serves, and *)
(* flows still to delete only while it deletes.  So nothing a handler      *)
(* holds is dropped when it goes on to something else, and a flow passes   *)
(* from the handler to the dictionary, or back, with nobody left not to    *)
(* know it.  What a restart leaves behind unknown is among the forgotten   *)
(* flows until it is installed anew.                                       *)
(*                                                                         *)
(* The ways of the sessions: a handler that installs a path claims that    *)
(* each of its flows is in ONOS or still in its hands, and a session that  *)
(* is not excused has the flows of its recorded path in ONOS, or there is  *)
(* an event, a plan or a handler that will see to it.                      *)
(***************************************************************************)
EXTENDS Failover, TLAPS, FiniteSetTheorems, SequenceTheorems, WellFoundedInduction

-----------------------------------------------------------------------------
(***************************************************************************)
(* Numbers: induction, and functions built step by step                    *)
(***************************************************************************)
\* Any set of numbers that is not empty has a least one.
LEMMA LeastNumber ==
    ASSUME NEW T \in SUBSET Nat, T # {}
    PROVE  \E n \in T : \A k \in T : n <= k
<1>1. PICK R : IsWellFoundedOn(R, Nat) /\ \A m, n \in Nat : <<m, n>> \in R <=> m < n
    <2>1. \A m, n \in Nat : <<m, n>> \in OpToRel(<, Nat) <=> m < n
        BY DEF OpToRel
    <2> QED BY <2>1, NatLessThanWellFounded, Zenon
<1>2. PICK n \in T : \A k \in T : ~(<<k, n>> \in R)
    <2>1. T \subseteq Nat /\ T # {} /\ IsWellFoundedOn(R, Nat)
        BY <1>1
    <2> QED BY ONLY <2>1, WFMin, Zenon
<1>3. \A k \in T : k \in Nat /\ n \in Nat /\ ~(k < n)
    BY <1>1, <1>2
<1> QED BY <1>2, <1>3

\* A set of numbers that has zero and the successor of each of its members has them all.
LEMMA AllNumbers ==
    ASSUME NEW T, 0 \in T, \A n \in Nat : n \in T => n + 1 \in T
    PROVE  Nat \subseteq T
<1> SUFFICES ASSUME Nat \ T # {}
             PROVE  FALSE
    OBVIOUS
<1>1. PICK n \in Nat \ T : \A k \in Nat \ T : n <= k
    BY LeastNumber
<1>2. n # 0 /\ n - 1 \in Nat /\ n - 1 \in T
    BY <1>1
<1>3. (n - 1) + 1 = n
    BY <1>1
<1> QED BY <1>1, <1>2, <1>3

Builds(g, n, start, step) ==
    /\ g[0] = start
    /\ \A k \in Nat : k < n => g[k + 1] = step[k][g[k]]

\* f starts at start and takes a step with each number.
Iterates(f, V, start, step) ==
    /\ f \in [Nat -> V] /\ f[0] = start
    /\ \A n \in Nat : f[n + 1] = step[n][f[n]]

\* Steps can be taken one after the other for ever.
LEMMA StepsExist ==
    ASSUME NEW V, NEW start \in V, NEW step \in [Nat -> [V -> V]]
    PROVE  \E f : Iterates(f, V, start, step)
<1> DEFINE B(g, n) == Builds(g, n, start, step)
           T == {n \in Nat : \E g \in [0..n -> V] : B(g, n)}
           g(n) == CHOOSE h \in [0..n -> V] : B(h, n)
           f == [n \in Nat |-> g(n)[n]]
<1>1. Nat \subseteq T
    <2>1. 0 \in T
        <3>1. [k \in 0..0 |-> start] \in [0..0 -> V] /\ B([k \in 0..0 |-> start], 0)
            BY DEF Builds
        <3> QED BY <3>1
    <2>2. ASSUME NEW n \in Nat, n \in T
          PROVE  n + 1 \in T
        <3>1. PICK h \in [0..n -> V] : B(h, n)
            BY <2>2
        <3> DEFINE e == [k \in 0..(n + 1) |-> IF k <= n THEN h[k] ELSE step[n][h[n]]]
        <3>2. e \in [0..(n + 1) -> V]
            BY <3>1
        <3>3. B(e, n + 1)
            <4>1. e[0] = start
                BY <3>1 DEF Builds
            <4>2. ASSUME NEW k \in Nat, k < n + 1
                  PROVE  e[k + 1] = step[k][e[k]]
                <5>1. CASE k < n
                    <6>1. h[k + 1] = step[k][h[k]]
                        BY <3>1, <5>1 DEF Builds
                    <6> QED BY <5>1, <6>1
                <5>2. CASE k = n
                    BY <5>2
                <5> QED BY <4>2, <5>1, <5>2
            <4> QED BY <4>1, <4>2 DEF Builds
        <3> HIDE DEF e
        <3> QED BY <3>2, <3>3
    <2> HIDE DEF T
    <2> QED BY <2>1, <2>2, AllNumbers
<1>2. ASSUME NEW n \in Nat
      PROVE  g(n) \in [0..n -> V] /\ B(g(n), n)
    BY <1>1
<1> HIDE DEF B, g
<1>3. ASSUME NEW n \in Nat, NEW k \in Nat, k <= n
      PROVE  g(n)[k] = g(n + 1)[k]
    <2> DEFINE U == {m \in Nat : m <= n => g(n)[m] = g(n + 1)[m]}
    <2>1. 0 \in U
        BY <1>2 DEF B, Builds
    <2>2. ASSUME NEW m \in Nat, m \in U
          PROVE  m + 1 \in U
        <3> SUFFICES ASSUME m + 1 <= n
                     PROVE  g(n)[m + 1] = g(n + 1)[m + 1]
            OBVIOUS
        <3>1. g(n)[m] = g(n + 1)[m] /\ m < n /\ m < n + 1
            BY <2>2
        <3>2. g(n)[m + 1] = step[m][g(n)[m]]
            BY <1>2, <3>1 DEF B, Builds
        <3>3. g(n + 1)[m + 1] = step[m][g(n + 1)[m]]
            BY <1>2, <3>1 DEF B, Builds
        <3> QED BY <3>1, <3>2, <3>3
    <2> HIDE DEF U
    <2>3. k \in U
        BY <2>1, <2>2, AllNumbers
    <2> QED BY <2>3, <1>3 DEF U
<1>4. f \in [Nat -> V]
    BY <1>2
<1>5. f[0] = start
    BY <1>2 DEF B, Builds
<1>6. ASSUME NEW n \in Nat
      PROVE  f[n + 1] = step[n][f[n]]
    <2>1. g(n + 1)[n + 1] = step[n][g(n + 1)[n]]
        BY <1>2 DEF B, Builds
    <2>2. g(n)[n] = g(n + 1)[n]
        BY <1>3
    <2> QED BY <2>1, <2>2
<1>7. Iterates(f, V, start, step)
    <2> HIDE DEF f
    <2> QED BY <1>4, <1>5, <1>6 DEF Iterates
<1> QED BY <1>7

-----------------------------------------------------------------------------
(***************************************************************************)
(* The switches of a set in the order of their names                       *)
(***************************************************************************)
LEMMA SortedAmong ==
    ASSUME NEW S \in SUBSET Switches
    PROVE  \E f \in [Nat -> Seq(Switches)] :
              /\ f[0] = <<>>
              /\ \A i \in 1..Len(Order) :
                    f[i] = IF Order[i] \in S THEN Append(f[i - 1], Order[i]) ELSE f[i - 1]
              /\ Sorted[S] = f[Len(Order)]
<1>1. PICK V : V = Seq(Switches)
    OBVIOUS
<1>2. PICK start \in V : start = <<>>
    <2>1. <<>> \in V
        BY <1>1
    <2> QED BY <2>1
<1>3. PICK step \in [Nat -> [V -> V]] :
         \A n \in Nat, s \in V :
            step[n][s] = IF n + 1 \in 1..Len(Order) /\ Order[n + 1] \in S
                         THEN Append(s, Order[n + 1]) ELSE s
    <2> DEFINE to == [n \in Nat |-> [s \in V |->
                        IF n + 1 \in 1..Len(Order) /\ Order[n + 1] \in S
                        THEN Append(s, Order[n + 1]) ELSE s]]
    <2>1. ASSUME NEW n \in Nat, NEW s \in V, n + 1 \in 1..Len(Order)
          PROVE  Append(s, Order[n + 1]) \in V
        <3>1. Order[n + 1] \in Switches
            BY <2>1, TopologyConstants DEF TopologyConstants
        <3> QED BY <1>1, <3>1
    <2>2. to \in [Nat -> [V -> V]]
        BY <2>1
    <2>3. \A n \in Nat, s \in V :
             to[n][s] = IF n + 1 \in 1..Len(Order) /\ Order[n + 1] \in S
                        THEN Append(s, Order[n + 1]) ELSE s
        OBVIOUS
    <2> QED BY <2>2, <2>3, Zenon
<1>4. PICK f : Iterates(f, V, start, step)
    BY <1>2, <1>3, StepsExist
<1>5. ASSUME NEW i \in 1..Len(Order)
      PROVE  f[i] = IF Order[i] \in S THEN Append(f[i - 1], Order[i]) ELSE f[i - 1]
    <2>1. i - 1 \in Nat /\ (i - 1) + 1 = i /\ f[i - 1] \in V
        BY <1>4 DEF Iterates
    <2>2. f[(i - 1) + 1] = step[i - 1][f[i - 1]]
        BY <1>4, <2>1 DEF Iterates
    <2> QED BY <1>3, <2>1, <2>2
<1>6. Len(Order) \in Nat
    BY TopologyConstants DEF TopologyConstants
<1>7. PICK among :
         /\ among = [i \in 0..Len(Order) |->
                        IF i = 0 THEN <<>>
                        ELSE IF Order[i] \in S THEN Append(among[i - 1], Order[i]) ELSE among[i - 1]]
         /\ Sorted[S] = among[Len(Order)]
    <2> DEFINE Is(g) == g = [i \in 0..Len(Order) |->
                                IF i = 0 THEN <<>>
                                ELSE IF Order[i] \in S THEN Append(g[i - 1], Order[i]) ELSE g[i - 1]]
               r == [i \in 0..Len(Order) |-> f[i]]
    <2>1. Is(r)
        <3>1. \A i \in 0..Len(Order) : i # 0 => i \in 1..Len(Order) /\ i - 1 \in 0..Len(Order)
            BY <1>6
        <3>2. \A i \in 0..Len(Order) :
                 f[i] = IF i = 0 THEN <<>>
                        ELSE IF Order[i] \in S THEN Append(r[i - 1], Order[i]) ELSE r[i - 1]
            BY <1>2, <1>4, <1>5, <3>1 DEF Iterates
        <3> QED BY <3>2
    <2>2. Sorted[S] = (CHOOSE g : Is(g))[Len(Order)]
        BY DEF Sorted
    <2>3. Is(CHOOSE g : Is(g))
        <3> HIDE DEF Is
        <3> QED BY <2>1
    <2> QED BY <2>2, <2>3
<1>8. \A i \in 0..Len(Order) :
         among[i] = IF i = 0 THEN <<>>
                    ELSE IF Order[i] \in S THEN Append(among[i - 1], Order[i]) ELSE among[i - 1]
    BY <1>7, Zenon
<1> DEFINE U == {i \in Nat : i <= Len(Order) => among[i] = f[i]}
<1>9. 0 \in U
    BY <1>2, <1>4, <1>6, <1>8 DEF Iterates
<1>10. ASSUME NEW n \in Nat, n \in U
       PROVE  n + 1 \in U
    <2> SUFFICES ASSUME n + 1 <= Len(Order)
                 PROVE  among[n + 1] = f[n + 1]
        OBVIOUS
    <2>1. among[n] = f[n] /\ n + 1 \in 1..Len(Order) /\ n + 1 \in 0..Len(Order) /\ (n + 1) - 1 = n
        BY <1>6, <1>10
    <2>2. among[n + 1] = IF Order[n + 1] \in S THEN Append(among[n], Order[n + 1]) ELSE among[n]
        BY <1>8, <2>1
    <2> QED BY <1>5, <2>1, <2>2
<1>11. Len(Order) \in U
    <2> HIDE DEF U
    <2> QED BY <1>6, <1>9, <1>10, AllNumbers
<1>12. Sorted[S] = f[Len(Order)]
    BY <1>6, <1>7, <1>11
<1> QED BY <1>1, <1>2, <1>4, <1>5, <1>12, Zenon DEF Iterates

LEMMA RankIs ==
    /\ Len(Order) \in Nat
    /\ \A i \in 1..Len(Order) : Order[i] \in Switches /\ Rank(Order[i]) = i
    /\ \A d \in Switches : Rank(d) \in 1..Len(Order) /\ Rank(d) \in Nat /\ Order[Rank(d)] = d
<1>1. Len(Order) \in Nat /\ \A i \in 1..Len(Order) : Order[i] \in Switches
    BY TopologyConstants DEF TopologyConstants
<1>2. ASSUME NEW d \in Switches
      PROVE  Rank(d) \in 1..Len(Order) /\ Rank(d) \in Nat /\ Order[Rank(d)] = d
    BY <1>1, TopologyConstants DEF TopologyConstants, Rank
<1>3. ASSUME NEW i \in 1..Len(Order)
      PROVE  Rank(Order[i]) = i
    BY <1>1, <1>2, TopologyConstants DEF TopologyConstants
<1> QED BY <1>1, <1>2, <1>3

\* sorted() gives the members of the set, each before those that come after it by name.
LEMMA SortedIs ==
    ASSUME NEW S \in SUBSET Switches
    PROVE  /\ Sorted[S] \in Seq(Switches)
           /\ Members(Sorted[S]) = S
           /\ \A i, j \in 1..Len(Sorted[S]) : i < j => Rank(Sorted[S][i]) < Rank(Sorted[S][j])
<1>1. PICK f \in [Nat -> Seq(Switches)] :
         /\ f[0] = <<>>
         /\ \A i \in 1..Len(Order) :
               f[i] = IF Order[i] \in S THEN Append(f[i - 1], Order[i]) ELSE f[i - 1]
         /\ Sorted[S] = f[Len(Order)]
    BY SortedAmong
<1> DEFINE Good(n) ==
               /\ \A i \in 1..Len(f[n]) : f[n][i] \in S /\ Rank(f[n][i]) <= n
               /\ \A k \in 1..n : Order[k] \in S => \E i \in 1..Len(f[n]) : f[n][i] = Order[k]
               /\ \A i, j \in 1..Len(f[n]) : i < j => Rank(f[n][i]) < Rank(f[n][j])
           U == {n \in Nat : n <= Len(Order) => Good(n)}
<1>2. 0 \in U
    BY <1>1
<1>3. ASSUME NEW n \in Nat, n \in U
      PROVE  n + 1 \in U
    <2> SUFFICES ASSUME n + 1 <= Len(Order)
                 PROVE  Good(n + 1)
        <3> HIDE DEF Good
        <3> QED OBVIOUS
    <2>1. /\ n + 1 \in 1..Len(Order) /\ (n + 1) - 1 = n /\ Good(n)
          /\ f[n] \in Seq(Switches) /\ Len(f[n]) \in Nat
        <3>1. n <= Len(Order) /\ n + 1 \in 1..Len(Order) /\ (n + 1) - 1 = n
            BY RankIs
        <3>2. f[n] \in Seq(Switches)
            BY <1>1
        <3>3. Len(f[n]) \in Nat
            BY <3>2, LenProperties
        <3>4. Good(n)
            <4> HIDE DEF Good
            <4> QED BY <1>3, <3>1
        <3> HIDE DEF Good
        <3> QED BY <3>1, <3>2, <3>3, <3>4
    <2>2. Order[n + 1] \in Switches /\ Rank(Order[n + 1]) = n + 1
        BY <2>1, RankIs
    <2> HIDE DEF Good
    <2>3. \A i \in 1..Len(f[n]) : f[n][i] \in Switches /\ Rank(f[n][i]) \in Nat
        <3>1. \A i \in 1..Len(f[n]) : f[n][i] \in Switches
            BY <2>1, ElementOfSeq
        <3> QED BY <3>1, RankIs
    <2> USE DEF Good
    <2>4. CASE Order[n + 1] \notin S
        <3>1. f[n + 1] = f[n]
            BY <1>1, <2>1, <2>4
        <3>2. \A k \in 1..(n + 1) : Order[k] \in S => k \in 1..n
            <4>1. \A k \in 1..(n + 1) : k \in 1..n \/ k = n + 1
                OBVIOUS
            <4> QED BY <2>4, <4>1
        <3>3. ASSUME NEW i \in 1..Len(f[n])
              PROVE  f[n][i] \in S /\ Rank(f[n][i]) <= n + 1
            <4>1. f[n][i] \in S /\ Rank(f[n][i]) <= n
                BY <2>1
            <4>2. Rank(f[n][i]) \in Nat
                BY <2>3
            <4> QED BY <4>1, <4>2
        <3> QED BY <2>1, <3>1, <3>2, <3>3
    <2>5. CASE Order[n + 1] \in S
        <3> DEFINE o == Order[n + 1]
        <3>1. f[n + 1] = Append(f[n], o)
            BY <1>1, <2>1, <2>5
        <3>2. /\ Len(f[n + 1]) = Len(f[n]) + 1
              /\ \A i \in 1..Len(f[n]) : f[n + 1][i] = f[n][i]
              /\ f[n + 1][Len(f[n]) + 1] = o
            BY <2>1, <2>2, <3>1
        <3>3. ASSUME NEW i \in 1..Len(f[n + 1])
              PROVE  i \in 1..Len(f[n]) \/ i = Len(f[n]) + 1
            <4>1. Len(f[n]) \in Nat /\ Len(f[n + 1]) = Len(f[n]) + 1
                BY <2>1, <3>2
            <4> QED BY <4>1
        <3> HIDE DEF o
        <3>4. Rank(o) = n + 1 /\ o = Order[n + 1] /\ o \in S
            BY <2>2, <2>5 DEF o
        <3>5. \A i \in 1..Len(f[n + 1]) : f[n + 1][i] \in S /\ Rank(f[n + 1][i]) <= n + 1
            <4> SUFFICES ASSUME NEW i \in 1..Len(f[n + 1])
                         PROVE  f[n + 1][i] \in S /\ Rank(f[n + 1][i]) <= n + 1
                OBVIOUS
            <4>1. CASE i \in 1..Len(f[n])
                <5>1. f[n + 1][i] = f[n][i] /\ f[n][i] \in S /\ Rank(f[n][i]) <= n
                    BY <2>1, <3>2, <4>1
                <5> QED BY <2>3, <4>1, <5>1
            <4>2. CASE i = Len(f[n]) + 1
                <5>1. f[n + 1][i] = o
                    BY <3>2, <4>2
                <5> QED BY <3>4, <5>1
            <4> QED BY <3>3, <4>1, <4>2
        <3>6. ASSUME NEW k \in 1..(n + 1), Order[k] \in S
              PROVE  \E i \in 1..Len(f[n + 1]) : f[n + 1][i] = Order[k]
            <4>1. CASE k = n + 1
                <5>1. Len(f[n]) + 1 \in 1..Len(f[n + 1])
                    BY <2>1, <3>2
                <5> QED BY <3>2, <3>4, <4>1, <5>1
            <4>2. CASE k \in 1..n
                <5>1. PICK i \in 1..Len(f[n]) : f[n][i] = Order[k]
                    BY <2>1, <3>6, <4>2
                <5>2. i \in 1..Len(f[n + 1]) /\ f[n + 1][i] = Order[k]
                    BY <2>1, <3>2, <5>1
                <5> QED BY <5>2
            <4>3. k = n + 1 \/ k \in 1..n
                OBVIOUS
            <4> QED BY <4>1, <4>2, <4>3
        <3>7. ASSUME NEW i \in 1..Len(f[n + 1]), NEW j \in 1..Len(f[n + 1]), i < j
              PROVE  Rank(f[n + 1][i]) < Rank(f[n + 1][j])
            <4>1. i \in 1..Len(f[n])
                BY <2>1, <3>2, <3>3, <3>7
            <4>2. CASE j \in 1..Len(f[n])
                BY <2>1, <3>2, <3>7, <4>1, <4>2
            <4>3. CASE j = Len(f[n]) + 1
                BY <2>1, <2>3, <3>2, <3>4, <4>1, <4>3
            <4> QED BY <3>3, <4>2, <4>3
        <3> QED BY <3>5, <3>6, <3>7
    <2> QED BY <2>4, <2>5
<1>4. Good(Len(Order))
    <2>1. Len(Order) \in U
        <3> HIDE DEF U
        <3> QED BY <1>2, <1>3, AllNumbers, RankIs
    <2> HIDE DEF Good
    <2> QED BY <2>1, RankIs
<1>5. Members(Sorted[S]) = S
    <2>1. ASSUME NEW d \in S
          PROVE  d \in Members(Sorted[S])
        <3>1. Rank(d) \in 1..Len(Order) /\ Order[Rank(d)] = d
            BY RankIs
        <3> QED BY <1>1, <1>4, <3>1 DEF Members
    <2> QED BY <1>1, <1>4, <2>1 DEF Members
<1> QED BY <1>1, <1>4, <1>5, RankIs

-----------------------------------------------------------------------------
(***************************************************************************)
(* The invariant of the search                                             *)
(***************************************************************************)
End(p) == p[Len(p)]
Tips(b) == {End(b.queue[i]) : i \in 1..Len(b.queue)}

\* p comes before q by one of the first n switches.
Ahead(p, q, n) ==
    \E i \in 1..n :
        /\ Rank(p[i]) < Rank(q[i])
        /\ \A k \in 1..i - 1 : p[k] = q[k]

Searches == [queue : Seq(Seq(Switches)), visited : SUBSET Switches, found : Seq(Switches)]

Queued(links, src, b) ==
    \A i \in 1..Len(b.queue) :
        /\ b.queue[i] # <<>> /\ End(b.queue[i]) \in b.visited
        /\ Best(links, src, End(b.queue[i]), b.queue[i])

InOrder(b) ==
    \A i, j \in 1..Len(b.queue) :
        i < j =>
        LET p == b.queue[i]
            q == b.queue[j]
        IN /\ End(p) # End(q)
           /\ \/ Len(q) = Len(p) /\ Ahead(p, q, Len(p))
              \/ Len(q) = Len(p) + 1 /\ Ahead(q, p, Len(p))

Closed(links, b) == \A d \in b.visited \ Tips(b) : Neighbours(links, d) \subseteq b.visited

Searching(links, src, dst, b) ==
    /\ src \in b.visited /\ dst \notin b.visited /\ b.found = <<>>
    /\ Queued(links, src, b) /\ InOrder(b) /\ Closed(links, b)

Reached(links, src, dst, b) == b.found # <<>> /\ Best(links, src, dst, b.found)

LEMMA AheadTransitive ==
    ASSUME NEW n \in Nat, NEW p, NEW q, NEW r,
           \A i \in 1..n : p[i] \in Switches /\ q[i] \in Switches /\ r[i] \in Switches,
           Ahead(p, q, n), Ahead(q, r, n)
    PROVE  Ahead(p, r, n)
<1>1. PICK i \in 1..n : Rank(p[i]) < Rank(q[i]) /\ \A k \in 1..i - 1 : p[k] = q[k]
    BY DEF Ahead
<1>2. PICK j \in 1..n : Rank(q[j]) < Rank(r[j]) /\ \A k \in 1..j - 1 : q[k] = r[k]
    BY DEF Ahead
<1>3. \A k \in 1..n : Rank(p[k]) \in Nat /\ Rank(q[k]) \in Nat /\ Rank(r[k]) \in Nat
    BY RankIs
<1>4. CASE i < j
    <2>1. q[i] = r[i] /\ \A k \in 1..i - 1 : p[k] = r[k]
        BY <1>1, <1>2, <1>4
    <2> QED BY <1>1, <2>1 DEF Ahead
<1>5. CASE j < i
    <2>1. p[j] = q[j] /\ \A k \in 1..j - 1 : p[k] = r[k]
        BY <1>1, <1>2, <1>5
    <2> QED BY <1>2, <2>1 DEF Ahead
<1>6. CASE i = j
    <2>1. \A k \in 1..i - 1 : p[k] = r[k]
        BY <1>1, <1>2, <1>6
    <2>2. Rank(p[i]) < Rank(r[i])
        BY <1>1, <1>2, <1>3, <1>6
    <2> QED BY <2>1, <2>2 DEF Ahead
<1> QED BY <1>4, <1>5, <1>6

\* The first n switches decide, whatever comes after them.
LEMMA AheadPrefix ==
    ASSUME NEW n \in Nat, NEW m \in Nat, n <= m, NEW p, NEW q, NEW s, NEW t,
           \A i \in 1..n : p[i] = s[i], \A i \in 1..n : q[i] = t[i],
           Ahead(p, q, n)
    PROVE  Ahead(s, t, m)
<1>1. PICK i \in 1..n : Rank(p[i]) < Rank(q[i]) /\ \A k \in 1..i - 1 : p[k] = q[k]
    BY DEF Ahead
<1>2. i \in 1..m /\ Rank(s[i]) < Rank(t[i]) /\ \A k \in 1..i - 1 : s[k] = t[k]
    BY <1>1
<1> QED BY <1>2 DEF Ahead

LEMMA BeforeIsAhead == \A p, q : Before(p, q) <=> Ahead(p, q, Len(p))
BY DEF Before, Ahead

LEMMA FirstOfQueue ==
    ASSUME NEW links, NEW src, NEW dst, NEW b \in Searches, Searching(links, src, dst, b),
           b.queue # <<>>
    PROVE  /\ Len(b.queue) \in Nat \ {0} /\ b.queue[1] \in Seq(Switches)
           /\ Len(b.queue[1]) \in Nat \ {0} /\ End(b.queue[1]) \in Switches
           /\ \A i \in 1..Len(b.queue) : /\ b.queue[i] \in Seq(Switches)
                                         /\ Len(b.queue[i]) \in Nat \ {0}
                                         /\ Len(b.queue[i]) >= Len(b.queue[1])
<1>1. b.queue \in Seq(Seq(Switches)) /\ Len(b.queue) \in Nat \ {0}
    BY DEF Searches
<1>2. \A i \in 1..Len(b.queue) : b.queue[i] \in Seq(Switches)
    BY <1>1
<1>3. \A i \in 1..Len(b.queue) : Len(b.queue[i]) \in Nat \ {0} /\ End(b.queue[i]) \in Switches
    BY <1>1, <1>2 DEF Searching, Queued, Searches
<1>4. ASSUME NEW i \in 1..Len(b.queue)
      PROVE  Len(b.queue[i]) >= Len(b.queue[1])
    BY <1>1, <1>3 DEF Searching, InOrder
<1> QED BY <1>1, <1>2, <1>3, <1>4

\* All that a path no longer than the first of the queue visits has been visited.
LEMMA WithinReach ==
    ASSUME NEW links, NEW src, NEW dst, NEW b \in Searches, Searching(links, src, dst, b),
           NEW n \in Nat \ {0}, NEW r \in [1..n -> Switches], r[1] = src,
           \A i \in 1..n - 1 : <<r[i], r[i + 1]>> \in links,
           b.queue = <<>> \/ n <= Len(b.queue[1])
    PROVE  \A i \in 1..n : r[i] \in b.visited
<1> DEFINE U == {i \in Nat : i + 1 <= n => r[i + 1] \in b.visited}
<1>1. 0 \in U
    BY DEF Searching
<1>2. ASSUME NEW i \in Nat, i \in U
      PROVE  i + 1 \in U
    <2> SUFFICES ASSUME NEW m, m = i + 1, m + 1 <= n
                 PROVE  r[m + 1] \in b.visited
        OBVIOUS
    <2>1. m \in 1..n - 1 /\ m + 1 \in 1..n /\ m \in 1..n /\ r[m] \in b.visited
        BY <1>2
    <2>2. <<r[m], r[m + 1]>> \in links /\ r[m + 1] \in Switches
        BY <2>1
    <2>3. CASE r[m] \notin Tips(b)
        BY <2>1, <2>2, <2>3 DEF Searching, Closed, Neighbours
    <2>4. CASE r[m] \in Tips(b)
        <3>1. PICK k \in 1..Len(b.queue) : End(b.queue[k]) = r[m]
            BY <2>4 DEF Tips
        <3>2. b.queue # <<>>
            BY <3>1
        <3>3. Len(b.queue[k]) >= Len(b.queue[1]) /\ Len(b.queue[k]) \in Nat /\ Len(b.queue[1]) \in Nat
            BY <3>1, <3>2, FirstOfQueue
        <3>4. m \in 1..Len(b.queue[k]) - 1
            BY <2>1, <3>2, <3>3
        <3>5. PathsOf(links, src, r[m], m) = {}
            <4>1. b.queue[k] # <<>> /\ Best(links, src, r[m], b.queue[k])
                BY <3>1 DEF Searching, Queued
            <4> QED BY <3>4, <4>1 DEF Best
        <3> DEFINE p == [x \in 1..m |-> r[x]]
        <3>6. p \in [1..m -> Switches] /\ Len(p) = m
            BY <2>1
        <3>7. IsPath(links, p, src, r[m])
            BY <2>1, <3>6 DEF IsPath
        <3> HIDE DEF p
        <3> QED BY <3>5, <3>6, <3>7 DEF PathsOf
    <2> QED BY <2>3, <2>4
<1>3. \A i \in Nat : i \in U
    <2> HIDE DEF U
    <2> QED BY <1>1, <1>2, AllNumbers
<1>4. ASSUME NEW i \in 1..n
      PROVE  r[i] \in b.visited
    <2>1. i - 1 \in Nat /\ (i - 1) + 1 = i /\ i <= n
        OBVIOUS
    <2>2. i - 1 \in U
        BY <1>3, <2>1
    <2> QED BY <2>1, <2>2
<1> QED BY <1>4

\* The first path of the queue, and then a neighbour not seen before, is the best way
\* to that neighbour.
LEMMA NewIsBest ==
    ASSUME NEW links, NEW src \in Switches, NEW dst, NEW b \in Searches,
           Searching(links, src, dst, b), b.queue # <<>>,
           NEW d \in Neighbours(links, End(b.queue[1])) \ b.visited
    PROVE  LET p == Append(b.queue[1], d)
           IN p \in Seq(Switches) /\ p # <<>> /\ Best(links, src, d, p)
<1> DEFINE p == Append(b.queue[1], d)
<1>1. PICK h \in Seq(Switches) : h = b.queue[1]
    BY FirstOfQueue
<1>2. PICK n \in Nat \ {0} : n = Len(h)
    BY <1>1, FirstOfQueue
<1>3. h # <<>> /\ Best(links, src, End(h), h)
    BY <1>1, FirstOfQueue DEF Searching, Queued
<1>4. d \in Switches /\ <<End(h), d>> \in links
    BY <1>1 DEF Neighbours
<1>5. /\ p \in Seq(Switches) /\ Len(p) = n + 1 /\ p # <<>> /\ p[n + 1] = d
      /\ \A i \in 1..n : p[i] = h[i]
    BY <1>1, <1>2, <1>4, AppendProperties
<1> HIDE DEF p
<1>6. /\ h[1] = src /\ \A i \in 1..n : h[i] \in Switches
      /\ \A i \in 1..n - 1 : <<h[i], h[i + 1]>> \in links
    BY <1>2, <1>3 DEF Best, IsPath
<1>7. IsPath(links, p, src, d)
    <2>1. p[1] = src
        BY <1>2, <1>5, <1>6
    <2>2. ASSUME NEW i \in 1..n
          PROVE  <<p[i], p[i + 1]>> \in links
        <3>1. CASE i = n
            BY <1>2, <1>4, <1>5, <3>1 DEF End
        <3>2. CASE i \in 1..n - 1
            BY <1>5, <1>6, <3>2
        <3> QED BY <3>1, <3>2
    <2> QED BY <1>2, <1>5, <2>1, <2>2 DEF IsPath
<1>8. ASSUME NEW m \in 1..n
      PROVE  PathsOf(links, src, d, m) = {}
    <2> SUFFICES ASSUME NEW r \in [1..m -> Switches], IsPath(links, r, src, d)
                 PROVE  FALSE
        BY DEF PathsOf
    <2>1. Len(r) = m /\ m \in Nat \ {0} /\ m <= Len(b.queue[1])
        BY <1>1, <1>2
    <2>2. r[1] = src /\ r[m] = d /\ \A i \in 1..m - 1 : <<r[i], r[i + 1]>> \in links
        BY <2>1 DEF IsPath
    <2>3. \A i \in 1..m : r[i] \in b.visited
        BY <2>1, <2>2, WithinReach
    <2> QED BY <2>1, <2>2, <2>3
<1>9. ASSUME NEW r \in [1..n + 1 -> Switches], IsPath(links, r, src, d)
      PROVE  r = p \/ Ahead(p, r, n + 1)
    <2> DEFINE s == [i \in 1..n |-> r[i]]
    <2>1. /\ Len(r) = n + 1 /\ r[1] = src /\ r[n + 1] = d
          /\ \A i \in 1..n : <<r[i], r[i + 1]>> \in links
        BY <1>9 DEF IsPath
    <2>2. s \in [1..n -> Switches] /\ Len(s) = n /\ s[1] = src /\ \A i \in 1..n : s[i] = r[i]
        BY <2>1
    <2> HIDE DEF s
    <2>3. \A i \in 1..n - 1 : <<s[i], s[i + 1]>> \in links
        BY <2>1, <2>2
    <2>4. n <= Len(b.queue[1])
        BY <1>1, <1>2
    <2>5. s[n] \in b.visited
        <3>1. \A i \in 1..n : s[i] \in b.visited
            BY <2>2, <2>3, <2>4, WithinReach
        <3> QED BY <3>1
    <2>6. d \in Neighbours(links, s[n])
        <3>1. n \in 1..n /\ d \in Switches
            BY <1>2, <1>4 DEF Neighbours
        <3>2. <<r[n], r[n + 1]>> \in links /\ s[n] = r[n]
            BY <2>1, <2>2, <3>1
        <3> QED BY <2>1, <3>1, <3>2 DEF Neighbours
    <2>7. PICK k \in 1..Len(b.queue) : End(b.queue[k]) = s[n]
        BY <2>5, <2>6 DEF Searching, Closed, Tips
    <2>8. PICK q \in Seq(Switches) : q = b.queue[k]
        BY FirstOfQueue
    <2>9. Len(q) \in Nat \ {0} /\ Len(q) >= n /\ Best(links, src, s[n], q) /\ q # <<>>
        BY <1>1, <1>2, <2>7, <2>8, FirstOfQueue DEF Searching, Queued
    <2>10. IsPath(links, s, src, s[n])
        BY <2>2, <2>3 DEF IsPath
    <2>11. s \in PathsOf(links, src, s[n], n)
        BY <2>2, <2>10 DEF PathsOf
    <2>12. Len(q) = n
        <3>1. ~(n \in 1..Len(q) - 1)
            BY <2>9, <2>11 DEF Best
        <3> QED BY <2>9, <3>1
    <2>13. s = q \/ Ahead(q, s, n)
        BY <2>9, <2>11, <2>12, BeforeIsAhead DEF Best
    <2>14. q = h \/ Ahead(h, q, n)
        <3>1. CASE k = 1
            BY <1>1, <2>8, <3>1
        <3>2. CASE k # 1
            <4>1. 1 \in 1..Len(b.queue) /\ 1 < k
                BY <3>2, FirstOfQueue
            <4> QED BY <1>1, <1>2, <2>8, <2>12, <4>1 DEF Searching, InOrder
        <3> QED BY <3>1, <3>2
    <2>15. \A i \in 1..n : h[i] \in Switches /\ q[i] \in Switches /\ s[i] \in Switches
        BY <1>6, <2>2, <2>8, <2>12
    <2>16. s = h \/ Ahead(h, s, n)
        BY <2>13, <2>14, <2>15, AheadTransitive
    <2>17. CASE s = h
        <3>1. \A i \in 1..n + 1 : r[i] = p[i]
            <4>1. \A i \in 1..n + 1 : i \in 1..n \/ i = n + 1
                OBVIOUS
            <4> QED BY <1>5, <2>1, <2>2, <2>17, <4>1
        <3>2. r \in Seq(Switches)
            BY <2>1
        <3> QED BY <1>5, <2>1, <3>1, <3>2, SeqEqual
    <2>18. CASE Ahead(h, s, n)
        <3>1. (\A i \in 1..n : h[i] = p[i]) /\ \A i \in 1..n : s[i] = r[i]
            BY <1>5, <2>2
        <3>2. n \in Nat /\ n + 1 \in Nat /\ n <= n + 1
            OBVIOUS
        <3>3. Ahead(p, r, n + 1)
            BY ONLY <2>18, <3>1, <3>2, AheadPrefix, Zenon
        <3> QED BY <3>3
    <2> QED BY <2>16, <2>17, <2>18
<1>10. Best(links, src, d, p)
    <2>1. \A m \in 1..Len(p) - 1 : PathsOf(links, src, d, m) = {}
        BY <1>5, <1>8
    <2>2. \A r \in PathsOf(links, src, d, Len(p)) : r = p \/ Before(p, r)
        BY <1>5, <1>9, BeforeIsAhead DEF PathsOf
    <2> QED BY <1>5, <1>7, <2>1, <2>2 DEF Best
<1> QED BY <1>5, <1>10 DEF p

\* q is the queue without its first path and with the path's new extensions behind.
Moved(paths, m, here, new, q) ==
    /\ q \in Seq(Seq(Switches)) /\ Len(q) = m + Len(new)
    /\ \A i \in 1..m : q[i] = paths[i + 1]
    /\ \A i \in 1..Len(new) : q[m + i] = Append(here, new[i])
    /\ \A i \in 1..Len(q) : i \in 1..m \/ \E k \in 1..Len(new) : i = m + k

\* The queue after a round that has not found the path.
LEMMA NextQueue ==
    ASSUME NEW paths \in Seq(Seq(Switches)), NEW m \in Nat, Len(paths) = m + 1,
           NEW here \in Seq(Switches), NEW new \in Seq(Switches),
           NEW q, q = Tail(paths) \o [i \in 1..Len(new) |-> Append(here, new[i])]
    PROVE  Moved(paths, m, here, new, q)
<1> DEFINE t == Tail(paths)
           e == [i \in 1..Len(new) |-> Append(here, new[i])]
<1>1. t \in Seq(Seq(Switches)) /\ Len(t) = m /\ \A i \in 1..m : t[i] = paths[i + 1]
    <2>1. paths # <<>>
        OBVIOUS
    <2> QED BY <2>1, HeadTailProperties
<1>2. Len(new) \in Nat /\ e \in Seq(Seq(Switches)) /\ Len(e) = Len(new)
    <2>1. \A i \in 1..Len(new) : Append(here, new[i]) \in Seq(Switches)
        OBVIOUS
    <2> QED BY <2>1
<1>3. q = t \o e /\ \A i \in 1..Len(new) : e[i] = Append(here, new[i])
    OBVIOUS
<1> HIDE DEF t, e
<1>4. /\ q \in Seq(Seq(Switches)) /\ Len(q) = m + Len(new)
      /\ \A i \in 1..m + Len(new) : q[i] = IF i <= m THEN t[i] ELSE e[i - m]
    <2>1. /\ t \o e \in Seq(Seq(Switches)) /\ Len(t \o e) = Len(t) + Len(e)
          /\ \A i \in 1..Len(t) + Len(e) : (t \o e)[i] = IF i <= Len(t) THEN t[i] ELSE e[i - Len(t)]
        <3>1. t \in Seq(Seq(Switches)) /\ e \in Seq(Seq(Switches))
            BY <1>1, <1>2
        <3> QED BY <3>1, ConcatProperties, Zenon
    <2> QED BY <1>1, <1>2, <1>3, <2>1
<1>5. \A i \in 1..m : q[i] = paths[i + 1]
    BY <1>1, <1>2, <1>4
<1>6. ASSUME NEW i \in 1..Len(new)
      PROVE  q[m + i] = Append(here, new[i])
    <2>1. m + i \in 1..m + Len(new) /\ ~(m + i <= m) /\ (m + i) - m = i
        BY <1>2
    <2> QED BY <1>3, <1>4, <2>1
<1>7. ASSUME NEW i \in 1..Len(q), ~(i \in 1..m)
      PROVE  \E k \in 1..Len(new) : i = m + k
    <2>1. i \in Int /\ i >= 1 /\ i <= m + Len(new) /\ i > m
        BY <1>2, <1>4, <1>7
    <2>2. i - m \in 1..Len(new) /\ i = m + (i - m)
        BY <1>2, <2>1
    <2> QED BY <2>2
<1> QED BY <1>4, <1>5, <1>6, <1>7 DEF Moved

\* A round keeps the invariant of the search, or finds the best path.
LEMMA ExpandKeeps ==
    ASSUME NEW links, NEW src \in Switches, NEW dst \in Switches, NEW b \in Searches,
           Searching(links, src, dst, b), b.queue # <<>>
    PROVE  LET a == Expand(links, dst, b)
               here == b.queue[1]
           IN /\ a \in Searches
              /\ \/ Reached(links, src, dst, a)
                 \/ /\ Searching(links, src, dst, a)
                    /\ End(here) \in b.visited /\ End(here) \in Tips(b)
                    /\ a.visited \ Tips(a) = (b.visited \ Tips(b)) \cup {End(here)}
<1>0. PICK here : here = b.queue[1]
    OBVIOUS
<1> DEFINE S == Neighbours(links, End(here)) \ b.visited
           a == Expand(links, dst, b)
<1>1. PICK new \in Seq(Switches) :
         /\ new = NewNeighbours(links, here, b.visited) /\ Members(new) = S /\ Len(new) \in Nat
         /\ \A i, j \in 1..Len(new) : i < j => Rank(new[i]) < Rank(new[j])
    <2>1. S \in SUBSET Switches /\ NewNeighbours(links, here, b.visited) = Sorted[S]
        BY DEF Neighbours, NewNeighbours, End
    <2> HIDE DEF S
    <2> QED BY <2>1, SortedIs, LenProperties
<1>2. ASSUME NEW d \in S
      PROVE  /\ Append(here, d) \in Seq(Switches) /\ Append(here, d) # <<>>
             /\ Best(links, src, d, Append(here, d))
    BY <1>0, NewIsBest
<1> HIDE DEF S
<1>3. b.queue \in Seq(Seq(Switches)) /\ b.visited \in SUBSET Switches /\ b.found = <<>>
    BY DEF Searches, Searching
<1>4. /\ here \in Seq(Switches) /\ Len(here) \in Nat \ {0} /\ End(here) \in Switches
      /\ Len(b.queue) \in Nat \ {0}
    BY <1>0, FirstOfQueue
<1>5. CASE dst \in Members(new)
    <2>1. a = [b EXCEPT !.found = Append(here, dst)]
        BY <1>0, <1>1, <1>5 DEF Expand
    <2>2. a.queue = b.queue /\ a.visited = b.visited /\ a.found = Append(here, dst) /\ a \in Searches
        BY <1>1, <1>2, <1>5, <2>1 DEF Searches
    <2> QED BY <1>1, <1>2, <1>5, <2>2 DEF Reached
<1>6. CASE dst \notin Members(new)
    <2>1. a = [queue |-> Tail(b.queue) \o [i \in 1..Len(new) |-> Append(here, new[i])],
               visited |-> b.visited \cup Members(new), found |-> <<>>]
        BY <1>0, <1>1, <1>6 DEF Expand
    <2>2. PICK q : q = Tail(b.queue) \o [i \in 1..Len(new) |-> Append(here, new[i])]
        OBVIOUS
    <2>3. a.queue = q /\ a.visited = b.visited \cup S /\ a.found = <<>>
        <3> HIDE DEF a
        <3> QED BY <1>1, <2>1, <2>2
    <2>18. PICK m \in Nat : Len(b.queue) = m + 1
        <3>1. Len(b.queue) - 1 \in Nat /\ Len(b.queue) = (Len(b.queue) - 1) + 1
            BY <1>4
        <3> QED BY <3>1
    <2>4. /\ q \in Seq(Seq(Switches)) /\ Len(q) = m + Len(new)
          /\ \A i \in 1..m : q[i] = b.queue[i + 1]
          /\ \A i \in 1..Len(new) : q[m + i] = Append(here, new[i])
          /\ \A i \in 1..Len(q) : i \in 1..m \/ \E k \in 1..Len(new) : i = m + k
        <3> HIDE DEF a
        <3>1. /\ b.queue \in Seq(Seq(Switches)) /\ m \in Nat /\ Len(b.queue) = m + 1
              /\ here \in Seq(Switches) /\ new \in Seq(Switches)
              /\ q = Tail(b.queue) \o [i \in 1..Len(new) |-> Append(here, new[i])]
            BY <1>1, <1>3, <1>4, <2>2, <2>18
        <3>2. Moved(b.queue, m, here, new, q)
            BY <3>1, NextQueue
        <3> QED BY <3>2 DEF Moved
    <2>5. S \subseteq Switches
        BY <1>1 DEF Members
    <2>6. a \in Searches
        <3>1. <<>> \in Seq(Switches)
            OBVIOUS
        <3> QED BY <1>1, <1>3, <2>1, <2>2, <2>4, <2>5, <3>1 DEF Searches
    <2> HIDE DEF a
    <2>7. m \in Nat /\ \A i \in 1..m : i + 1 \in 1..Len(b.queue) /\ i + 1 > 1
        BY <2>18
    <2>8. 1 \in 1..Len(b.queue)
        BY <1>4
    <2>9. ASSUME NEW k \in 1..Len(new)
          PROVE  /\ m + k \in 1..Len(q) /\ q[m + k] = Append(here, new[k])
                 /\ new[k] \in S /\ End(q[m + k]) = new[k]
                 /\ q[m + k] \in Seq(Switches) /\ Len(q[m + k]) = Len(here) + 1
                 /\ \A x \in 1..Len(here) : q[m + k][x] = here[x]
                 /\ q[m + k][Len(here) + 1] = new[k]
        <3>1. m + k \in 1..Len(q) /\ q[m + k] = Append(here, new[k]) /\ new[k] \in S
            <4>1. m + k \in 1..Len(q)
                BY <1>1, <2>4, <2>7
            <4>2. new[k] \in S
                BY <1>1 DEF Members
            <4> QED BY <2>4, <4>1, <4>2
        <3>2. new[k] \in Switches
            BY <2>5, <3>1
        <3>3. /\ q[m + k] \in Seq(Switches) /\ Len(q[m + k]) = Len(here) + 1
              /\ \A x \in 1..Len(here) : q[m + k][x] = here[x]
              /\ q[m + k][Len(here) + 1] = new[k]
            BY <1>4, <3>1, <3>2, AppendProperties
        <3> QED BY <3>1, <3>3 DEF End
    <2>10. ASSUME NEW k \in 1..m
           PROVE  /\ k \in 1..Len(q) /\ k + 1 \in 1..Len(b.queue) /\ q[k] = b.queue[k + 1]
                  /\ End(q[k]) \in b.visited /\ q[k] # <<>>
                  /\ Best(links, src, End(q[k]), q[k])
                  /\ End(q[k]) # End(here)
                  /\ \/ Len(q[k]) = Len(here) /\ Ahead(here, q[k], Len(here))
                     \/ Len(q[k]) = Len(here) + 1 /\ Ahead(q[k], here, Len(here))
        <3>1. k \in 1..Len(q) /\ k + 1 \in 1..Len(b.queue) /\ q[k] = b.queue[k + 1] /\ 1 < k + 1
            <4>1. Len(q) = m + Len(new) /\ Len(new) \in Nat /\ m \in Nat
                BY <1>1, <2>4, <2>18
            <4>2. k \in 1..Len(q)
                BY <4>1
            <4> QED BY <2>4, <2>7, <4>2
        <3> QED BY <1>0, <2>8, <3>1 DEF Searching, Queued, InOrder
    <2>11. Queued(links, src, a)
        <3> SUFFICES ASSUME NEW i \in 1..Len(q)
                     PROVE  /\ q[i] # <<>> /\ End(q[i]) \in a.visited
                            /\ Best(links, src, End(q[i]), q[i])
            BY <2>3 DEF Queued
        <3>1. CASE i \in 1..m
            BY <2>3, <2>10, <3>1
        <3>2. ASSUME NEW k \in 1..Len(new), i = m + k
              PROVE  /\ q[i] # <<>> /\ End(q[i]) \in a.visited
                     /\ Best(links, src, End(q[i]), q[i])
            <4>1. /\ Append(here, new[k]) # <<>>
                  /\ Best(links, src, new[k], Append(here, new[k]))
                BY <1>2, <2>9
            <4> QED BY <2>3, <2>9, <3>2, <4>1
        <3> QED BY <2>4, <3>1, <3>2
    <2>12. InOrder(a)
        <3> DEFINE Follows(p, r) ==
                     /\ End(p) # End(r)
                     /\ \/ Len(r) = Len(p) /\ Ahead(p, r, Len(p))
                        \/ Len(r) = Len(p) + 1 /\ Ahead(r, p, Len(p))
        <3> SUFFICES ASSUME NEW i \in 1..Len(q), NEW j \in 1..Len(q), i < j
                     PROVE  Follows(q[i], q[j])
            BY <2>3 DEF InOrder
        <3>1. CASE i \in 1..m /\ j \in 1..m
            <4>1. /\ i + 1 < j + 1 /\ i + 1 \in 1..Len(b.queue) /\ j + 1 \in 1..Len(b.queue)
                  /\ q[i] = b.queue[i + 1] /\ q[j] = b.queue[j + 1]
                BY <2>10, <3>1
            <4>2. Follows(b.queue[i + 1], b.queue[j + 1])
                BY <4>1 DEF Searching, InOrder
            <4> QED BY <4>1, <4>2
        <3>2. ASSUME i \in 1..m, NEW k \in 1..Len(new), j = m + k
              PROVE  Follows(q[i], q[j])
            <4>1. End(q[i]) # End(q[j])
                <5>1. End(q[i]) \in b.visited
                    BY <2>10, <3>2
                <5>2. End(q[j]) \in S
                    BY <2>9, <3>2
                <5> QED BY <5>1, <5>2 DEF S
            <4>2. CASE Len(q[i]) = Len(here) /\ Ahead(here, q[i], Len(here))
                <5>1. Ahead(q[j], q[i], Len(here))
                    <6>1. \A x \in 1..Len(here) : here[x] = q[j][x]
                        BY <2>9, <3>2
                    <6> QED BY <1>4, <4>2, <6>1, AheadPrefix
                <5> QED BY <2>9, <3>2, <4>1, <4>2, <5>1
            <4>3. CASE Len(q[i]) = Len(here) + 1 /\ Ahead(q[i], here, Len(here))
                <5>1. Ahead(q[i], q[j], Len(here) + 1)
                    <6>1. \A x \in 1..Len(here) : here[x] = q[j][x]
                        BY <2>9, <3>2
                    <6>2. Len(here) \in Nat /\ Len(here) + 1 \in Nat /\ Len(here) <= Len(here) + 1
                        BY <1>4
                    <6>3. Ahead(q[i], here, Len(here))
                        BY <4>3
                    <6> QED BY <6>1, <6>2, <6>3, AheadPrefix
                <5> QED BY <2>9, <3>2, <4>1, <4>3, <5>1
            <4> QED BY <2>10, <3>2, <4>2, <4>3
        <3>3. ASSUME NEW k \in 1..Len(new), i = m + k, NEW l \in 1..Len(new), j = m + l
              PROVE  Follows(q[i], q[j])
            <4>1. k < l
                BY <2>7, <3>3
            <4>2. Rank(new[k]) < Rank(new[l])
                BY <1>1, <4>1
            <4>3. new[k] \in Switches /\ Rank(new[k]) \in Nat
                BY <1>1, <3>3, RankIs
            <4>4. new[k] # new[l]
                BY <4>2, <4>3
            <4> DEFINE n == Len(here) + 1
            <4>5. /\ Len(q[i]) = n /\ Len(q[j]) = n /\ n \in 1..n
                  /\ Rank(q[i][n]) < Rank(q[j][n])
                  /\ \A x \in 1..n - 1 : q[i][x] = q[j][x]
                BY <1>4, <2>9, <3>3, <4>2
            <4> HIDE DEF n
            <4>6. Ahead(q[i], q[j], n)
                BY <4>5 DEF Ahead
            <4> QED BY <2>9, <3>3, <4>4, <4>5, <4>6
        <3>4. CASE i \in 1..m
            BY <2>4, <3>1, <3>2, <3>4
        <3>5. ASSUME NEW k \in 1..Len(new), i = m + k
              PROVE  Follows(q[i], q[j])
            <4>1. ~(j \in 1..m)
                BY <2>7, <3>5
            <4> HIDE DEF Follows
            <4> QED BY <2>4, <3>3, <3>5, <4>1
        <3> HIDE DEF Follows
        <3> QED BY <2>4, <3>4, <3>5
    <2>13. Tips(a) = (Tips(b) \ {End(here)}) \cup S
        <3>1. ASSUME NEW i \in 1..Len(q)
              PROVE  End(q[i]) \in (Tips(b) \ {End(here)}) \cup S
            <4>1. CASE i \in 1..m
                BY <2>10, <4>1 DEF Tips
            <4>2. ASSUME NEW k \in 1..Len(new), i = m + k
                  PROVE  End(q[i]) \in S
                BY <2>9, <4>2
            <4> QED BY <2>4, <4>1, <4>2
        <3>2. ASSUME NEW d \in S
              PROVE  d \in Tips(a)
            <4>1. PICK k \in 1..Len(new) : d = new[k]
                BY <1>1 DEF Members
            <4> QED BY <2>3, <2>9, <4>1 DEF Tips
        <3>3. ASSUME NEW i \in 1..Len(b.queue), End(b.queue[i]) # End(here)
              PROVE  End(b.queue[i]) \in Tips(a)
            <4>1. PICK k : k = i - 1
                OBVIOUS
            <4>2. k \in 1..m /\ k + 1 = i
                BY <1>0, <1>4, <2>18, <3>3, <4>1
            <4> QED BY <2>3, <2>10, <4>2 DEF Tips
        <3> QED BY <2>3, <3>1, <3>2, <3>3 DEF Tips
    <2>14. /\ End(here) \in b.visited /\ End(here) \in Tips(b)
           /\ Tips(b) \subseteq b.visited /\ S \cap b.visited = {}
        BY <1>0, <2>8 DEF Searching, Queued, Tips, S
    <2>15. a.visited \ Tips(a) = (b.visited \ Tips(b)) \cup {End(here)}
        BY <2>3, <2>13, <2>14
    <2>16. Closed(links, a)
        <3>1. Neighbours(links, End(here)) \subseteq b.visited \cup S
            BY DEF S
        <3> QED BY <2>3, <2>15, <3>1 DEF Searching, Closed
    <2>17. src \in a.visited /\ dst \notin a.visited
        BY <1>1, <1>6, <2>3 DEF Searching
    <2> QED BY <1>0, <2>3, <2>6, <2>11, <2>12, <2>14, <2>15, <2>16, <2>17 DEF Searching, a
<1> QED BY <1>0, <1>5, <1>6

Underway(links, src, dst) ==
    {b \in Searches : Searching(links, src, dst, b) \/ Reached(links, src, dst, b)}

\* After n rounds n paths have been taken off the queue, or the search is over.
Searched(links, src, dst, b, n) ==
    \/ Reached(links, src, dst, b)
    \/ /\ Searching(links, src, dst, b)
       /\ b.queue = <<>> \/ Cardinality(b.visited \ Tips(b)) = n

LEMMA SwitchesFinite == IsFiniteSet(Switches)
BY TopologyConstants DEF TopologyConstants, IsFiniteSet

LEMMA StartIsUnderway ==
    ASSUME NEW links, NEW src \in Switches, NEW dst \in Switches, src # dst
    PROVE  /\ Start(src) \in Underway(links, src, dst)
           /\ Searched(links, src, dst, Start(src), 0)
<1> DEFINE p == <<src>>
<1>1. p \in Seq(Switches) /\ Len(p) = 1 /\ p[1] = src /\ p # <<>> /\ End(p) = src
    BY DEF End
<1> HIDE DEF p
<1>2. PICK q : q = <<p>>
    OBVIOUS
<1>3. q \in Seq(Seq(Switches)) /\ Len(q) = 1 /\ q[1] = p /\ \A i \in 1..Len(q) : q[i] = p
    BY <1>1, <1>2
<1>4. PICK b : b = Start(src)
    OBVIOUS
<1>5. b.queue = q /\ b.visited = {src} /\ b.found = <<>> /\ b \in Searches
    BY <1>2, <1>3, <1>4 DEF Start, Searches, p
<1>6. Best(links, src, src, p)
    <2>1. IsPath(links, p, src, src)
        BY <1>1 DEF IsPath
    <2>2. ASSUME NEW r \in [1..1 -> Switches], IsPath(links, r, src, src)
          PROVE  r = p
        <3>1. r \in Seq(Switches) /\ Len(r) = 1
            <4>1. PICK n \in Nat : n = 1
                OBVIOUS
            <4>2. r \in [1..n -> Switches]
                BY <4>1
            <4>3. r \in Seq(Switches) /\ Len(r) = n
                BY <4>2
            <4> QED BY <4>1, <4>3
        <3>2. r[1] = src
            BY <2>2 DEF IsPath
        <3> QED BY <1>1, <3>1, <3>2, SeqEqual
    <2> QED BY <1>1, <2>1, <2>2 DEF Best, PathsOf
<1>7. Queued(links, src, b)
    BY <1>1, <1>3, <1>5, <1>6 DEF Queued
<1>8. InOrder(b)
    <2>1. Len(b.queue) = 1
        BY <1>3, <1>5
    <2>2. ASSUME NEW i \in 1..Len(b.queue), NEW j \in 1..Len(b.queue)
          PROVE  ~(i < j)
        BY <2>1
    <2> QED BY <2>2 DEF InOrder
<1>9. b.visited \ Tips(b) = {}
    <2>1. src \in Tips(b)
        BY <1>1, <1>3, <1>5 DEF Tips
    <2> QED BY <1>5, <2>1
<1>10. Searching(links, src, dst, b)
    BY <1>5, <1>7, <1>8, <1>9 DEF Searching, Closed
<1> QED BY <1>4, <1>5, <1>9, <1>10, FS_EmptySet DEF Underway, Searched

LEMMA AfterIsUnderway ==
    ASSUME NEW links, NEW src \in Switches, NEW dst \in Switches, NEW n \in Nat,
           NEW b \in Underway(links, src, dst)
    PROVE  /\ After(links, dst, b) \in Underway(links, src, dst)
           /\ Searched(links, src, dst, b, n) =>
              Searched(links, src, dst, After(links, dst, b), n + 1)
<1>1. b \in Searches /\ (Searching(links, src, dst, b) \/ Reached(links, src, dst, b))
    BY DEF Underway
<1>2. CASE b.found # <<>> \/ b.queue = <<>>
    <2>1. After(links, dst, b) = b
        BY <1>2 DEF After
    <2>2. ASSUME Searched(links, src, dst, b, n)
          PROVE  Searched(links, src, dst, b, n + 1)
        BY <1>2, <2>2 DEF Searched, Searching
    <2> QED BY <2>1, <2>2
<1>3. CASE b.found = <<>> /\ b.queue # <<>>
    <2>1. Searching(links, src, dst, b)
        BY <1>1, <1>3 DEF Reached
    <2>2. PICK a : a = Expand(links, dst, b)
        OBVIOUS
    <2>3. After(links, dst, b) = a
        BY <1>3, <2>2 DEF After
    <2>4. PICK here : here = b.queue[1]
        OBVIOUS
    <2>5. /\ a \in Searches
          /\ \/ Reached(links, src, dst, a)
             \/ /\ Searching(links, src, dst, a)
                /\ End(here) \in b.visited /\ End(here) \in Tips(b)
                /\ a.visited \ Tips(a) = (b.visited \ Tips(b)) \cup {End(here)}
        BY <1>1, <1>3, <2>1, <2>2, <2>4, ExpandKeeps
    <2>6. ASSUME Searched(links, src, dst, b, n), Searching(links, src, dst, a),
                 End(here) \in Tips(b),
                 a.visited \ Tips(a) = (b.visited \ Tips(b)) \cup {End(here)}
          PROVE  Cardinality(a.visited \ Tips(a)) = n + 1
        <3> DEFINE T == b.visited \ Tips(b)
        <3>1. Cardinality(T) = n
            BY <1>3, <2>6 DEF Searched, Reached
        <3>2. IsFiniteSet(T)
            <4>1. T \subseteq Switches
                BY <1>1 DEF Searches
            <4> HIDE DEF T
            <4> QED BY <4>1, SwitchesFinite, FS_Subset
        <3>3. End(here) \notin T
            BY <2>6
        <3>4. a.visited \ Tips(a) = T \cup {End(here)}
            BY <2>6
        <3> HIDE DEF T
        <3> QED BY <3>1, <3>2, <3>3, <3>4, FS_AddElement
    <2> QED BY <2>3, <2>5, <2>6 DEF Underway, Searched
<1> QED BY <1>2, <1>3

\* The search has ended when there have been as many rounds as switches.
LEMMA SearchedIsBest ==
    ASSUME NEW links, NEW src \in Switches, NEW dst \in Switches,
           NEW b \in Searches, Searched(links, src, dst, b, Cardinality(Switches))
    PROVE  b.found \in Seq(Switches) /\ Best(links, src, dst, b.found)
<1>1. b.found \in Seq(Switches) /\ b.visited \subseteq Switches
    BY DEF Searches
<1>2. CASE Reached(links, src, dst, b)
    BY <1>1, <1>2 DEF Reached
<1>3. CASE Searching(links, src, dst, b)
    <2>1. b.found = <<>>
        BY <1>3 DEF Searching
    <2>2. b.queue = <<>>
        <3> SUFFICES ASSUME b.queue # <<>>
                     PROVE  FALSE
            OBVIOUS
        <3> DEFINE T == b.visited \ Tips(b)
        <3>1. Cardinality(T) = Cardinality(Switches)
            BY <2>1 DEF Searched, Reached
        <3>2. End(b.queue[1]) \in Switches /\ Len(b.queue) \in Nat \ {0}
            BY <1>3, FirstOfQueue
        <3>3. End(b.queue[1]) \in Tips(b)
            BY <3>2 DEF Tips
        <3>4. T \subseteq Switches /\ T # Switches
            BY <1>1, <3>2, <3>3
        <3> HIDE DEF T
        <3> QED BY <3>1, <3>4, SwitchesFinite, FS_Subset
    <2>3. ASSUME NEW n \in 1..Cardinality(Switches)
          PROVE  PathsOf(links, src, dst, n) = {}
        <3> SUFFICES ASSUME NEW r \in [1..n -> Switches], IsPath(links, r, src, dst)
                     PROVE  FALSE
            BY DEF PathsOf
        <3>1. n \in Nat \ {0} /\ Len(r) = n
            BY SwitchesFinite, FS_CardinalityType
        <3>2. r[1] = src /\ r[n] = dst /\ \A i \in 1..n - 1 : <<r[i], r[i + 1]>> \in links
            BY <3>1 DEF IsPath
        <3>3. \A i \in 1..n : r[i] \in b.visited
            BY <1>3, <2>2, <3>1, <3>2, WithinReach
        <3>4. r[n] \in b.visited
            BY <3>1, <3>3
        <3> QED BY <1>3, <3>2, <3>4 DEF Searching
    <2> QED BY <1>1, <2>1, <2>3 DEF Best
<1> QED BY <1>2, <1>3 DEF Searched

\* What Path computes: rounds from the start, each the one after the round before.
LEMMA Rounds ==
    ASSUME NEW links, NEW src \in Switches, NEW dst \in Switches, src # dst
    PROVE  \E f : /\ f[0] = Start(src)
                  /\ \A n \in Nat \ {0} : f[n] = After(links, dst, f[n - 1])
                  /\ Path(links, src, dst) = f[Cardinality(Switches)].found
<1>1. PICK V : V = Underway(links, src, dst)
    OBVIOUS
<1>2. PICK start \in V : start = Start(src)
    BY <1>1, StartIsUnderway
<1>3. PICK step \in [Nat -> [V -> V]] : \A n \in Nat, b \in V : step[n][b] = After(links, dst, b)
    <2> DEFINE to == [n \in Nat |-> [b \in V |-> After(links, dst, b)]]
    <2>1. \A b \in V : After(links, dst, b) \in V
        BY <1>1, AfterIsUnderway
    <2>2. to \in [Nat -> [V -> V]]
        BY <2>1
    <2>3. \A n \in Nat, b \in V : to[n][b] = After(links, dst, b)
        OBVIOUS
    <2> QED BY <2>2, <2>3, Zenon
<1>4. PICK f : Iterates(f, V, start, step)
    BY <1>2, <1>3, StepsExist
<1> DEFINE Is(g) == g = [n \in Nat |-> IF n = 0 THEN Start(src)
                            ELSE CHOOSE a \in {After(links, dst, b) : b \in {g[n - 1]}} : TRUE]
<1>5. ASSUME NEW n \in Nat \ {0}
      PROVE  f[n] = After(links, dst, f[n - 1])
    <2>1. n - 1 \in Nat /\ (n - 1) + 1 = n /\ f[n - 1] \in V
        BY <1>4 DEF Iterates
    <2>2. f[(n - 1) + 1] = step[n - 1][f[n - 1]]
        BY <1>4, <2>1 DEF Iterates
    <2> QED BY <1>3, <2>1, <2>2
<1>6. \A g, n : (CHOOSE a \in {After(links, dst, b) : b \in {g[n - 1]}} : TRUE)
                = After(links, dst, g[n - 1])
    OBVIOUS
<1>7. Is(f)
    <2>1. \A n \in Nat :
             f[n] = IF n = 0 THEN Start(src)
                    ELSE CHOOSE a \in {After(links, dst, b) : b \in {f[n - 1]}} : TRUE
        BY <1>2, <1>4, <1>5, <1>6 DEF Iterates
    <2> QED BY <1>4, <2>1 DEF Iterates
<1>8. PICK g : Is(g) /\ Path(links, src, dst) = g[Cardinality(Switches)].found
    <2>1. Path(links, src, dst) = (CHOOSE g : Is(g))[Cardinality(Switches)].found
        BY DEF Path
    <2>2. Is(CHOOSE g : Is(g))
        <3> HIDE DEF Is
        <3> QED BY <1>7
    <2> QED BY <2>1, <2>2
<1>9. g[0] = Start(src)
    BY <1>8, Zenon
<1>10. ASSUME NEW n \in Nat \ {0}
       PROVE  g[n] = After(links, dst, g[n - 1])
    <2>1. n \in Nat /\ n # 0
        OBVIOUS
    <2>2. g[n] = CHOOSE a \in {After(links, dst, b) : b \in {g[n - 1]}} : TRUE
        BY <1>8, <2>1, Zenon
    <2> QED BY <1>6, <2>2
<1> QED BY <1>8, <1>9, <1>10

\* The path the search returns is the best there is, and none when there is none.
THEOREM PathIsBest ==
    ASSUME NEW links, NEW src \in Switches, NEW dst \in Switches, src # dst
    PROVE  /\ Path(links, src, dst) \in Seq(Switches)
           /\ Best(links, src, dst, Path(links, src, dst))
<1>1. PICK f : /\ f[0] = Start(src)
               /\ \A n \in Nat \ {0} : f[n] = After(links, dst, f[n - 1])
               /\ Path(links, src, dst) = f[Cardinality(Switches)].found
    BY Rounds
<1> DEFINE U == {n \in Nat : /\ f[n] \in Underway(links, src, dst)
                             /\ Searched(links, src, dst, f[n], n)}
<1>2. 0 \in U
    BY <1>1, StartIsUnderway
<1>3. ASSUME NEW n \in Nat, n \in U
      PROVE  n + 1 \in U
    <2>1. n + 1 \in Nat \ {0} /\ (n + 1) - 1 = n
        OBVIOUS
    <2>2. f[n + 1] = After(links, dst, f[n])
        BY <1>1, <2>1
    <2>3. PICK b \in Underway(links, src, dst) : b = f[n] /\ Searched(links, src, dst, b, n)
        BY <1>3
    <2> QED BY <2>1, <2>2, <2>3, AfterIsUnderway
<1>4. Cardinality(Switches) \in Nat
    BY SwitchesFinite, FS_CardinalityType
<1>5. Cardinality(Switches) \in U
    <2> HIDE DEF U
    <2> QED BY <1>2, <1>3, <1>4, AllNumbers
<1>6. PICK b \in Searches : /\ b = f[Cardinality(Switches)]
                            /\ Searched(links, src, dst, b, Cardinality(Switches))
    BY <1>5 DEF Underway
<1> QED BY <1>1, <1>6, SearchedIsBest

-----------------------------------------------------------------------------
(***************************************************************************)
(* What the handlers hold                                                  *)
(***************************************************************************)
Fields == {"event", "plan", "who", "planned", "path", "todo", "doomed"}
Putting == {"put", "drop", "install", "note", "record"}
Removing == {"cleaning", "scanning", "clearing"}
AtService == Putting \cup {"gate", "route", "clearing"}

\* What a handler holds at a place.
Holds(place, j) ==
    /\ DOMAIN j = Fields
    /\ j.plan \subseteq Sessions
    /\ place \notin Putting => j.todo = {}
    /\ place \notin Removing => j.doomed = {}
    /\ place \in AtService => j.who \in Sessions
    /\ place \in {"drop", "install", "note"} => \E f \in j.todo : IsShared(f)
    /\ \A f \in j.todo : IsShared(f) \/ f.sel[2] = j.who.host

HandlersHold ==
    /\ DOMAIN pc = Handlers /\ DOMAIN job = Handlers
    /\ \A h \in Handlers : Holds(pc[h], job[h])

\* A flow in ONOS is shared or is some session's.
FlowsOwned == \A f \in flows : IsShared(f) \/ \E s \in Sessions : s.host = f.sel[2]

KInv == HandlersHold /\ FlowsOwned /\ OwnFlowsKnown

-----------------------------------------------------------------------------
(***************************************************************************)
(* Lemmas about flows and about steps                                      *)
(***************************************************************************)
\* Flows of one selector are shared or not, and have the same owners.
LEMMA SameOwners ==
    ASSUME NEW f, NEW g, SameSelector(f, g)
    PROVE  /\ SameSelector(g, f) /\ (IsShared(f) <=> IsShared(g))
           /\ Owners(f) = Owners(g)
BY DEF SameSelector, IsShared, Owners

\* After the step the flow is shared, or somebody knows of it, or its session is
\* excused, or there is no flow with its selector.
Passed(g) ==
    \/ IsShared(g) \/ g \in cached'
    \/ \E h \in Handlers : g \in job'[h].doomed \/ g \in job'[h].todo
    \/ Owners(g) \cap excused' # {}
    \/ \A f \in flows' : ~SameSelector(f, g)

\* What a restart left behind stays so, or is known again.
Handed == \A g \in forgotten \cap flows' : g \in forgotten' \/ Passed(g)

\* What was known is still known when all that knew of a flow pass it on.
LEMMA KnownPasses ==
    ASSUME OwnFlowsKnown, Handed, excused \subseteq excused',
           \A g \in cached : Passed(g),
           \A h \in Handlers : \A g : g \in job[h].doomed \/ g \in job[h].todo => Passed(g),
           \A f \in flows' : f \in flows \/ Passed(f)
    PROVE  OwnFlowsKnown'
<1> SUFFICES ASSUME NEW f \in flows', ~IsShared(f), ~(Owners(f) \cap excused' # {}),
                    f \notin forgotten'
             PROVE  \/ \E g \in cached' : SameSelector(f, g)
                    \/ \E h \in Handlers : \/ \E g \in job'[h].doomed : SameSelector(f, g)
                                           \/ \E g \in job'[h].todo : SameSelector(f, g)
    BY DEF OwnFlowsKnown, IsShared, SameSelector, Owners
<1>1. SameSelector(f, f)
    BY DEF SameSelector
<1>2. ASSUME NEW g, SameSelector(f, g), Passed(g)
      PROVE  g \in cached' \/ \E h \in Handlers : g \in job'[h].doomed \/ g \in job'[h].todo
    BY <1>2, SameOwners DEF Passed
<1>3. CASE f \in flows /\ f \notin forgotten
    <2>1. PICK g : /\ SameSelector(f, g)
                   /\ g \in cached \/ \E h \in Handlers : g \in job[h].doomed \/ g \in job[h].todo
        BY <1>3 DEF OwnFlowsKnown
    <2> QED BY <1>2, <2>1
<1>4. CASE Passed(f)
    BY <1>1, <1>2, <1>4
<1>5. CASE f \in forgotten
    BY <1>4, <1>5 DEF Handed
<1> QED BY <1>3, <1>4, <1>5

\* One handler goes on.
LEMMA OneMoves ==
    ASSUME HandlersHold, NEW h \in Handlers, NEW place, NEW j, Holds(place, j),
           pc' = [pc EXCEPT ![h] = place], job' = [job EXCEPT ![h] = j]
    PROVE  /\ HandlersHold' /\ job'[h] = j
           /\ \A k \in Handlers : k # h => job'[k] = job[k]
BY DEF HandlersHold

\* A handler that is left alone keeps what it holds.
LEMMA NobodyMoves ==
    ASSUME HandlersHold, UNCHANGED <<pc, job>>
    PROVE  HandlersHold'
BY DEF HandlersHold

\* Nothing is installed, forgotten or dropped.
LEMMA Quiet ==
    ASSUME KInv, Handed, flows' \subseteq flows, cached' = cached, excused \subseteq excused',
           HandlersHold',
           \A h \in Handlers : \A g \in job[h].doomed \cup job[h].todo :
              g \in job'[h].doomed \cup job'[h].todo
    PROVE  KInv'
<1>1. \A g \in cached : Passed(g)
    BY DEF Passed
<1>2. \A h \in Handlers : \A g : g \in job[h].doomed \/ g \in job[h].todo => Passed(g)
    BY DEF Passed
<1>3. OwnFlowsKnown'
    BY <1>1, <1>2, KnownPasses DEF KInv
<1>4. FlowsOwned'
    BY DEF KInv, FlowsOwned
<1> QED BY <1>3, <1>4 DEF KInv

\* An idle handler holds nothing.
LEMMA IdleHolds ==
    /\ DOMAIN Idle = Fields /\ Idle.plan = {} /\ Idle.todo = {} /\ Idle.doomed = {}
    /\ Holds("idle", Idle)
BY DEF Idle, Holds, Fields, Putting, Removing, AtService

-----------------------------------------------------------------------------
\* A handler that has ended, or goes on to the next session, had nothing to pass on.
LEMMA FinishKeeps ==
    ASSUME KInv, Handed, NEW h \in Handlers, Finish(h), pc[h] \notin Putting \cup Removing,
           flows' = flows, cached' = cached, excused \subseteq excused'
    PROVE  KInv'
<1>1. /\ HandlersHold' /\ job'[h] = Idle
      /\ \A k \in Handlers : k # h => job'[k] = job[k]
    BY IdleHolds, OneMoves DEF KInv, Finish, GoTo
<1>2. job[h].todo = {} /\ job[h].doomed = {}
    BY DEF KInv, HandlersHold, Holds
<1> QED BY <1>1, <1>2, Quiet

\* What a handler has when it is done with a session.
LEMMA LeaveMoves ==
    ASSUME HandlersHold, NEW h \in Handlers, Leave(h)
    PROVE  /\ HandlersHold' /\ job'[h].todo = {} /\ job'[h].doomed = {}
           /\ \A k \in Handlers : k # h => job'[k] = job[k]
<1>1. CASE job[h].event = NoEvent
    <2>1. Finish(h)
        BY <1>1 DEF Leave
    <2> QED BY <2>1, IdleHolds, OneMoves DEF Finish, GoTo
<1>2. CASE job[h].event # NoEvent
    <2>1. PICK j : j = [Idle EXCEPT !.event = job[h].event, !.plan = job[h].plan]
        OBVIOUS
    <2>2. Holds("plan", j) /\ j.todo = {} /\ j.doomed = {}
        BY <2>1, IdleHolds DEF Holds, Fields, Putting, Removing, AtService, HandlersHold
    <2>3. pc' = [pc EXCEPT ![h] = "plan"] /\ job' = [job EXCEPT ![h] = j]
        BY <1>2, <2>1 DEF Leave, GoTo
    <2> QED BY <2>2, <2>3, OneMoves
<1> QED BY <1>1, <1>2

\* A handler goes to another place and nothing else changes.
LEMMA GoQuietly ==
    ASSUME KInv, Handed, NEW h \in Handlers, NEW place, GoTo(h, place), Holds(place, job[h]),
           flows' \subseteq flows, UNCHANGED <<cached, job>>, excused \subseteq excused'
    PROVE  KInv'
<1>1. HandlersHold'
    BY DEF KInv, HandlersHold, GoTo
<1> QED BY <1>1, Quiet

-----------------------------------------------------------------------------
(***************************************************************************)
(* The steps of the network, of the application and of the hosts           *)
(***************************************************************************)
LEMMA OutsideSteps ==
    ASSUME KInv, Handed,
           \/ \E l \in Wires \cap Frail : LinkFails(l) \/ LinkReturns(l)
           \/ \E d \in Switches \cap Frail : DeviceFails(d) \/ DeviceReturns(d)
           \/ PostFails \/ PostTimesOut \/ Expire
           \/ \E s \in Sessions : DuplicatePacketIn(s) \/ Deferred(s) \/ Tick(s)
    PROVE  KInv'
<1>1. UNCHANGED <<pc, job, cached>> /\ flows' \subseteq flows /\ excused \subseteq excused'
    BY DEF LinkFails, LinkReturns, DeviceFails, DeviceReturns, PostFails, PostTimesOut,
           Expire, DuplicatePacketIn, Deferred, Tick, Notice, Excuse, Fault, dictionaries,
           marks, history, bounds, application, network
<1> QED BY <1>1, NobodyMoves, Quiet DEF KInv

\* A handler takes an event, or a packet-in.
LEMMA TakesWork ==
    ASSUME KInv, Handed, NEW h \in Handlers, Post(h) \/ \E s \in Sessions : PacketIn(h, s)
    PROVE  KInv'
<1>1. pc[h] = "idle" /\ UNCHANGED <<flows, cached, excused>>
    BY DEF Post, PacketIn, dictionaries, history
<1>2. PICK place, j : /\ pc' = [pc EXCEPT ![h] = place] /\ job' = [job EXCEPT ![h] = j]
                      /\ Holds(place, j)
    <2>1. CASE Post(h)
        <3>1. PICK j : j = [Idle EXCEPT !.event = Head(queue)]
            OBVIOUS
        <3>2. Holds("event", j)
            BY <3>1, IdleHolds DEF Holds, Fields, Putting, Removing, AtService
        <3> QED BY <2>1, <3>1, <3>2 DEF Post, GoTo
    <2>2. ASSUME NEW s \in Sessions, PacketIn(h, s)
          PROVE  \E place, j : /\ pc' = [pc EXCEPT ![h] = place]
                               /\ job' = [job EXCEPT ![h] = j] /\ Holds(place, j)
        <3>1. PICK j : j = [Idle EXCEPT !.who = s]
            OBVIOUS
        <3>2. Holds("gate", j)
            BY <3>1, IdleHolds DEF Holds, Fields, Putting, Removing, AtService
        <3> QED BY <2>2, <3>1, <3>2 DEF PacketIn, GoTo
    <2> QED BY <2>1, <2>2
<1>3. HandlersHold' /\ \A k \in Handlers : k # h => job'[k] = job[k]
    BY <1>2, OneMoves DEF KInv
<1>4. job[h].todo = {} /\ job[h].doomed = {}
    BY <1>1 DEF KInv, HandlersHold, Holds, Putting, Removing
<1> QED BY <1>1, <1>3, <1>4, Quiet

-----------------------------------------------------------------------------
(***************************************************************************)
(* The steps of an installation                                            *)
(***************************************************************************)
LEMMA GateStep ==
    ASSUME KInv, Handed, NEW h \in Handlers, InstallGate(h)
    PROVE  KInv'
<1>1. PICK f : f = GateFlow(job[h].who)
    OBVIOUS
<1>2. /\ flows' = Replaced(f) /\ cached' = cached \cup {f} /\ job' = job
      /\ pc[h] = "gate" /\ pc' = [pc EXCEPT ![h] = "route"] /\ excused' = excused
    BY <1>1 DEF InstallGate, GoTo, history
<1>3. Holds("gate", job[h])
    BY <1>2 DEF KInv, HandlersHold
<1>4. HandlersHold'
    BY <1>2, <1>3 DEF KInv, HandlersHold, Holds, Putting, Removing, AtService
<1>5. FlowsOwned'
    <2>1. f.sel[2] = job[h].who.host /\ job[h].who \in Sessions
        BY <1>1, <1>3 DEF GateFlow, Flow, Holds, AtService
    <2> QED BY <1>2, <2>1 DEF Replaced, KInv, FlowsOwned
<1>6. OwnFlowsKnown'
    <2>1. \A g \in cached : Passed(g)
        BY <1>2 DEF Passed
    <2>2. \A k \in Handlers : \A g : g \in job[k].doomed \/ g \in job[k].todo => Passed(g)
        BY <1>2 DEF Passed
    <2>3. \A g \in flows' : g \in flows \/ Passed(g)
        BY <1>2 DEF Replaced, Passed
    <2> QED BY <1>2, <2>1, <2>2, <2>3, KnownPasses DEF KInv
<1> QED BY <1>4, <1>5, <1>6 DEF KInv

\* The flows of a path are shared or the session's.
LEMMA PathFlowsOwned ==
    ASSUME NEW s, NEW there, NEW back, NEW f \in There(s, there) \cup Back(s, back)
    PROVE  IsShared(f) \/ f.sel[2] = s.host
<1>1. \A out : IsShared(EdgeFlow(s, out)) \/ EdgeFlow(s, out).sel[2] = s.host
    BY DEF EdgeFlow, IsShared, Flow
<1>2. Answer(s).sel[2] = s.host
    BY DEF Answer, Flow
<1>3. \A at, in, out :
         /\ Flow(at, in, <<"deliver", s.host>>, out).sel[2] = s.host
         /\ Flow(at, in, <<"return", s.host>>, out).sel[2] = s.host
         /\ IsShared(Flow(at, in, <<"to", s.server>>, out))
         /\ IsShared(Flow(at, in, <<"from", s.server>>, out))
    BY DEF Flow, IsShared
<1> QED BY <1>1, <1>2, <1>3 DEF There, Back

LEMMA RouteSteps ==
    ASSUME KInv, Handed, NEW h \in Handlers, Route(h) \/ NoRoute(h) \/ RouteFails(h)
    PROVE  KInv'
<1>1. pc[h] = "route" /\ UNCHANGED <<flows, cached>> /\ excused \subseteq excused'
    BY DEF Route, NoRoute, RouteFails, Excuse, Fault, dictionaries
<1>2. Holds("route", job[h])
    BY <1>1 DEF KInv, HandlersHold
<1>3. job[h].todo = {} /\ job[h].doomed = {}
    BY <1>2 DEF Holds, Putting, Removing
<1>4. CASE NoRoute(h) \/ RouteFails(h)
    <2>1. HandlersHold' /\ \A k \in Handlers : k # h => job'[k] = job[k]
        BY <1>4, LeaveMoves DEF NoRoute, RouteFails, KInv
    <2> QED BY <1>1, <1>3, <2>1, Quiet
<1>5. CASE Route(h)
    <2>1. PICK s, there, back :
             /\ s = job[h].who
             /\ job' = [job EXCEPT ![h].path = [there |-> there, back |-> back],
                                   ![h].todo = There(s, there) \cup Back(s, back)]
        BY <1>5 DEF Route
    <2>2. PICK j : j = [job[h] EXCEPT !.path = [there |-> there, back |-> back],
                                      !.todo = There(s, there) \cup Back(s, back)]
        OBVIOUS
    <2>3. Holds("put", j)
        <3>1. /\ DOMAIN j = Fields /\ j.plan = job[h].plan /\ j.who = s
              /\ j.doomed = {} /\ j.todo = There(s, there) \cup Back(s, back)
            BY <1>2, <1>3, <2>1, <2>2 DEF Holds, Fields
        <3>2. \A f \in j.todo : IsShared(f) \/ f.sel[2] = j.who.host
            BY <3>1, PathFlowsOwned
        <3> QED BY <1>2, <2>1, <3>1, <3>2 DEF Holds, Putting, AtService
    <2>4. job' = [job EXCEPT ![h] = j] /\ pc' = [pc EXCEPT ![h] = "put"]
        BY <1>5, <2>1, <2>2 DEF Route, GoTo
    <2>5. HandlersHold' /\ \A k \in Handlers : k # h => job'[k] = job[k]
        BY <2>3, <2>4, OneMoves DEF KInv
    <2> QED BY <1>1, <1>3, <2>5, Quiet
<1> QED BY <1>4, <1>5

\* The flow a handler is about: one that is shared.
LEMMA ItemIsShared ==
    ASSUME NEW h, Common(h) # {}
    PROVE  Item(h) \in job[h].todo /\ IsShared(Item(h))
BY DEF Common, Item

LEMMA ItemAtWork ==
    ASSUME KInv, NEW h \in Handlers, pc[h] \in {"drop", "install", "note"}
    PROVE  Common(h) # {}
BY DEF KInv, HandlersHold, Holds, Common

\* A shared flow is done with.
LEMMA DoneKeeps ==
    ASSUME KInv, Handed, NEW h \in Handlers, pc[h] \in {"put", "install", "note"}, Common(h) # {},
           Done(h, {Item(h)}),
           pc' = [pc EXCEPT ![h] = "put"] \/ (pc[h] = "put" /\ pc' = pc),
           flows' = flows \/ flows' = Replaced(Item(h)),
           cached' = cached, excused \subseteq excused'
    PROVE  KInv'
<1>1. PICK f : f = Item(h)
    OBVIOUS
<1>2. f \in job[h].todo /\ IsShared(f)
    BY <1>1, ItemIsShared
<1>3. PICK j : j = [job[h] EXCEPT !.todo = @ \ {f}]
    OBVIOUS
<1>4. Holds(pc[h], job[h])
    BY DEF KInv, HandlersHold
<1>5. DOMAIN j = Fields /\ j.todo = job[h].todo \ {f} /\ j.doomed = job[h].doomed
      /\ j.plan = job[h].plan /\ j.who = job[h].who
    BY <1>3, <1>4 DEF Holds, Fields
<1>6. Holds("put", j)
    BY <1>4, <1>5 DEF Holds, Putting, Removing, AtService
<1>7. job' = [job EXCEPT ![h] = j]
    BY <1>1, <1>3 DEF Done
<1>8. /\ DOMAIN pc' = Handlers /\ pc'[h] = "put"
      /\ \A k \in Handlers : k # h => pc'[k] = pc[k]
    BY DEF KInv, HandlersHold
<1>9. HandlersHold' /\ job'[h] = j /\ \A k \in Handlers : k # h => job'[k] = job[k]
    BY <1>6, <1>7, <1>8 DEF KInv, HandlersHold
<1>10. FlowsOwned'
    BY <1>1, <1>2 DEF Replaced, KInv, FlowsOwned
<1>11. OwnFlowsKnown'
    <2>1. \A g \in cached : Passed(g)
        BY DEF Passed
    <2>2. \A k \in Handlers : \A g : g \in job[k].doomed \/ g \in job[k].todo => Passed(g)
        BY <1>2, <1>5, <1>9 DEF Passed
    <2>3. \A g \in flows' : g \in flows \/ Passed(g)
        BY <1>1, <1>2 DEF Replaced, Passed
    <2> QED BY <2>1, <2>2, <2>3, KnownPasses DEF KInv
<1> QED BY <1>9, <1>10, <1>11 DEF KInv

LEMMA SharedSteps ==
    ASSUME KInv, Handed, NEW h \in Handlers,
           Reuse(h) \/ Stale(h) \/ Drop(h) \/ Miss(h) \/ Install(h) \/ InstallFails(h) \/ Note(h)
    PROVE  KInv'
<1>0. Holds(pc[h], job[h])
    BY DEF KInv, HandlersHold
<1>1. CASE Reuse(h)
    <2>1. /\ pc[h] = "put" /\ Common(h) # {} /\ Done(h, {Item(h)})
          /\ UNCHANGED <<pc, flows, cached>> /\ excused \subseteq excused'
        BY <1>1 DEF Reuse, Excuse, dictionaries
    <2> QED BY <2>1, DoneKeeps
<1>2. CASE InstallFails(h)
    <2>1. /\ pc[h] = "install" /\ Done(h, {Item(h)}) /\ pc' = [pc EXCEPT ![h] = "put"]
          /\ flows' = flows \/ flows' = Replaced(Item(h))
          /\ cached' = cached /\ excused \subseteq excused'
        BY <1>2 DEF InstallFails, Fault, GoTo, dictionaries
    <2> QED BY <2>1, ItemAtWork, DoneKeeps
<1>3. CASE Note(h)
    <2>1. /\ pc[h] = "note" /\ Done(h, {Item(h)}) /\ pc' = [pc EXCEPT ![h] = "put"]
          /\ UNCHANGED <<flows, cached, excused>>
        BY <1>3 DEF Note, GoTo, history
    <2> QED BY <2>1, ItemAtWork, DoneKeeps
<1>4. CASE Stale(h) \/ Miss(h)
    <2>1. /\ pc[h] = "put" /\ (GoTo(h, "drop") \/ GoTo(h, "install"))
          /\ UNCHANGED <<flows, cached, job>> /\ excused \subseteq excused'
        BY <1>4 DEF Stale, Miss, Fault, NoFault, dictionaries, history
    <2>2. \E f \in job[h].todo : IsShared(f)
        BY <1>4 DEF Stale, Miss, Common
    <2>3. Holds("drop", job[h]) /\ Holds("install", job[h])
        BY <1>0, <2>1, <2>2 DEF Holds, Putting, Removing, AtService
    <2> QED BY <2>1, <2>3, GoQuietly
<1>5. CASE Drop(h)
    <2>1. /\ pc[h] = "drop" /\ GoTo(h, "install") /\ flows' \subseteq flows
          /\ UNCHANGED <<cached, job>> /\ excused \subseteq excused'
        BY <1>5 DEF Drop, Excuse, dictionaries
    <2>2. Holds("install", job[h])
        BY <1>0, <2>1 DEF Holds, Putting, Removing, AtService
    <2> QED BY <2>1, <2>2, GoQuietly
<1>6. CASE Install(h)
    <2>1. PICK f : f = Item(h)
        OBVIOUS
    <2>2. IsShared(f)
        BY <1>6, <2>1, ItemAtWork, ItemIsShared DEF Install
    <2>3. /\ pc[h] = "install" /\ pc' = [pc EXCEPT ![h] = "note"] /\ flows' = Replaced(f)
          /\ UNCHANGED <<cached, job>> /\ excused \subseteq excused'
        BY <1>6, <2>1 DEF Install, Excuse, GoTo, dictionaries
    <2>4. Holds("note", job[h])
        BY <1>0, <2>3 DEF Holds, Putting, Removing, AtService
    <2>5. HandlersHold'
        BY <2>3, <2>4 DEF KInv, HandlersHold
    <2>6. FlowsOwned'
        BY <2>2, <2>3 DEF Replaced, KInv, FlowsOwned
    <2>7. OwnFlowsKnown'
        BY <2>2, <2>3, KnownPasses DEF KInv, Passed, Replaced
    <2> QED BY <2>5, <2>6, <2>7 DEF KInv
<1> QED BY <1>1, <1>2, <1>3, <1>4, <1>5, <1>6

-----------------------------------------------------------------------------
LEMMA OwnSteps ==
    ASSUME KInv, Handed, NEW h \in Handlers, InstallOwn(h) \/ OwnFails(h) \/ Record(h)
    PROVE  KInv'
<1>0. Holds(pc[h], job[h])
    BY DEF KInv, HandlersHold
<1>1. CASE InstallOwn(h)
    <2>1. /\ pc[h] = "put" /\ Common(h) = {} /\ pc' = [pc EXCEPT ![h] = "record"]
          /\ flows' = {f \in flows : \A g \in job[h].todo : ~SameSelector(f, g)}
                        \cup job[h].todo
          /\ UNCHANGED <<cached, job>> /\ excused \subseteq excused'
        BY <1>1 DEF InstallOwn, Excuse, GoTo, dictionaries
    <2>2. Holds("record", job[h])
        BY <1>0, <2>1 DEF Holds, Putting, Removing, AtService
    <2>3. HandlersHold'
        BY <2>1, <2>2 DEF KInv, HandlersHold
    <2>4. \A f \in job[h].todo : f.sel[2] = job[h].who.host /\ job[h].who \in Sessions
        BY <1>0, <2>1 DEF Holds, AtService, Putting, Common
    <2>5. FlowsOwned'
        BY <2>1, <2>4 DEF KInv, FlowsOwned
    <2>6. OwnFlowsKnown'
        BY <2>1, KnownPasses DEF KInv, Passed
    <2> QED BY <2>3, <2>5, <2>6 DEF KInv
<1>2. CASE OwnFails(h)
    <2>1. PICK f \in job[h].todo : Done(h, {f})
        BY <1>2 DEF OwnFails
    <2>2. /\ pc[h] = "put" /\ Common(h) = {} /\ pc' = pc
          /\ UNCHANGED <<flows, cached>>
          /\ excused' = excused \cup {job[h].who}
        BY <1>2 DEF OwnFails, Fault, dictionaries
    <2>3. PICK j : j = [job[h] EXCEPT !.todo = @ \ {f}]
        OBVIOUS
    <2>4. DOMAIN j = Fields /\ j.todo = job[h].todo \ {f} /\ j.doomed = job[h].doomed
          /\ j.plan = job[h].plan /\ j.who = job[h].who
        BY <1>0, <2>3 DEF Holds, Fields
    <2>5. Holds("put", j)
        BY <1>0, <2>2, <2>4 DEF Holds, Putting, Removing, AtService
    <2>6. job' = [job EXCEPT ![h] = j]
        BY <2>1, <2>3 DEF Done
    <2>7. HandlersHold' /\ job'[h] = j /\ \A k \in Handlers : k # h => job'[k] = job[k]
        BY <2>2, <2>5, <2>6 DEF KInv, HandlersHold
    <2>8. job[h].who \in Sessions /\ ~IsShared(f) /\ f.sel[2] = job[h].who.host
        BY <1>0, <2>1, <2>2 DEF Holds, Common, AtService, Putting
    <2>9. Owners(f) \cap excused' # {}
        BY <2>2, <2>8 DEF Owners
    <2>10. \A g \in cached : Passed(g)
        BY <2>2 DEF Passed
    <2>11. \A k \in Handlers : \A g : g \in job[k].doomed \/ g \in job[k].todo => Passed(g)
        BY <2>4, <2>7, <2>9 DEF Passed
    <2>12. OwnFlowsKnown'
        BY <2>2, <2>10, <2>11, KnownPasses DEF KInv
    <2> QED BY <2>2, <2>7, <2>12 DEF KInv, FlowsOwned
<1>3. CASE Record(h)
    <2>1. /\ pc[h] = "record" /\ cached' = cached \cup job[h].todo /\ Leave(h)
          /\ UNCHANGED <<flows, excused>>
        BY <1>3 DEF Record
    <2>2. HandlersHold' /\ \A k \in Handlers : k # h => job'[k] = job[k]
        BY <2>1, LeaveMoves DEF KInv
    <2>3. job[h].doomed = {}
        BY <1>0, <2>1 DEF Holds, Removing
    <2>4. \A g \in cached : Passed(g)
        BY <2>1 DEF Passed
    <2>5. \A k \in Handlers : \A g : g \in job[k].doomed \/ g \in job[k].todo => Passed(g)
        BY <2>1, <2>2, <2>3 DEF Passed
    <2>6. OwnFlowsKnown'
        BY <2>1, <2>4, <2>5, KnownPasses DEF KInv
    <2> QED BY <2>1, <2>2, <2>6 DEF KInv, FlowsOwned
<1> QED BY <1>1, <1>2, <1>3

-----------------------------------------------------------------------------
(***************************************************************************)
(* The steps of a failover                                                 *)
(***************************************************************************)
LEMMA AnalysisSteps ==
    ASSUME KInv, Handed, NEW h \in Handlers,
           DuplicateEvent(h) \/ MarkEvent(h) \/ Analyse(h) \/ AnalysisFails(h)
    PROVE  KInv'
<1>0. Holds(pc[h], job[h])
    BY DEF KInv, HandlersHold
<1>1. CASE DuplicateEvent(h) \/ AnalysisFails(h)
    <2>1. /\ Finish(h) /\ pc[h] \in {"event", "analyse"}
          /\ UNCHANGED <<flows, cached>> /\ excused \subseteq excused'
        BY <1>1 DEF DuplicateEvent, AnalysisFails, Excuse, Fault, dictionaries
    <2> QED BY <2>1, FinishKeeps DEF Putting, Removing
<1>2. CASE MarkEvent(h)
    <2>1. /\ pc[h] = "event" /\ GoTo(h, "analyse") /\ UNCHANGED <<flows, cached, job, excused>>
        BY <1>2 DEF MarkEvent, dictionaries, history
    <2>2. Holds("analyse", job[h])
        BY <1>0, <2>1 DEF Holds, Putting, Removing, AtService
    <2> QED BY <2>1, <2>2, GoQuietly
<1>3. CASE Analyse(h)
    <2>0. /\ pc[h] = "analyse" /\ UNCHANGED <<flows, cached>> /\ excused \subseteq excused'
        BY <1>3 DEF Analyse, Excuse, dictionaries
    <2>1. CASE Finish(h)
        BY <2>0, <2>1, FinishKeeps DEF Putting, Removing
    <2>2. CASE ~Finish(h)
        <3>1. PICK plan \in SUBSET Sessions :
                 /\ job' = [job EXCEPT ![h].plan = plan]
                 /\ pc' = [pc EXCEPT ![h] = "cleanup"]
            BY <1>3, <2>2 DEF Analyse, GoTo
        <3>2. PICK j : j = [job[h] EXCEPT !.plan = plan]
            OBVIOUS
        <3>3. /\ DOMAIN j = Fields /\ j.todo = job[h].todo /\ j.doomed = job[h].doomed
              /\ j.plan = plan /\ j.who = job[h].who
            BY <1>0, <3>2 DEF Holds, Fields
        <3>4. Holds("cleanup", j)
            BY <1>0, <2>0, <3>3 DEF Holds, Putting, Removing, AtService
        <3>5. job' = [job EXCEPT ![h] = j]
            BY <3>1, <3>2
        <3>6. HandlersHold' /\ job'[h] = j /\ \A k \in Handlers : k # h => job'[k] = job[k]
            BY <3>1, <3>4, <3>5, OneMoves DEF KInv
        <3> QED BY <2>0, <3>3, <3>6, Quiet
    <2> QED BY <2>1, <2>2
<1> QED BY <1>1, <1>2, <1>3

\* Flows to delete are taken on: what M6 knew of them is with the handler now.
LEMMA TakesOn ==
    ASSUME KInv, Handed, NEW h \in Handlers, NEW place, NEW j,
           pc[h] \notin Putting \cup Removing, Holds(place, j), j.todo = {},
           pc' = [pc EXCEPT ![h] = place], job' = [job EXCEPT ![h] = j],
           \A f \in cached : f \in cached' \/ f \in j.doomed,
           UNCHANGED <<flows, excused>>
    PROVE  KInv'
<1>1. HandlersHold' /\ job'[h] = j /\ \A k \in Handlers : k # h => job'[k] = job[k]
    BY OneMoves DEF KInv
<1>2. job[h].todo = {} /\ job[h].doomed = {}
    BY DEF KInv, HandlersHold, Holds
<1>3. \A g \in cached : Passed(g)
    BY <1>1 DEF Passed
<1>4. \A k \in Handlers : \A g : g \in job[k].doomed \/ g \in job[k].todo => Passed(g)
    BY <1>1, <1>2 DEF Passed
<1>5. OwnFlowsKnown'
    BY <1>3, <1>4, KnownPasses DEF KInv
<1> QED BY <1>1, <1>5 DEF KInv, FlowsOwned

LEMMA TakingSteps ==
    ASSUME KInv, Handed, NEW h \in Handlers, Cleanup(h) \/ Scan(h) \/ Plan(h)
    PROVE  KInv'
<1>0. Holds(pc[h], job[h])
    BY DEF KInv, HandlersHold
<1>1. ASSUME NEW D, NEW place, place = "cleaning" \/ place = "scanning",
             job' = [job EXCEPT ![h].doomed = D], pc' = [pc EXCEPT ![h] = place],
             pc[h] = "cleanup" \/ pc[h] = "scan", UNCHANGED <<flows, cached, excused>>
      PROVE  KInv'
    <2>1. PICK j : j = [job[h] EXCEPT !.doomed = D]
        OBVIOUS
    <2>2. /\ DOMAIN j = Fields /\ j.todo = job[h].todo /\ j.doomed = D
          /\ j.plan = job[h].plan /\ j.who = job[h].who
        BY <1>0, <2>1 DEF Holds, Fields
    <2>3. job[h].todo = {}
        BY <1>0, <1>1 DEF Holds, Putting
    <2>4. Holds(place, j)
        BY <1>0, <1>1, <2>2, <2>3 DEF Holds, Putting, Removing, AtService
    <2>5. job' = [job EXCEPT ![h] = j]
        BY <1>1, <2>1
    <2> QED BY <1>1, <2>2, <2>3, <2>4, <2>5, TakesOn DEF Putting, Removing
<1>2. CASE Cleanup(h)
    BY <1>1, <1>2 DEF Cleanup, GoTo, history
<1>3. CASE Scan(h)
    BY <1>1, <1>3 DEF Scan, GoTo, dictionaries, history
<1>4. CASE Plan(h)
    <2>s. PICK s \in job[h].plan : \E p :
             /\ cached' = {f \in cached : s \notin Owners(f)}
             /\ job' = [job EXCEPT ![h].plan = @ \ {s}, ![h].who = s, ![h].doomed = Known(s),
                                   ![h].planned = p]
        BY <1>4 DEF Plan
    <2>1. PICK p :
             /\ cached' = {f \in cached : s \notin Owners(f)}
             /\ job' = [job EXCEPT ![h].plan = @ \ {s}, ![h].who = s, ![h].doomed = Known(s),
                                   ![h].planned = p]
        BY <2>s
    <2>2. /\ pc[h] = "plan" /\ pc' = [pc EXCEPT ![h] = "clearing"]
          /\ UNCHANGED <<flows, excused>>
        BY <1>4 DEF Plan, GoTo, history
    <2>3. PICK j : j = [job[h] EXCEPT !.plan = @ \ {s}, !.who = s, !.doomed = Known(s),
                                      !.planned = p]
        OBVIOUS
    <2>4. /\ DOMAIN j = Fields /\ j.todo = job[h].todo /\ j.doomed = Known(s)
          /\ j.plan = job[h].plan \ {s} /\ j.who = s
        BY <1>0, <2>3 DEF Holds, Fields
    <2>5. job[h].todo = {} /\ s \in Sessions
        BY <1>0, <2>1, <2>2 DEF Holds, Putting
    <2>6. Holds("clearing", j)
        BY <1>0, <2>2, <2>4, <2>5 DEF Holds, Putting, Removing, AtService
    <2>7. job' = [job EXCEPT ![h] = j]
        BY <2>1, <2>3
    <2>8. \A f \in cached : f \in cached' \/ f \in j.doomed
        BY <2>1, <2>4 DEF Known
    <2> QED BY <2>2, <2>4, <2>5, <2>6, <2>7, <2>8, TakesOn DEF Putting, Removing
<1> QED BY <1>2, <1>3, <1>4

LEMMA DeletingSteps ==
    ASSUME KInv, Handed, NEW h \in Handlers, Delete(h) \/ DeleteFails(h)
    PROVE  KInv'
<1>0. Holds(pc[h], job[h])
    BY DEF KInv, HandlersHold
<1>1. pc[h] \in Removing /\ cached' = cached
    BY DEF Delete, DeleteFails, AfterDeletes, Removing, dictionaries
<1>2. job[h].todo = {}
    BY <1>0, <1>1 DEF Holds, Putting, Removing
<1>3. CASE Delete(h)
    <2>1. PICK place : place = AfterDeletes[pc[h]]
        OBVIOUS
    <2>2. place \in {"scan", "plan", "gate"} /\ (place = "gate" => pc[h] = "clearing")
        BY <1>1, <2>1 DEF AfterDeletes, Removing
    <2>3. /\ flows' = {g \in flows : \A f \in job[h].doomed : ~SameSelector(f, g)}
          /\ job' = [job EXCEPT ![h].doomed = {}] /\ pc' = [pc EXCEPT ![h] = place]
          /\ excused \subseteq excused'
        BY <1>3, <2>1 DEF Delete, Excuse, GoTo
    <2>4. PICK j : j = [job[h] EXCEPT !.doomed = {}]
        OBVIOUS
    <2>5. /\ DOMAIN j = Fields /\ j.todo = {} /\ j.doomed = {}
          /\ j.plan = job[h].plan /\ j.who = job[h].who
        BY <1>0, <1>2, <2>4 DEF Holds, Fields
    <2>6. Holds(place, j)
        BY <1>0, <1>1, <2>2, <2>5 DEF Holds, Putting, Removing, AtService
    <2>7. job' = [job EXCEPT ![h] = j]
        BY <2>3, <2>4
    <2>8. HandlersHold' /\ job'[h] = j /\ \A k \in Handlers : k # h => job'[k] = job[k]
        BY <2>3, <2>6, <2>7, OneMoves DEF KInv
    <2>9. \A g \in job[h].doomed : \A f \in flows' : ~SameSelector(f, g)
        BY <2>3, SameOwners
    <2>10. \A g \in cached : Passed(g)
        BY <1>1 DEF Passed
    <2>11. \A k \in Handlers : \A g : g \in job[k].doomed \/ g \in job[k].todo => Passed(g)
        BY <1>2, <2>8, <2>9, SameOwners DEF Passed
    <2>12. OwnFlowsKnown'
        BY <2>3, <2>10, <2>11, KnownPasses DEF KInv
    <2> QED BY <2>3, <2>8, <2>12 DEF KInv, FlowsOwned
<1>4. CASE DeleteFails(h)
    <2>1. PICK f \in job[h].doomed : /\ job' = [job EXCEPT ![h].doomed = @ \ {f}]
                                     /\ excused' = excused \cup Owners(f)
        BY <1>4 DEF DeleteFails, Fault
    <2>2. UNCHANGED <<flows, pc>>
        BY <1>4 DEF DeleteFails
    <2>3. PICK j : j = [job[h] EXCEPT !.doomed = @ \ {f}]
        OBVIOUS
    <2>4. /\ DOMAIN j = Fields /\ j.todo = {} /\ j.doomed = job[h].doomed \ {f}
          /\ j.plan = job[h].plan /\ j.who = job[h].who
        BY <1>0, <1>2, <2>3 DEF Holds, Fields
    <2>5. Holds(pc[h], j)
        BY <1>0, <1>1, <2>4 DEF Holds, Putting, Removing, AtService
    <2>6. job' = [job EXCEPT ![h] = j]
        BY <2>1, <2>3
    <2>7. HandlersHold' /\ job'[h] = j /\ \A k \in Handlers : k # h => job'[k] = job[k]
        BY <2>2, <2>5, <2>6 DEF KInv, HandlersHold
    \* A flow that stays has an owner, who is excused now.
    <2>8. Passed(f)
        <3>1. CASE \E g \in flows : SameSelector(g, f) /\ ~IsShared(g)
            <4>1. PICK g \in flows : SameSelector(g, f) /\ ~IsShared(g)
                BY <3>1
            <4>2. Owners(g) # {}
                BY <4>1 DEF KInv, FlowsOwned, Owners
            <4> QED BY <2>1, <4>1, <4>2, SameOwners DEF Passed
        <3>2. CASE ~\E g \in flows : SameSelector(g, f) /\ ~IsShared(g)
            BY <2>2, <3>2, SameOwners DEF Passed
        <3> QED BY <3>1, <3>2
    <2>9. \A g \in cached : Passed(g)
        BY <1>1 DEF Passed
    <2>10. \A k \in Handlers : \A g : g \in job[k].doomed \/ g \in job[k].todo => Passed(g)
        BY <1>2, <2>4, <2>7, <2>8 DEF Passed
    <2>11. OwnFlowsKnown'
        BY <2>1, <2>2, <2>9, <2>10, KnownPasses DEF KInv
    <2> QED BY <2>2, <2>7, <2>11 DEF KInv, FlowsOwned
<1> QED BY <1>3, <1>4

LEMMA PlanningSteps ==
    ASSUME KInv, Handed, NEW h \in Handlers, Skip(h) \/ Planned(h)
    PROVE  KInv'
<1>0. Holds(pc[h], job[h])
    BY DEF KInv, HandlersHold
<1>1. CASE Planned(h)
    BY <1>1, FinishKeeps DEF Planned, Putting, Removing, dictionaries, history
<1>2. CASE Skip(h)
    <2>1. PICK s : job' = [job EXCEPT ![h].plan = @ \ {s}]
        BY <1>2 DEF Skip
    <2>2. /\ pc[h] = "plan" /\ UNCHANGED <<pc, flows, cached>> /\ excused \subseteq excused'
        BY <1>2 DEF Skip, Excuse, dictionaries
    <2>3. PICK j : j = [job[h] EXCEPT !.plan = @ \ {s}]
        OBVIOUS
    <2>4. /\ DOMAIN j = Fields /\ j.todo = job[h].todo /\ j.doomed = job[h].doomed
          /\ j.plan = job[h].plan \ {s} /\ j.who = job[h].who
        BY <1>0, <2>3 DEF Holds, Fields
    <2>5. Holds(pc[h], j)
        BY <1>0, <2>2, <2>4 DEF Holds, Putting, Removing, AtService
    <2>6. job' = [job EXCEPT ![h] = j]
        BY <2>1, <2>3
    <2>7. HandlersHold' /\ job'[h] = j /\ \A k \in Handlers : k # h => job'[k] = job[k]
        BY <2>2, <2>5, <2>6 DEF KInv, HandlersHold
    <2> QED BY <2>2, <2>4, <2>7, Quiet
<1> QED BY <1>1, <1>2

-----------------------------------------------------------------------------
(***************************************************************************)
(* The theorem                                                             *)
(***************************************************************************)
LEMMA InitKnown == Init => KInv
<1> SUFFICES ASSUME Init PROVE KInv
    OBVIOUS
<1>1. flows = {} /\ pc = [h \in Handlers |-> "idle"] /\ job = [h \in Handlers |-> Idle]
    BY DEF Init
<1> QED BY <1>1, IdleHolds DEF KInv, HandlersHold, FlowsOwned, OwnFlowsKnown

\* Only what installs a session's own flows takes them from those a restart left behind.
LEMMA HandedOn ==
    ASSUME Next, ~Restart
    PROVE  Handed
<1>1. ASSUME NEW h \in Handlers, InstallGate(h) PROVE Handed
    <2>1. PICK f : f = GateFlow(job[h].who)
        OBVIOUS
    <2>2. /\ flows' = Replaced(f) /\ cached' = cached \cup {f}
          /\ forgotten' = {g \in forgotten : ~SameSelector(g, f)}
        BY <1>1, <2>1 DEF InstallGate
    <2>3. \A g : SameSelector(g, f) => SameSelector(f, g)
        BY DEF SameSelector
    <2> QED BY <2>2, <2>3 DEF Handed, Passed, Replaced
<1>2. ASSUME NEW h \in Handlers, InstallOwn(h) PROVE Handed
    <2>1. /\ flows' = {f \in flows : \A g \in job[h].todo : ~SameSelector(f, g)}
                        \cup job[h].todo
          /\ forgotten' = {f \in forgotten : \A g \in job[h].todo : ~SameSelector(f, g)}
          /\ job' = job
        BY <1>2 DEF InstallOwn
    <2> QED BY <2>1 DEF Handed, Passed
<1>3. ASSUME NEW h \in Handlers, M6Step(h) \/ M6Fault(h), ~InstallGate(h), ~InstallOwn(h)
      PROVE  forgotten' = forgotten
    BY <1>3 DEF M6Step, M6Fault, Route, NoRoute, Reuse, Stale, Drop, Miss, Install, Note, Record,
       DuplicateEvent, MarkEvent, Analyse, Cleanup, Scan, Delete, Skip, Plan, Planned, RouteFails,
       InstallFails, OwnFails, AnalysisFails, DeleteFails, history
<1>4. ASSUME \/ \E l \in Wires \cap Frail : LinkFails(l) \/ LinkReturns(l)
             \/ \E d \in Switches \cap Frail : DeviceFails(d) \/ DeviceReturns(d)
             \/ PostFails \/ PostTimesOut \/ Expire
             \/ \E h \in Handlers : Post(h)
             \/ \E s \in Sessions : \/ \E h \in Handlers : PacketIn(h, s)
                                    \/ DuplicatePacketIn(s) \/ Deferred(s) \/ Tick(s)
      PROVE  forgotten' = forgotten
    BY <1>4 DEF LinkFails, LinkReturns, DeviceFails, DeviceReturns, PostFails, PostTimesOut,
       Expire, Post, PacketIn, DuplicatePacketIn, Deferred, Tick, history
<1>5. forgotten' = forgotten => Handed
    BY DEF Handed
<1> QED BY <1>1, <1>2, <1>3, <1>4, <1>5 DEF Next

\* A restart leaves no handler at work, and behind it what it does not adopt.
LEMMA RestartKnown ==
    ASSUME KInv, Restart
    PROVE  KInv'
<1>1. HandlersHold'
    BY IdleHolds DEF Restart, HandlersHold
<1>2. FlowsOwned'
    BY DEF Restart, KInv, FlowsOwned
<1>3. OwnFlowsKnown'
    <2>1. flows' = flows /\ forgotten' = {f \in flows : ~IsShared(f) /\ f \notin cached'}
        BY DEF Restart
    <2>2. \A f : SameSelector(f, f)
        BY DEF SameSelector
    <2> QED BY <2>1, <2>2 DEF OwnFlowsKnown, IsShared
<1> QED BY <1>1, <1>2, <1>3 DEF KInv

LEMMA NextKnown == KInv /\ [Next]_vars => KInv'
<1> SUFFICES ASSUME KInv, [Next]_vars PROVE KInv'
    OBVIOUS
<1>1. CASE UNCHANGED vars
    <2>1. UNCHANGED <<flows, cached, excused, forgotten, pc, job>>
        BY <1>1 DEF vars, dictionaries, history
    <2> QED BY <2>1, NobodyMoves, Quiet DEF KInv, Handed
<1>2. CASE Restart
    BY <1>2, RestartKnown
<1>3. CASE Next /\ ~Restart
    <2>0. Handed
        BY <1>3, HandedOn
    <2>1. CASE \/ \E l \in Wires \cap Frail : LinkFails(l) \/ LinkReturns(l)
               \/ \E d \in Switches \cap Frail : DeviceFails(d) \/ DeviceReturns(d)
               \/ PostFails \/ PostTimesOut \/ Expire
               \/ \E s \in Sessions : DuplicatePacketIn(s) \/ Deferred(s) \/ Tick(s)
        BY <2>0, <2>1, OutsideSteps
    <2>2. ASSUME NEW h \in Handlers, Post(h) \/ \E s \in Sessions : PacketIn(h, s)
          PROVE  KInv'
        BY <2>0, <2>2, TakesWork
    <2>3. ASSUME NEW h \in Handlers, M6Step(h) \/ M6Fault(h) PROVE KInv'
        BY <2>0, <2>3, GateStep, RouteSteps, SharedSteps, OwnSteps, AnalysisSteps, TakingSteps,
           DeletingSteps, PlanningSteps DEF M6Step, M6Fault
    <2> QED BY <1>3, <2>1, <2>2, <2>3 DEF Next
<1> QED BY <1>1, <1>2, <1>3

\* M6 knows every flow of a session that is its own, in the dictionary or through a
\* handler (m6_traductor.py:2004-2061, 3911-3943), unless the session is excused or the
\* flow was there when M6 last started (1539-1553, 6041): for any topology, any sessions
\* and any number of handlers, through any restarts.
THEOREM OwnFlowsAreKnown == Spec => []OwnFlowsKnown
<1>1. KInv => OwnFlowsKnown
    BY DEF KInv
<1> QED BY <1>1, InitKnown, NextKnown, PTL DEF Spec

\* What a handler that computes a path is given is the best path there is, there and back:
\* over links that ONOS lists, as short as any, the first in the order of the names among
\* those, and none only when there is none (calcular_pasos, m6_traductor.py:1208-1249).
THEOREM RoutesBest == Spec => []RoutesAreBest
<1>1. ASSUME NEW s \in Sessions
      PROVE  /\ Best(Listed, s.entry, s.exit, Path(Listed, s.entry, s.exit))
             /\ Best(Listed, s.exit, s.entry, Path(Listed, s.exit, s.entry))
    BY FailoverConstants, PathIsBest DEF FailoverConstants
<1>2. KInv => RoutesAreBest
    BY <1>1 DEF KInv, HandlersHold, Holds, AtService, RoutesAreBest
<1> QED BY <1>2, InitKnown, NextKnown, PTL DEF Spec

-----------------------------------------------------------------------------
(***************************************************************************)
(* Types                                                                   *)
(***************************************************************************)
Paths == [there : Seq(Switches), back : Seq(Switches)]
Places == {"idle", "gate", "route", "put", "drop", "install", "note", "record", "event",
           "analyse", "cleanup", "cleaning", "scan", "scanning", "plan", "clearing"}
Jobs == [event : Event, plan : SUBSET Sessions, who : Sessions, planned : BOOLEAN,
         path : Paths, todo : SUBSET FlowSet, doomed : SUBSET FlowSet]

\* No two of the flows that are a session's own have one selector.
Apart(F) == \A f, g \in F : ~IsShared(f) /\ SameSelector(f, g) => f = g

NetworkTyped == /\ link \in [Links -> {"active", "inactive", "gone"}]
                /\ away \subseteq Switches /\ changes \in 0..Changes
ApplicationTyped == /\ told \subseteq Event /\ queue \in Seq(Event)
                    /\ Len(queue) <= QueueCap /\ posting \in Handlers \cup {Nobody}
FlowsTyped == flows \subseteq FlowSet /\ \A f, g \in flows : SameSelector(f, g) => f = g
DictionariesTyped == /\ shared \subseteq FlowSet /\ cached \subseteq FlowSet
                     /\ \A f \in shared : IsShared(f)
                     /\ records \in [Sessions -> Paths]
MarksTyped == /\ handled \subseteq Event /\ cooling \subseteq Sessions
              /\ seen \in [Sessions -> 0..DedupWindow]
HandlersTyped == /\ pc \in [Handlers -> Places] /\ job \in [Handlers -> Jobs]
                 /\ \A h \in Handlers : Apart(job[h].todo)
HistoryTyped == /\ faults \in 0..Faults
                /\ excused \subseteq Sessions /\ promised \subseteq Sessions
                /\ forgotten \subseteq FlowSet

Typed == /\ NetworkTyped /\ ApplicationTyped /\ FlowsTyped /\ DictionariesTyped
         /\ MarksTyped /\ HandlersTyped /\ HistoryTyped

LEMMA TypedKept ==
    /\ UNCHANGED network /\ NetworkTyped => NetworkTyped'
    /\ UNCHANGED application /\ ApplicationTyped => ApplicationTyped'
    /\ UNCHANGED flows /\ FlowsTyped => FlowsTyped'
    /\ UNCHANGED dictionaries /\ DictionariesTyped => DictionariesTyped'
    /\ UNCHANGED marks /\ MarksTyped => MarksTyped'
    /\ UNCHANGED <<pc, job>> /\ HandlersTyped => HandlersTyped'
    /\ UNCHANGED <<bounds, history>> /\ HistoryTyped => HistoryTyped'
BY DEF network, application, dictionaries, marks, bounds, history, NetworkTyped,
       ApplicationTyped, FlowsTyped, DictionariesTyped, MarksTyped, HandlersTyped, HistoryTyped

LEMMA TypedIsTypeOK == Typed => TypeOK
<1> SUFFICES ASSUME Typed PROVE TypeOK
    OBVIOUS
<1>1. \A e \in Event : IsEvent(e)
    BY DEF Event, IsEvent
<1>2. \A r \in Paths : IsRecord(r)
    BY DEF Paths, IsRecord, Members
<1>3. \A e \in told \cup handled \cup Members(queue) : IsEvent(e)
    <2>1. Members(queue) \subseteq Event
        BY DEF Typed, ApplicationTyped, Members
    <2> QED BY <1>1, <2>1 DEF Typed, ApplicationTyped, MarksTyped
<1>4. \A d \in Switches : \A f, g \in FlowsAt(d) : SameSelector(f, g) => f = g
    BY DEF FlowsAt, Typed, FlowsTyped
<1>5. \A s \in Sessions : IsRecord(records[s]) /\ seen[s] \in 0..DedupWindow
    BY <1>2 DEF Typed, DictionariesTyped, MarksTyped
<1>6. ASSUME NEW h \in Handlers
      PROVE  /\ pc[h] \in Places /\ IsEvent(job[h].event) /\ job[h].plan \subseteq Sessions
             /\ job[h].who \in Sessions /\ job[h].planned \in BOOLEAN /\ IsRecord(job[h].path)
             /\ job[h].todo \subseteq FlowSet /\ job[h].doomed \subseteq FlowSet
    <2>1. job[h] \in Jobs /\ pc[h] \in Places
        BY DEF Typed, HandlersTyped
    <2> QED BY <1>1, <1>2, <2>1 DEF Jobs
<1> QED BY <1>3, <1>4, <1>5, <1>6 DEF Typed, TypeOK, NetworkTyped, ApplicationTyped,
        FlowsTyped, DictionariesTyped, MarksTyped, HistoryTyped, Places

\* Sessions are all that is ever excused.
LEMMA OnlySessions ==
    ASSUME HandlersTyped
    PROVE  /\ \A f : Owners(f) \subseteq Sessions
           /\ \A e : Late(e) \subseteq Sessions /\ Hit(e) \subseteq Sessions
           /\ \A h, again, F : Robbed(h, again, F) \subseteq Sessions
           /\ \A h \in Handlers : {job[h].who} \subseteq Sessions
<1>1. \A f : Owners(f) \subseteq Sessions
    BY DEF Owners
<1>2. \A h \in Handlers : job[h].who \in Sessions
    BY DEF HandlersTyped, Jobs
<1>3. \A e : Late(e) \subseteq Sessions
    BY <1>2 DEF Late
<1>4. \A e : Hit(e) \subseteq Sessions
    BY <1>3 DEF Hit
<1>5. \A h, again, F : Robbed(h, again, F) \subseteq Sessions
    BY <1>2 DEF Robbed
<1> QED BY <1>1, <1>2, <1>3, <1>4, <1>5

LEMMA ExcuseTyped ==
    ASSUME HistoryTyped, NEW S \in SUBSET Sessions, Excuse(S), faults' = faults,
           UNCHANGED <<promised, forgotten>>
    PROVE  HistoryTyped'
BY DEF HistoryTyped, Excuse

LEMMA FaultTyped ==
    ASSUME HistoryTyped, NEW S \in SUBSET Sessions, Fault(S),
           UNCHANGED <<promised, forgotten>>
    PROVE  HistoryTyped'
BY FailoverConstants DEF HistoryTyped, Fault, FailoverConstants

\* One handler goes on.
LEMMA MoveTyped ==
    ASSUME HandlersTyped, NEW h \in Handlers, NEW place \in Places, NEW j \in Jobs,
           Apart(j.todo), pc' = [pc EXCEPT ![h] = place], job' = [job EXCEPT ![h] = j]
    PROVE  HandlersTyped'
BY DEF HandlersTyped

LEMMA GoTyped ==
    ASSUME HandlersTyped, NEW h \in Handlers, NEW place \in Places, GoTo(h, place), job' = job
    PROVE  HandlersTyped'
BY DEF HandlersTyped, GoTo

LEMMA IdleTyped == Idle \in Jobs /\ Idle.todo = {} /\ Apart(Idle.todo) /\ "idle" \in Places
<1>1. NoEvent \in Event
    BY DEF NoEvent, Event
<1>2. NoPath \in Paths
    BY DEF NoPath, Paths
<1>3. (CHOOSE s \in Sessions : TRUE) \in Sessions
    BY FailoverConstants DEF FailoverConstants
<1> QED BY <1>1, <1>2, <1>3 DEF Idle, Jobs, Apart, Places

LEMMA FinishTyped ==
    ASSUME HandlersTyped, ApplicationTyped, NEW h \in Handlers, Finish(h), UNCHANGED <<told, queue>>
    PROVE  HandlersTyped' /\ ApplicationTyped'
<1>1. HandlersTyped'
    BY IdleTyped, MoveTyped DEF Finish, GoTo
<1>2. ApplicationTyped'
    BY DEF Finish, ApplicationTyped
<1> QED BY <1>1, <1>2

LEMMA LeaveTyped ==
    ASSUME HandlersTyped, ApplicationTyped, NEW h \in Handlers, Leave(h), UNCHANGED <<told, queue>>
    PROVE  HandlersTyped' /\ ApplicationTyped'
<1>1. CASE job[h].event = NoEvent
    BY <1>1, FinishTyped DEF Leave
<1>2. CASE job[h].event # NoEvent
    <2>1. PICK j : j = [Idle EXCEPT !.event = job[h].event, !.plan = job[h].plan]
        OBVIOUS
    <2>2. j \in Jobs /\ Apart(j.todo)
        BY <2>1, IdleTyped DEF Jobs, HandlersTyped
    <2>3. pc' = [pc EXCEPT ![h] = "plan"] /\ job' = [job EXCEPT ![h] = j] /\ posting' = posting
        BY <1>2, <2>1 DEF Leave, GoTo
    <2>4. HandlersTyped'
        BY <2>2, <2>3, MoveTyped DEF Places
    <2> QED BY <2>3, <2>4 DEF ApplicationTyped
<1> QED BY <1>1, <1>2

\* ONOS keeps one flow for a selector.
LEMMA ReplacedTyped ==
    ASSUME FlowsTyped, NEW f \in FlowSet, flows' = Replaced(f)
    PROVE  FlowsTyped'
BY DEF FlowsTyped, Replaced, SameSelector

LEMMA FewerFlowsTyped ==
    ASSUME FlowsTyped, flows' \subseteq flows
    PROVE  FlowsTyped'
BY DEF FlowsTyped

-----------------------------------------------------------------------------
\* The names in the selectors of a session's flows.
LEMMA SelectorsOf ==
    ASSUME NEW s \in Sessions
    PROVE  /\ \A k \in {"gate", "allow", "deliver", "answer", "return"} :
                 <<k, s.host>> \in Selectors
           /\ <<"edge", s.resource>> \in Selectors
           /\ <<"to", s.server>> \in Selectors /\ <<"from", s.server>> \in Selectors
<1>1. \A v \in {s.host, s.server, s.resource} :
         v \in UNION {{t.host, t.server, t.resource} : t \in Sessions}
    OBVIOUS
<1> QED BY <1>1 DEF Selectors

LEMMA SessionFlowsTyped ==
    ASSUME NEW s \in Sessions
    PROVE  /\ GateFlow(s) \in FlowSet /\ Answer(s) \in FlowSet
           /\ \A out \in Ports : EdgeFlow(s, out) \in FlowSet
<1>1. s.entry \in Switches /\ s.exit \in Switches
    BY FailoverConstants DEF FailoverConstants
<1> QED BY <1>1, SelectorsOf DEF GateFlow, Answer, EdgeFlow, Flow, FlowSet, Ports

LEMMA StepPorts ==
    ASSUME NEW path \in Seq(Switches), NEW i \in 1..Len(path)
    PROVE  path[i] \in Switches /\ InPort(path, i) \in Ports /\ OutPort(path, i) \in Ports
BY DEF InPort, OutPort, Ports

LEMMA PathFlowsTyped ==
    ASSUME NEW s \in Sessions, NEW there \in Seq(Switches) \ {<<>>}, NEW back \in Seq(Switches)
    PROVE  There(s, there) \cup Back(s, back) \in SUBSET FlowSet
<1>1. There(s, there) \subseteq FlowSet
    <2>1. EdgeFlow(s, OutPort(there, 1)) \in FlowSet
        <3>1. 1 \in 1..Len(there)
            OBVIOUS
        <3> QED BY <3>1, StepPorts, SessionFlowsTyped
    <2>2. ASSUME NEW i \in 2..Len(there)
          PROVE  /\ Flow(there[i], InPort(there, i), <<"deliver", s.host>>, Outside) \in FlowSet
                 /\ Flow(there[i], InPort(there, i), <<"to", s.server>>, OutPort(there, i))
                       \in FlowSet
        <3>1. i \in 1..Len(there)
            OBVIOUS
        <3>2. there[i] \in Switches /\ InPort(there, i) \in Ports /\ OutPort(there, i) \in Ports
            BY <3>1, StepPorts
        <3>3. Outside \in Ports
            BY DEF Ports
        <3> QED BY <3>2, <3>3, SelectorsOf DEF Flow, FlowSet
    <2> QED BY <2>1, <2>2 DEF There
<1>2. Back(s, back) \subseteq FlowSet
    <2>1. Answer(s) \in FlowSet
        BY SessionFlowsTyped
    <2>2. ASSUME NEW i \in 1..Len(back)
          PROVE  /\ Flow(back[i], InPort(back, i), <<"return", s.host>>, OutPort(back, i))
                       \in FlowSet
                 /\ Flow(back[i], InPort(back, i), <<"from", s.server>>, OutPort(back, i))
                       \in FlowSet
        <3>1. back[i] \in Switches /\ InPort(back, i) \in Ports /\ OutPort(back, i) \in Ports
            BY StepPorts
        <3> QED BY <3>1, SelectorsOf DEF Flow, FlowSet
    <2> QED BY <2>1, <2>2 DEF Back
<1> QED BY <1>1, <1>2

\* Of a session's own flows on its path no two have one selector: the two that let the
\* answers of the server through are at the two ends.
LEMMA PathFlowsApart ==
    ASSUME NEW s \in Sessions, NEW there, NEW back, Len(back) \in Nat \ {0},
           back[1] = s.exit, back[Len(back)] = s.entry
    PROVE  Apart(There(s, there) \cup Back(s, back))
<1> DEFINE edge == EdgeFlow(s, OutPort(there, 1))
           n == Len(there)
           deliver == Flow(there[n], InPort(there, n), <<"deliver", s.host>>, Outside)
           m == Len(back)
           Return(i) == Flow(back[i], InPort(back, i), <<"return", s.host>>, OutPort(back, i))
<1>1. s.exit # s.entry
    BY FailoverConstants DEF FailoverConstants
<1>2. ASSUME NEW f \in There(s, there) \cup Back(s, back), ~IsShared(f)
      PROVE  f \in {edge, deliver, Answer(s), Return(1), Return(m)}
    <2>1. \A i : /\ IsShared(Flow(there[i], InPort(there, i), <<"to", s.server>>, OutPort(there, i)))
                 /\ IsShared(Flow(back[i], InPort(back, i), <<"from", s.server>>, OutPort(back, i)))
        BY DEF IsShared, Flow
    <2>2. f \in There(s, there) => f \in {edge, deliver}
        BY <1>2, <2>1 DEF There
    <2>3. f \in Back(s, back) => f \in {Answer(s), Return(1), Return(m)}
        BY <1>2, <2>1 DEF Back
    <2> QED BY <2>2, <2>3
<1>3. ~IsShared(edge) => edge.sel[1] = "allow"
    BY DEF IsShared, EdgeFlow, Flow
<1>4. deliver.sel[1] = "deliver" /\ Answer(s).sel[1] = "answer"
    BY DEF Answer, Flow
<1>5. \A i : Return(i).sel[1] = "return" /\ Return(i).at = back[i]
    BY DEF Flow
<1> HIDE DEF edge, deliver, Return, m
<1>6. Return(1).at # Return(m).at
    BY <1>1, <1>5 DEF m
<1> SUFFICES ASSUME NEW f \in There(s, there) \cup Back(s, back),
                    NEW g \in There(s, there) \cup Back(s, back),
                    ~IsShared(f), SameSelector(f, g)
             PROVE  f = g
    BY DEF Apart
<1>7. ~IsShared(g) /\ f.sel[1] = g.sel[1] /\ f.at = g.at
    BY SameOwners DEF SameSelector
<1> QED BY <1>2, <1>3, <1>4, <1>5, <1>6, <1>7

-----------------------------------------------------------------------------
LEMMA NetworkStepsTyped ==
    ASSUME Typed,
           \/ \E l \in Wires \cap Frail : LinkFails(l) \/ LinkReturns(l)
           \/ \E d \in Switches \cap Frail : DeviceFails(d) \/ DeviceReturns(d)
    PROVE  Typed'
<1> USE DEF Typed
<1>1. ASSUME NEW e \in Event, Notice(e), UNCHANGED <<posting, faults, promised, forgotten>>
      PROVE  ApplicationTyped' /\ HistoryTyped'
    <2>1. queue \in Seq(Event) /\ Append(queue, e) \in Seq(Event)
          /\ Len(Append(queue, e)) = Len(queue) + 1 /\ Len(queue) \in Nat
        BY DEF ApplicationTyped
    <2>2. ApplicationTyped'
        BY <1>1, <2>1, FailoverConstants DEF Notice, ApplicationTyped, FailoverConstants
    <2>3. HistoryTyped'
        BY <1>1, OnlySessions, ExcuseTyped DEF Notice
    <2> QED BY <2>2, <2>3
<1>2. \A l \in Links : [NoEvent EXCEPT !.links = {l}] \in Event
    BY DEF NoEvent, Event
<1>3. \A d \in Switches : [NoEvent EXCEPT !.devices = {d}] \in Event
    BY DEF NoEvent, Event
<1>4. Wires \subseteq Links /\ Losses \subseteq {"inactive", "gone"} /\ Changes \in Nat
    BY FailoverConstants DEF FailoverConstants
<1>5. ASSUME NEW l \in Wires \cap Frail, LinkFails(l)
      PROVE  Typed'
    <2>1. NetworkTyped'
        BY <1>4, <1>5 DEF LinkFails, Change, NetworkTyped
    <2>2. Notice([NoEvent EXCEPT !.links = {l}]) /\ UNCHANGED <<posting, faults, promised, forgotten>>
          /\ UNCHANGED <<flows, dictionaries, marks>> /\ UNCHANGED <<pc, job>>
        BY <1>5 DEF LinkFails, bounds
    <2>3. ApplicationTyped' /\ HistoryTyped'
        BY <1>1, <1>2, <1>4, <2>2
    <2> QED BY <2>1, <2>2, <2>3, TypedKept
<1>6. ASSUME NEW d \in Switches \cap Frail, DeviceFails(d)
      PROVE  Typed'
    <2>1. NetworkTyped'
        BY <1>4, <1>6 DEF DeviceFails, Change, NetworkTyped
    <2>2. Notice([NoEvent EXCEPT !.devices = {d}]) /\ UNCHANGED <<posting, faults, promised, forgotten>>
          /\ UNCHANGED <<flows, dictionaries, marks>> /\ UNCHANGED <<pc, job>>
        BY <1>6 DEF DeviceFails, bounds
    <2>3. ApplicationTyped' /\ HistoryTyped'
        BY <1>1, <1>3, <2>2
    <2> QED BY <2>1, <2>2, <2>3, TypedKept
<1>7. ASSUME NEW l \in Wires \cap Frail, LinkReturns(l)
      PROVE  Typed'
    <2>1. NetworkTyped'
        BY <1>4, <1>7 DEF LinkReturns, Change, NetworkTyped
    <2> QED BY <1>7, <2>1, TypedKept DEF LinkReturns
<1>8. ASSUME NEW d \in Switches \cap Frail, DeviceReturns(d)
      PROVE  Typed'
    <2>1. NetworkTyped'
        BY <1>4, <1>8 DEF DeviceReturns, Change, NetworkTyped
    <2> QED BY <1>8, <2>1, TypedKept DEF DeviceReturns
<1> QED BY <1>5, <1>6, <1>7, <1>8

\* The application, the hosts' packets, and time.
LEMMA OtherStepsTyped ==
    ASSUME Typed,
           \/ PostFails \/ PostTimesOut \/ Expire
           \/ \E h \in Handlers : Post(h)
           \/ \E s \in Sessions : \/ \E h \in Handlers : PacketIn(h, s)
                                  \/ DuplicatePacketIn(s) \/ Deferred(s) \/ Tick(s)
    PROVE  Typed'
<1> USE DEF Typed
<1>1. ASSUME queue # <<>>
      PROVE  /\ Tail(queue) \in Seq(Event) /\ Head(queue) \in Event
             /\ Len(Tail(queue)) <= QueueCap
    <2>1. QueueCap \in Nat /\ queue \in Seq(Event) /\ Len(queue) <= QueueCap
        BY FailoverConstants DEF FailoverConstants, ApplicationTyped
    <2>2. Len(Tail(queue)) = Len(queue) - 1 /\ Len(queue) \in Nat
        BY <1>1, <2>1
    <2> QED BY <1>1, <2>1, <2>2
<1>2. DedupWindow \in 0..DedupWindow /\ DedupWindow \in Nat
    BY FailoverConstants DEF FailoverConstants
<1>3. CASE PostFails
    <2>1. /\ queue # <<>> /\ queue' = Tail(queue) /\ Fault(Hit(Head(queue)))
          /\ UNCHANGED <<network, told, posting, flows, dictionaries, marks, promised, forgotten>>
          /\ UNCHANGED <<pc, job>>
        BY <1>3 DEF PostFails
    <2>2. ApplicationTyped'
        BY <1>1, <2>1 DEF ApplicationTyped
    <2>3. HistoryTyped'
        BY <2>1, OnlySessions, FaultTyped
    <2> QED BY <2>1, <2>2, <2>3, TypedKept
<1>4. CASE PostTimesOut
    <2>1. ApplicationTyped'
        BY <1>4 DEF PostTimesOut, ApplicationTyped
    <2>2. HistoryTyped'
        BY <1>4, FaultTyped DEF PostTimesOut
    <2> QED BY <1>4, <2>1, <2>2, TypedKept DEF PostTimesOut
<1>5. CASE Expire
    <2>1. PICK f : flows' = flows \ {f} /\ Fault(Owners(f))
        BY <1>5 DEF Expire
    <2>2. FlowsTyped' /\ HistoryTyped'
        BY <1>5, <2>1, FewerFlowsTyped, OnlySessions, FaultTyped DEF Expire
    <2> QED BY <1>5, <2>2, TypedKept DEF Expire
<1>6. ASSUME NEW h \in Handlers, Post(h)
      PROVE  Typed'
    <2>1. PICK j : j = [Idle EXCEPT !.event = Head(queue)]
        OBVIOUS
    <2>2. queue # <<>> /\ pc' = [pc EXCEPT ![h] = "event"] /\ job' = [job EXCEPT ![h] = j]
          /\ posting' = h /\ queue' = Tail(queue) /\ told' = told
          /\ UNCHANGED <<network, flows, dictionaries, marks>> /\ UNCHANGED <<bounds, history>>
        BY <1>6, <2>1 DEF Post, GoTo
    <2>3. j \in Jobs /\ Apart(j.todo)
        BY <1>1, <2>1, <2>2, IdleTyped DEF Jobs
    <2>4. HandlersTyped'
        BY <2>2, <2>3, MoveTyped DEF Places
    <2>5. ApplicationTyped'
        BY <1>1, <2>2 DEF ApplicationTyped
    <2> QED BY <2>2, <2>4, <2>5, TypedKept
<1>7. ASSUME NEW s \in Sessions, NEW h \in Handlers, PacketIn(h, s)
      PROVE  Typed'
    <2>1. PICK j : j = [Idle EXCEPT !.who = s]
        OBVIOUS
    <2>2. pc' = [pc EXCEPT ![h] = "gate"] /\ job' = [job EXCEPT ![h] = j]
          /\ seen' = [seen EXCEPT ![s] = DedupWindow] /\ UNCHANGED <<handled, cooling>>
          /\ UNCHANGED <<network, application, flows, dictionaries>>
          /\ UNCHANGED <<bounds, history>>
        BY <1>7, <2>1 DEF PacketIn, GoTo
    <2>3. j \in Jobs /\ Apart(j.todo)
        BY <2>1, IdleTyped DEF Jobs
    <2>4. HandlersTyped'
        BY <2>2, <2>3, MoveTyped DEF Places
    <2>5. MarksTyped'
        BY <1>2, <2>2 DEF MarksTyped
    <2> QED BY <2>2, <2>4, <2>5, TypedKept
<1>8. ASSUME NEW s \in Sessions, DuplicatePacketIn(s)
      PROVE  Typed'
    <2>1. MarksTyped'
        BY <1>8 DEF DuplicatePacketIn, AfterDuplicate, MarksTyped
    <2> QED BY <1>8, <2>1, TypedKept DEF DuplicatePacketIn
<1>9. ASSUME NEW s \in Sessions, Deferred(s)
      PROVE  Typed'
    <2>1. MarksTyped'
        BY <1>2, <1>9 DEF Deferred, MarksTyped
    <2>2. HistoryTyped'
        BY <1>9, FaultTyped DEF Deferred
    <2> QED BY <1>9, <2>1, <2>2, TypedKept DEF Deferred
<1>10. ASSUME NEW s \in Sessions, Tick(s)
       PROVE  Typed'
    <2>1. MarksTyped'
        BY <1>2, <1>10 DEF Tick, MarksTyped
    <2> QED BY <1>10, <2>1, TypedKept DEF Tick
<1> QED BY <1>3, <1>4, <1>5, <1>6, <1>7, <1>8, <1>9, <1>10

-----------------------------------------------------------------------------
\* The flow a handler is about.
LEMMA ItemTyped ==
    ASSUME HandlersTyped, NEW h \in Handlers, Common(h) # {}
    PROVE  Item(h) \in FlowSet /\ IsShared(Item(h)) /\ Item(h) \in job[h].todo
<1>1. Item(h) \in job[h].todo /\ IsShared(Item(h))
    BY ItemIsShared
<1> QED BY <1>1 DEF HandlersTyped, Jobs

\* Some flows are done with.
LEMMA DoneTyped ==
    ASSUME HandlersTyped, NEW h \in Handlers, NEW F, Done(h, F), NEW place \in Places,
           GoTo(h, place)
    PROVE  HandlersTyped'
<1>1. PICK j : j = [job[h] EXCEPT !.todo = @ \ F]
    OBVIOUS
<1>2. j \in Jobs /\ Apart(j.todo)
    BY <1>1 DEF HandlersTyped, Jobs, Apart
<1>3. job' = [job EXCEPT ![h] = j]
    BY <1>1 DEF Done
<1> QED BY <1>2, <1>3, MoveTyped DEF GoTo

\* To stay is to go where one is.
LEMMA Stays ==
    ASSUME HandlersTyped, NEW h \in Handlers, UNCHANGED pc
    PROVE  pc[h] \in Places /\ GoTo(h, pc[h])
BY DEF HandlersTyped, GoTo

\* What a handler has left to delete.
LEMMA DoomedTyped ==
    ASSUME HandlersTyped, NEW h \in Handlers, NEW F \in SUBSET FlowSet, NEW place \in Places,
           job' = [job EXCEPT ![h].doomed = F], GoTo(h, place)
    PROVE  HandlersTyped'
<1>1. PICK j : j = [job[h] EXCEPT !.doomed = F]
    OBVIOUS
<1>2. j \in Jobs /\ Apart(j.todo)
    BY <1>1 DEF HandlersTyped, Jobs
<1>3. job' = [job EXCEPT ![h] = j]
    BY <1>1
<1> QED BY <1>2, <1>3, MoveTyped DEF GoTo

LEMMA RouteStepsTyped ==
    ASSUME Typed, KInv, NEW h \in Handlers,
           InstallGate(h) \/ Route(h) \/ NoRoute(h) \/ RouteFails(h)
    PROVE  Typed'
<1> USE DEF Typed
<1>1. job[h].who \in Sessions /\ {job[h].who} \in SUBSET Sessions
    BY DEF HandlersTyped, Jobs
<1>2. CASE InstallGate(h)
    <2>1. GateFlow(job[h].who) \in FlowSet
        BY <1>1, SessionFlowsTyped
    <2>2. FlowsTyped'
        BY <1>2, <2>1, ReplacedTyped DEF InstallGate
    <2>3. DictionariesTyped'
        BY <1>2, <2>1 DEF InstallGate, DictionariesTyped
    <2>4. HandlersTyped'
        BY <1>2, GoTyped DEF InstallGate, Places
    <2>5. HistoryTyped'
        BY <1>2 DEF InstallGate, HistoryTyped, bounds
    <2> QED BY <1>2, <2>2, <2>3, <2>4, <2>5, TypedKept DEF InstallGate
<1>3. CASE Route(h)
    <2>1. PICK s, there, back :
             /\ s = job[h].who /\ there = Path(Listed, s.entry, s.exit)
             /\ back = Path(Listed, s.exit, s.entry) /\ there # <<>> /\ back # <<>>
             /\ job' = [job EXCEPT ![h].path = [there |-> there, back |-> back],
                                   ![h].todo = There(s, there) \cup Back(s, back)]
             /\ GoTo(h, "put") /\ Excuse(IF Blind(there) \/ Blind(back) THEN {s} ELSE {})
             /\ UNCHANGED <<network, application, flows, dictionaries, marks, bounds, promised, forgotten>>
        BY <1>3 DEF Route
    <2>2. /\ there \in Seq(Switches) /\ back \in Seq(Switches)
          /\ Best(Listed, s.exit, s.entry, back)
        BY <1>1, <2>1, FailoverConstants, PathIsBest DEF FailoverConstants
    <2>3. Len(back) \in Nat \ {0} /\ back[1] = s.exit /\ back[Len(back)] = s.entry
        <3>1. IsPath(Listed, back, s.exit, s.entry)
            BY ONLY <2>1, <2>2 DEF Best
        <3>2. Len(back) \in Nat
            BY ONLY <2>2
        <3> QED BY ONLY <3>1, <3>2 DEF IsPath
    <2>4. PICK F : F = There(s, there) \cup Back(s, back)
        OBVIOUS
    <2>5. F \in SUBSET FlowSet
        BY <1>1, <2>1, <2>2, <2>4, PathFlowsTyped
    <2>6. Apart(F)
        BY <1>1, <2>1, <2>3, <2>4, PathFlowsApart
    <2>7. PICK p : p = [there |-> there, back |-> back]
        OBVIOUS
    <2>8. p \in Paths
        BY <2>2, <2>7 DEF Paths
    <2>9. PICK j : j = [job[h] EXCEPT !.path = p, !.todo = F]
        OBVIOUS
    <2>10. j \in Jobs /\ j.todo = F
        BY <2>5, <2>8, <2>9 DEF HandlersTyped, Jobs
    <2>11. job' = [job EXCEPT ![h] = j] /\ pc' = [pc EXCEPT ![h] = "put"]
        BY <2>1, <2>4, <2>7, <2>9 DEF GoTo
    <2>12. HandlersTyped'
        BY <2>6, <2>10, <2>11, MoveTyped DEF Places
    <2>13. HistoryTyped'
        BY <2>1, OnlySessions, ExcuseTyped DEF bounds
    <2> QED BY <2>1, <2>12, <2>13, TypedKept
<1>4. CASE NoRoute(h)
    <2>1. Leave(h) /\ Excuse({job[h].who}) /\ UNCHANGED <<told, queue>>
          /\ UNCHANGED <<network, flows, dictionaries, marks, bounds, promised, forgotten>>
        BY <1>4 DEF NoRoute
    <2>2. HandlersTyped' /\ ApplicationTyped'
        BY <2>1, LeaveTyped
    <2>3. HistoryTyped'
        BY <1>1, <2>1, ExcuseTyped DEF bounds
    <2> QED BY <2>1, <2>2, <2>3, TypedKept
<1>5. CASE RouteFails(h)
    <2>1. Leave(h) /\ Fault({job[h].who}) /\ UNCHANGED <<told, queue>>
          /\ UNCHANGED <<network, flows, dictionaries, marks, promised, forgotten>>
        BY <1>5 DEF RouteFails
    <2>2. HandlersTyped' /\ ApplicationTyped'
        BY <2>1, LeaveTyped
    <2>3. HistoryTyped'
        BY <1>1, <2>1, FaultTyped
    <2> QED BY <2>1, <2>2, <2>3, TypedKept
<1> QED BY <1>2, <1>3, <1>4, <1>5

LEMMA SharedStepsTyped ==
    ASSUME Typed, KInv, NEW h \in Handlers,
           \/ Reuse(h) \/ Stale(h) \/ Drop(h) \/ Miss(h) \/ Install(h) \/ InstallFails(h)
           \/ Note(h)
    PROVE  Typed'
<1> USE DEF Typed
<1>1. /\ {job[h].who} \in SUBSET Sessions /\ {} \in SUBSET Sessions
      /\ \A again, F : Robbed(h, again, F) \in SUBSET Sessions
    BY OnlySessions
<1>2. CASE Reuse(h)
    <2>1. HandlersTyped'
        BY <1>2, Stays, DoneTyped DEF Reuse
    <2>2. HistoryTyped'
        BY <1>1, <1>2, ExcuseTyped DEF Reuse, bounds
    <2> QED BY <1>2, <2>1, <2>2, TypedKept DEF Reuse
<1>3. CASE Stale(h)
    <2>1. HandlersTyped'
        BY <1>3, GoTyped DEF Stale, Places
    <2>2. HistoryTyped'
        <3>1. Fault({}) \/ NoFault
            BY <1>3 DEF Stale
        <3>2. UNCHANGED <<promised, forgotten>>
            BY <1>3 DEF Stale
        <3>3. CASE NoFault
            BY <3>2, <3>3 DEF NoFault, HistoryTyped
        <3> QED BY <1>1, <3>1, <3>2, <3>3, FaultTyped
    <2>3. DictionariesTyped'
        BY <1>3 DEF Stale, DictionariesTyped
    <2> QED BY <1>3, <2>1, <2>2, <2>3, TypedKept DEF Stale
<1>4. CASE Drop(h)
    <2>1. HandlersTyped'
        BY <1>4, GoTyped DEF Drop, Places
    <2>2. HistoryTyped'
        BY <1>1, <1>4, ExcuseTyped DEF Drop, bounds
    <2>3. FlowsTyped'
        BY <1>4, FewerFlowsTyped DEF Drop
    <2> QED BY <1>4, <2>1, <2>2, <2>3, TypedKept DEF Drop
<1>5. CASE Miss(h)
    <2>1. HandlersTyped'
        BY <1>5, GoTyped DEF Miss, Places
    <2> QED BY <1>5, <2>1, TypedKept DEF Miss
<1>6. CASE Install(h)
    <2>1. HandlersTyped'
        BY <1>6, GoTyped DEF Install, Places
    <2>2. HistoryTyped'
        BY <1>1, <1>6, ExcuseTyped DEF Install, bounds
    <2>3. FlowsTyped'
        BY <1>6, ItemAtWork, ItemTyped, ReplacedTyped DEF Install
    <2> QED BY <1>6, <2>1, <2>2, <2>3, TypedKept DEF Install
<1>7. CASE InstallFails(h)
    <2>1. HandlersTyped'
        BY <1>7, DoneTyped DEF InstallFails, Places
    <2>2. HistoryTyped'
        BY <1>1, <1>7, FaultTyped DEF InstallFails
    <2>3. FlowsTyped'
        BY <1>7, ItemAtWork, ItemTyped, ReplacedTyped, FewerFlowsTyped DEF InstallFails
    <2> QED BY <1>7, <2>1, <2>2, <2>3, TypedKept DEF InstallFails
<1>8. CASE Note(h)
    <2>1. HandlersTyped'
        BY <1>8, DoneTyped DEF Note, Places
    <2>2. Item(h) \in FlowSet /\ IsShared(Item(h))
        BY <1>8, ItemAtWork, ItemTyped DEF Note
    <2>3. DictionariesTyped'
        BY <1>8, <2>2 DEF Note, DictionariesTyped
    <2> QED BY <1>8, <2>1, <2>3, TypedKept DEF Note
<1> QED BY <1>2, <1>3, <1>4, <1>5, <1>6, <1>7, <1>8

LEMMA OwnStepsTyped ==
    ASSUME Typed, KInv, NEW h \in Handlers, InstallOwn(h) \/ OwnFails(h) \/ Record(h)
    PROVE  Typed'
<1> USE DEF Typed
<1>1. /\ {job[h].who} \in SUBSET Sessions /\ job[h].todo \in SUBSET FlowSet
      /\ job[h].path \in Paths /\ Apart(job[h].todo)
    BY DEF HandlersTyped, Jobs
<1>2. CASE InstallOwn(h)
    <2>1. HandlersTyped'
        BY <1>2, GoTyped DEF InstallOwn, Places
    <2>2. FlowsTyped'
        <3>1. flows' = {f \in flows : \A g \in job[h].todo : ~SameSelector(f, g)} \cup job[h].todo
            BY <1>2 DEF InstallOwn
        <3>2. \A f \in job[h].todo : ~IsShared(f)
            BY <1>2 DEF InstallOwn, Common
        <3>3. \A f, g \in job[h].todo : SameSelector(f, g) => f = g
            BY <1>1, <3>2 DEF Apart
        <3>4. \A f, g : SameSelector(f, g) => SameSelector(g, f)
            BY DEF SameSelector
        <3>5. flows' \subseteq FlowSet
            BY <1>1, <3>1 DEF FlowsTyped
        <3> QED BY <3>1, <3>3, <3>4, <3>5 DEF FlowsTyped
    <2>3. HistoryTyped'
        <3>1. PICK S \in SUBSET Sessions : Excuse(S)
            BY <1>1, <1>2 DEF InstallOwn
        <3>2. /\ excused' = excused \cup S /\ UNCHANGED <<faults, promised>>
              /\ forgotten' \subseteq forgotten
            BY <1>2, <3>1 DEF InstallOwn, Excuse, bounds
        <3> QED BY <3>2 DEF HistoryTyped
    <2> QED BY <1>2, <2>1, <2>2, <2>3, TypedKept DEF InstallOwn
<1>3. CASE OwnFails(h)
    <2>1. HandlersTyped'
        BY <1>3, Stays, DoneTyped DEF OwnFails
    <2>2. HistoryTyped'
        BY <1>1, <1>3, FaultTyped DEF OwnFails
    <2> QED BY <1>3, <2>1, <2>2, TypedKept DEF OwnFails
<1>4. CASE Record(h)
    <2>1. Leave(h) /\ UNCHANGED <<told, queue>>
          /\ UNCHANGED <<network, flows, shared, marks, bounds, excused>>
        BY <1>4 DEF Record
    <2>2. HandlersTyped' /\ ApplicationTyped'
        BY <2>1, LeaveTyped
    <2>3. DictionariesTyped'
        BY <1>1, <1>4 DEF Record, DictionariesTyped
    <2>4. HistoryTyped'
        BY <1>1, <1>4 DEF Record, HistoryTyped, bounds
    <2> QED BY <2>1, <2>2, <2>3, <2>4, TypedKept
<1> QED BY <1>2, <1>3, <1>4

LEMMA EventStepsTyped ==
    ASSUME Typed, KInv, NEW h \in Handlers,
           DuplicateEvent(h) \/ MarkEvent(h) \/ Analyse(h) \/ AnalysisFails(h) \/ Planned(h)
    PROVE  Typed'
<1> USE DEF Typed
<1>1. job[h].event \in Event /\ Hit(job[h].event) \in SUBSET Sessions
    BY OnlySessions DEF HandlersTyped, Jobs
<1>2. CASE DuplicateEvent(h)
    <2>1. HandlersTyped' /\ ApplicationTyped'
        BY <1>2, FinishTyped DEF DuplicateEvent
    <2>2. HistoryTyped'
        BY <1>1, <1>2, ExcuseTyped DEF DuplicateEvent, bounds
    <2> QED BY <1>2, <2>1, <2>2, TypedKept DEF DuplicateEvent
<1>3. CASE MarkEvent(h)
    <2>1. HandlersTyped'
        BY <1>3, GoTyped DEF MarkEvent, Places
    <2>2. MarksTyped'
        BY <1>1, <1>3 DEF MarkEvent, MarksTyped
    <2> QED BY <1>3, <2>1, <2>2, TypedKept DEF MarkEvent
<1>4. CASE Analyse(h)
    <2>1. PICK affected \in SUBSET Sessions, plan \in SUBSET Sessions :
             /\ IF plan = {} THEN Finish(h)
                ELSE /\ job' = [job EXCEPT ![h].plan = plan]
                     /\ GoTo(h, "cleanup") /\ UNCHANGED posting
             /\ Excuse(affected \ plan)
             /\ UNCHANGED <<network, told, queue, flows, dictionaries, marks, bounds, promised, forgotten>>
        BY <1>4 DEF Analyse
    <2>2. HistoryTyped'
        BY <2>1, ExcuseTyped DEF bounds
    <2>3. CASE plan = {}
        <3>1. HandlersTyped' /\ ApplicationTyped'
            BY <2>1, <2>3, FinishTyped
        <3> QED BY <2>1, <2>2, <3>1, TypedKept
    <2>4. CASE plan # {}
        <3>1. PICK j : j = [job[h] EXCEPT !.plan = plan]
            OBVIOUS
        <3>2. j \in Jobs /\ Apart(j.todo)
            BY <3>1 DEF HandlersTyped, Jobs
        <3>3. pc' = [pc EXCEPT ![h] = "cleanup"] /\ job' = [job EXCEPT ![h] = j]
              /\ UNCHANGED <<told, queue, posting>>
            BY <2>1, <2>4, <3>1 DEF GoTo
        <3>4. HandlersTyped'
            BY <3>2, <3>3, MoveTyped DEF Places
        <3>5. ApplicationTyped'
            BY <3>3 DEF ApplicationTyped
        <3> QED BY <2>1, <2>2, <3>4, <3>5, TypedKept
    <2> QED BY <2>3, <2>4
<1>5. CASE AnalysisFails(h)
    <2>1. HandlersTyped' /\ ApplicationTyped'
        BY <1>5, FinishTyped DEF AnalysisFails
    <2>2. HistoryTyped'
        BY <1>1, <1>5, FaultTyped DEF AnalysisFails
    <2> QED BY <1>5, <2>1, <2>2, TypedKept DEF AnalysisFails
<1>6. CASE Planned(h)
    <2>1. HandlersTyped' /\ ApplicationTyped'
        BY <1>6, FinishTyped DEF Planned
    <2> QED BY <1>6, <2>1, TypedKept DEF Planned
<1> QED BY <1>2, <1>3, <1>4, <1>5, <1>6

LEMMA CleaningStepsTyped ==
    ASSUME Typed, KInv, NEW h \in Handlers,
           Cleanup(h) \/ Scan(h) \/ Delete(h) \/ DeleteFails(h) \/ Skip(h) \/ Plan(h)
    PROVE  Typed'
<1> USE DEF Typed
<1>1. job[h] \in Jobs
    BY DEF HandlersTyped
<1>2. CASE Cleanup(h)
    <2>1. KeysHit(job[h].event) \subseteq FlowSet
        BY DEF KeysHit, DictionariesTyped
    <2>2. PICK F \in SUBSET FlowSet : job' = [job EXCEPT ![h].doomed = F]
        BY <1>2, <2>1 DEF Cleanup
    <2>3. HandlersTyped'
        BY <1>2, <2>2, DoomedTyped DEF Cleanup, Places
    <2>4. DictionariesTyped'
        BY <1>2 DEF Cleanup, DictionariesTyped
    <2> QED BY <1>2, <2>3, <2>4, TypedKept DEF Cleanup
<1>3. CASE Scan(h)
    <2>1. PICK F \in SUBSET FlowSet : job' = [job EXCEPT ![h].doomed = F]
        BY <1>3 DEF Scan, FlowsTyped
    <2>2. HandlersTyped'
        BY <1>3, <2>1, DoomedTyped DEF Scan, Places
    <2> QED BY <1>3, <2>2, TypedKept DEF Scan
<1>4. CASE Delete(h)
    <2>1. AfterDeletes[pc[h]] \in Places
        BY <1>4 DEF Delete, AfterDeletes, Places
    <2>2. HandlersTyped'
        BY <1>4, <2>1, DoomedTyped DEF Delete
    <2>3. FlowsTyped'
        BY <1>4, FewerFlowsTyped DEF Delete
    <2>4. HistoryTyped'
        <3>1. PICK S \in SUBSET Sessions : Excuse(S)
            BY <1>4, OnlySessions DEF Delete
        <3> QED BY <1>4, <3>1, ExcuseTyped DEF Delete, bounds
    <2> QED BY <1>4, <2>2, <2>3, <2>4, TypedKept DEF Delete
<1>5. CASE DeleteFails(h)
    <2>1. PICK f : job' = [job EXCEPT ![h].doomed = @ \ {f}] /\ Fault(Owners(f))
        BY <1>5 DEF DeleteFails
    <2>2. PICK F \in SUBSET FlowSet : job' = [job EXCEPT ![h].doomed = F]
        BY <1>1, <2>1 DEF Jobs
    <2>3. HandlersTyped'
        BY <1>5, <2>2, Stays, DoomedTyped DEF DeleteFails
    <2>4. HistoryTyped'
        BY <1>5, <2>1, OnlySessions, FaultTyped DEF DeleteFails
    <2> QED BY <1>5, <2>3, <2>4, TypedKept DEF DeleteFails
<1>6. CASE Skip(h)
    <2>1. PICK s \in job[h].plan : job' = [job EXCEPT ![h].plan = @ \ {s}] /\ Excuse({s})
        BY <1>6 DEF Skip
    <2>2. PICK j : j = [job[h] EXCEPT !.plan = @ \ {s}]
        OBVIOUS
    <2>3. j \in Jobs /\ Apart(j.todo) /\ {s} \in SUBSET Sessions
        BY <1>1, <2>1, <2>2 DEF HandlersTyped, Jobs
    <2>4. pc[h] \in Places /\ pc' = [pc EXCEPT ![h] = pc[h]] /\ job' = [job EXCEPT ![h] = j]
        BY <1>6, <2>1, <2>2 DEF Skip, HandlersTyped
    <2>5. HandlersTyped'
        BY <2>3, <2>4, MoveTyped
    <2>6. HistoryTyped'
        BY <1>6, <2>1, <2>3, ExcuseTyped DEF Skip, bounds
    <2> QED BY <1>6, <2>5, <2>6, TypedKept DEF Skip
<1>7. CASE Plan(h)
    <2>s. PICK s \in job[h].plan : \E planned \in BOOLEAN :
             /\ cooling' = cooling \cup {s}
             /\ cached' = {f \in cached : s \notin Owners(f)}
             /\ records' = [records EXCEPT ![s] = NoPath]
             /\ job' = [job EXCEPT ![h].plan = @ \ {s}, ![h].who = s, ![h].doomed = Known(s),
                                   ![h].planned = planned]
        BY <1>7 DEF Plan
    <2>1. PICK planned \in BOOLEAN :
             /\ cooling' = cooling \cup {s}
             /\ cached' = {f \in cached : s \notin Owners(f)}
             /\ records' = [records EXCEPT ![s] = NoPath]
             /\ job' = [job EXCEPT ![h].plan = @ \ {s}, ![h].who = s, ![h].doomed = Known(s),
                                   ![h].planned = planned]
        BY <2>s
    <2>2. s \in Sessions
        BY <1>1, <2>s DEF Jobs
    <2>3. Known(s) \subseteq FlowSet
        BY DEF Known, DictionariesTyped
    <2>n. NoPath \in Paths
        BY DEF NoPath, Paths
    <2>4. PICK j : j = [job[h] EXCEPT !.plan = @ \ {s}, !.who = s, !.doomed = Known(s),
                                      !.planned = planned]
        OBVIOUS
    <2>5. j \in Jobs /\ Apart(j.todo)
        BY <1>1, <2>2, <2>3, <2>4 DEF HandlersTyped, Jobs
    <2>6. job' = [job EXCEPT ![h] = j]
        BY <2>1, <2>4
    <2>p. pc' = [pc EXCEPT ![h] = "clearing"]
        BY <1>7 DEF Plan, GoTo
    <2>7. HandlersTyped'
        BY <2>5, <2>6, <2>p, MoveTyped DEF Places
    <2>8. DictionariesTyped'
        BY <1>7, <2>1, <2>n DEF Plan, DictionariesTyped
    <2>9. MarksTyped'
        BY <1>7, <2>1, <2>2 DEF Plan, MarksTyped
    <2> QED BY <1>7, <2>7, <2>8, <2>9, TypedKept DEF Plan
<1> QED BY <1>2, <1>3, <1>4, <1>5, <1>6, <1>7

-----------------------------------------------------------------------------
LEMMA InitTyped == Init => Typed
<1> SUFFICES ASSUME Init PROVE Typed
    OBVIOUS
<1>1. /\ QueueCap \in Nat \ {0} /\ DedupWindow \in Nat /\ Changes \in Nat /\ Faults \in Nat
    BY FailoverConstants DEF FailoverConstants
<1>2. NoPath \in Paths
    BY DEF NoPath, Paths
<1>3. NetworkTyped
    BY <1>1 DEF Init, NetworkTyped
<1>4. ApplicationTyped
    BY <1>1 DEF Init, ApplicationTyped
<1>5. FlowsTyped /\ DictionariesTyped
    BY <1>2 DEF Init, FlowsTyped, DictionariesTyped
<1>6. MarksTyped /\ HistoryTyped
    BY <1>1 DEF Init, MarksTyped, HistoryTyped
<1>7. HandlersTyped
    BY IdleTyped DEF Init, HandlersTyped
<1> QED BY <1>3, <1>4, <1>5, <1>6, <1>7 DEF Typed

LEMMA RestartTyped ==
    ASSUME Typed, Restart
    PROVE  Typed'
<1> USE DEF Typed
<1>1. NoPath \in Paths /\ DedupWindow \in Nat
    BY FailoverConstants DEF NoPath, Paths, FailoverConstants
<1>2. NetworkTyped'
    BY FailoverConstants DEF Restart, Change, NetworkTyped, FailoverConstants
<1>3. ApplicationTyped' /\ FlowsTyped'
    BY DEF Restart, ApplicationTyped, FlowsTyped
<1>4. DictionariesTyped' /\ MarksTyped'
    BY <1>1 DEF Restart, DictionariesTyped, MarksTyped, FlowsTyped
<1>5. HandlersTyped'
    BY IdleTyped DEF Restart, HandlersTyped
<1>6. HistoryTyped'
    <2>1. promised' = {} /\ forgotten' \subseteq FlowSet
        BY DEF Restart, FlowsTyped
    <2>2. faults' \in 0..Faults /\ excused' \subseteq Sessions
        BY FailoverConstants DEF Restart, Fault, NoFault, HistoryTyped, FailoverConstants
    <2> QED BY <2>1, <2>2 DEF HistoryTyped
<1> QED BY <1>2, <1>3, <1>4, <1>5, <1>6

LEMMA NextTyped == Typed /\ KInv /\ [Next]_vars => Typed'
<1> SUFFICES ASSUME Typed, KInv, [Next]_vars PROVE Typed'
    OBVIOUS
<1>1. CASE UNCHANGED vars
    BY <1>1, TypedKept DEF vars, Typed
<1>2. ASSUME NEW h \in Handlers, M6Step(h) \/ M6Fault(h)
      PROVE  Typed'
    BY <1>2, RouteStepsTyped, SharedStepsTyped, OwnStepsTyped, EventStepsTyped,
       CleaningStepsTyped DEF M6Step, M6Fault
<1>3. CASE Next
    BY <1>2, <1>3, NetworkStepsTyped, OtherStepsTyped, RestartTyped DEF Next
<1> QED BY <1>1, <1>3

\* Every variable keeps its type, ONOS has one flow for a selector and the queue of the
\* application never holds more than it has room for (TopologyEventComponent.java:68-112):
\* for any topology, any sessions and any number of handlers.
THEOREM TypeCorrect == Spec => []TypeOK
<1> QED BY InitTyped, InitKnown, NextTyped, NextKnown, TypedIsTypeOK, PTL DEF Spec
-----------------------------------------------------------------------------
(***************************************************************************)
(* A path that works: the flows of a path whose links carry take a packet  *)
(* from one end to the other.                                              *)
(***************************************************************************)
\* A path from a switch to another that is at no switch twice.
Leads(path, src, dst) ==
    /\ path \in Seq(Switches) /\ Len(path) > 1
    /\ path[1] = src /\ path[Len(path)] = dst
    /\ \A i, j \in 1..Len(path) : path[i] = path[j] => i = j
Proper(s, p) ==
    p \in Paths /\ Leads(p.there, s.entry, s.exit) /\ Leads(p.back, s.exit, s.entry)

\* The best path is at no switch twice: what lies between could be left out.
LEMMA BestLeads ==
    ASSUME NEW links, NEW src \in Switches, NEW dst \in Switches, src # dst,
           NEW path \in Seq(Switches) \ {<<>>}, Best(links, src, dst, path)
    PROVE  Leads(path, src, dst)
<1> DEFINE n == Len(path)
<1>1. /\ IsPath(links, path, src, dst)
      /\ \A m \in 1..n - 1 : PathsOf(links, src, dst, m) = {}
    BY DEF Best
<1>2. /\ n \in Nat \ {0} /\ path[1] = src /\ path[n] = dst
      /\ \A i \in 1..n : path[i] \in Switches
      /\ \A i \in 1..n - 1 : <<path[i], path[i + 1]>> \in links
    BY <1>1 DEF IsPath
<1> HIDE DEF n
<1>3. ASSUME NEW i \in 1..n, NEW j \in 1..n, i < j, path[i] = path[j]
      PROVE  FALSE
    <2>1. PICK d, m : d = j - i /\ m = n - d
        OBVIOUS
    <2>2. d \in 1..n - 1 /\ m \in 1..n - 1 /\ i \in 1..m /\ j = i + d /\ n = m + d
        BY <1>2, <1>3, <2>1
    <2>3. PICK q : q = [k \in 1..m |-> IF k <= i THEN path[k] ELSE path[k + d]]
        OBVIOUS
    <2>4. q \in [1..m -> Switches]
        <3>1. \A k \in 1..m : k \in 1..n /\ k + d \in 1..n
            BY <1>2, <2>2
        <3> QED BY <1>2, <2>3, <3>1
    <2>5. Len(q) = m
        BY <2>2, <2>4
    <2>6. q[1] = src
        BY <1>2, <2>2, <2>3
    <2>7. q[m] = dst
        <3>1. CASE m <= i
            <4>1. m = i /\ j = n
                BY <2>2, <3>1
            <4> QED BY <1>2, <1>3, <2>3, <2>2, <4>1
        <3>2. CASE m > i
            BY <1>2, <2>2, <2>3, <3>2
        <3> QED BY <2>2, <3>1, <3>2
    <2>8. ASSUME NEW k \in 1..m - 1
          PROVE  <<q[k], q[k + 1]>> \in links
        <3>1. k \in 1..m /\ k + 1 \in 1..m /\ k \in 1..n - 1 /\ k + d \in 1..n - 1
              /\ (k + 1) + d = (k + d) + 1
            BY <2>2
        <3>2. /\ q[k] = IF k <= i THEN path[k] ELSE path[k + d]
              /\ q[k + 1] = IF k + 1 <= i THEN path[k + 1] ELSE path[(k + d) + 1]
            BY <2>3, <3>1
        <3>3. <<path[k], path[k + 1]>> \in links /\ <<path[k + d], path[(k + d) + 1]>> \in links
            BY <1>2, <3>1
        <3>4. CASE k + 1 <= i
            BY <2>2, <3>2, <3>3, <3>4
        <3>5. CASE k = i
            <4>1. path[k] = path[k + d]
                BY <1>3, <2>2, <3>5
            <4> QED BY <2>2, <3>2, <3>3, <3>5, <4>1
        <3>6. CASE k > i
            BY <2>2, <3>2, <3>3, <3>6
        <3> QED BY <2>2, <3>4, <3>5, <3>6
    <2>9. q \in PathsOf(links, src, dst, m)
        BY <2>2, <2>4, <2>5, <2>6, <2>7, <2>8 DEF PathsOf, IsPath
    <2> QED BY <1>1, <2>2, <2>9 DEF n
<1>4. \A i, j \in 1..n : path[i] = path[j] => i = j
    <2> SUFFICES ASSUME NEW i \in 1..n, NEW j \in 1..n, path[i] = path[j], i # j
                 PROVE  FALSE
        OBVIOUS
    <2>1. i < j \/ j < i
        BY <1>2
    <2> QED BY <1>3, <2>1
<1>5. n > 1
    BY <1>2
<1> QED BY <1>2, <1>4, <1>5 DEF n, Leads

LEMMA LeadsWithin ==
    ASSUME NEW path, NEW src, NEW dst, Leads(path, src, dst)
    PROVE  Len(path) \in Nat /\ Len(path) <= Cardinality(Switches)
<1>1. /\ Len(path) \in Nat /\ path \in [1..Len(path) -> Switches]
      /\ \A i, j \in 1..Len(path) : path[i] = path[j] => i = j
    BY DEF Leads
<1>2. path \in Injection(1..Len(path), Switches)
    BY <1>1 DEF Injection, IsInjective
<1>3. Cardinality(1..Len(path)) <= Cardinality(Switches)
    BY <1>2, SwitchesFinite, FS_Injection
<1>4. Cardinality(1..Len(path)) = Len(path)
    BY <1>1, FS_Interval
<1> QED BY <1>1, <1>3, <1>4

-----------------------------------------------------------------------------
\* The flows of a path, one by one.
ThereAt(s, path, i) ==
    IF i = Len(path) THEN Flow(path[i], InPort(path, i), <<"deliver", s.host>>, Outside)
    ELSE Flow(path[i], InPort(path, i), <<"to", s.server>>, OutPort(path, i))
BackAt(s, path, i) ==
    IF i \in {1, Len(path)}
    THEN Flow(path[i], InPort(path, i), <<"return", s.host>>, OutPort(path, i))
    ELSE Flow(path[i], InPort(path, i), <<"from", s.server>>, OutPort(path, i))

LEMMA FlowsOfPath ==
    ASSUME NEW s, NEW p, Proper(s, p), NEW f \in PathFlows(s, p)
    PROVE  \/ f = EdgeFlow(s, OutPort(p.there, 1))
           \/ f = Answer(s)
           \/ \E i \in 2..Len(p.there) : f = ThereAt(s, p.there, i)
           \/ \E i \in 1..Len(p.back) : f = BackAt(s, p.back, i)
<1>1. p # NoPath
    BY DEF NoPath, Proper, Leads
<1>2. f \in There(s, p.there) \cup Back(s, p.back)
    BY <1>1 DEF PathFlows
<1>3. CASE f \in There(s, p.there)
    BY <1>3, Zenon DEF There, ThereAt
<1>4. CASE f \in Back(s, p.back)
    BY <1>4, Zenon DEF Back, BackAt
<1> QED BY <1>2, <1>3, <1>4

LEMMA KindsOfFlows ==
    ASSUME NEW s
    PROVE  /\ \A out : EdgeFlow(s, out).sel[1] \in {"edge", "allow"}
           /\ Answer(s).sel[1] = "answer"
           /\ \A path, i : ThereAt(s, path, i).sel[1] \in {"deliver", "to"}
           /\ \A path, i : BackAt(s, path, i).sel[1] \in {"return", "from"}
           /\ GateFlow(s).sel[1] = "gate"
BY DEF EdgeFlow, Answer, ThereAt, BackAt, GateFlow, Flow

LEMMA FlowsKinds ==
    ASSUME NEW s, NEW p, Proper(s, p), NEW f \in PathFlows(s, p)
    PROVE  f.sel[1] # "gate" /\ (IsShared(f) \/ f.sel[2] = s.host)
<1>k. /\ \A out : EdgeFlow(s, out).sel[1] \in {"edge", "allow"}
      /\ Answer(s).sel[1] = "answer"
      /\ \A path, i : ThereAt(s, path, i).sel[1] \in {"deliver", "to"}
      /\ \A path, i : BackAt(s, path, i).sel[1] \in {"return", "from"}
    BY KindsOfFlows
<1>f. \/ f = EdgeFlow(s, OutPort(p.there, 1)) \/ f = Answer(s)
      \/ \E i \in 2..Len(p.there) : f = ThereAt(s, p.there, i)
      \/ \E i \in 1..Len(p.back) : f = BackAt(s, p.back, i)
    BY FlowsOfPath
<1>1. f.sel[1] # "gate"
    BY <1>k, <1>f
<1>2. p # NoPath
    BY DEF NoPath, Proper, Leads
<1>3. f \in There(s, p.there) \cup Back(s, p.back)
    BY <1>2 DEF PathFlows
<1> QED BY <1>1, <1>3, PathFlowsOwned

\* No two of them have one selector.
LEMMA FlowsDistinct ==
    ASSUME NEW s, NEW p, Proper(s, p),
           NEW f \in PathFlows(s, p), NEW g \in PathFlows(s, p), SameSelector(f, g)
    PROVE  f = g
<1>1. f.at = g.at /\ f.sel[1] = g.sel[1]
    BY DEF SameSelector
<1>2. /\ \A i, j \in 1..Len(p.there) : p.there[i] = p.there[j] => i = j
      /\ \A i, j \in 1..Len(p.back) : p.back[i] = p.back[j] => i = j
      /\ Len(p.there) \in Nat /\ Len(p.back) \in Nat
    BY DEF Proper, Leads
<1>3. /\ \A i : ThereAt(s, p.there, i).at = p.there[i]
      /\ \A i : BackAt(s, p.back, i).at = p.back[i]
    BY DEF ThereAt, BackAt, Flow
<1>k. /\ \A out : EdgeFlow(s, out).sel[1] \in {"edge", "allow"}
      /\ Answer(s).sel[1] = "answer"
      /\ \A path, i : ThereAt(s, path, i).sel[1] \in {"deliver", "to"}
      /\ \A path, i : BackAt(s, path, i).sel[1] \in {"return", "from"}
    BY KindsOfFlows
<1>f. \/ f = EdgeFlow(s, OutPort(p.there, 1)) \/ f = Answer(s)
      \/ \E i \in 2..Len(p.there) : f = ThereAt(s, p.there, i)
      \/ \E i \in 1..Len(p.back) : f = BackAt(s, p.back, i)
    BY FlowsOfPath
<1>g. \/ g = EdgeFlow(s, OutPort(p.there, 1)) \/ g = Answer(s)
      \/ \E i \in 2..Len(p.there) : g = ThereAt(s, p.there, i)
      \/ \E i \in 1..Len(p.back) : g = BackAt(s, p.back, i)
    BY FlowsOfPath
<1>4. CASE f = EdgeFlow(s, OutPort(p.there, 1))
    <2>1. g.sel[1] \in {"edge", "allow"}
        BY <1>1, <1>4, <1>k
    <2> QED BY <1>4, <1>g, <1>k, <2>1
<1>5. CASE f = Answer(s)
    <2>1. g.sel[1] = "answer"
        BY <1>1, <1>5, <1>k
    <2> QED BY <1>5, <1>g, <1>k, <2>1
<1>6. ASSUME NEW i \in 2..Len(p.there), f = ThereAt(s, p.there, i)
      PROVE  f = g
    <2>1. g.sel[1] \in {"deliver", "to"}
        BY <1>1, <1>6, <1>k
    <2>2. PICK j \in 2..Len(p.there) : g = ThereAt(s, p.there, j)
        BY <1>g, <1>k, <2>1
    <2>3. p.there[i] = p.there[j] /\ i \in 1..Len(p.there) /\ j \in 1..Len(p.there)
        BY <1>1, <1>3, <1>6, <2>2
    <2> QED BY <1>2, <1>6, <2>2, <2>3
<1>7. ASSUME NEW i \in 1..Len(p.back), f = BackAt(s, p.back, i)
      PROVE  f = g
    <2>1. g.sel[1] \in {"return", "from"}
        BY <1>1, <1>7, <1>k
    <2>2. PICK j \in 1..Len(p.back) : g = BackAt(s, p.back, j)
        BY <1>g, <1>k, <2>1
    <2>3. p.back[i] = p.back[j]
        BY <1>1, <1>3, <1>7, <2>2
    <2> QED BY <1>2, <1>7, <2>2, <2>3
<1> QED BY <1>4, <1>5, <1>6, <1>7, <1>f

\* Another session has none of a session's own flows.
LEMMA OthersFlows ==
    ASSUME NEW s \in Sessions, NEW t \in Sessions, s # t, NEW p, Proper(t, p),
           NEW f \in PathFlows(t, p), NEW g, SameSelector(f, g), g.sel[2] = s.host
    PROVE  IsShared(g)
<1>1. s.host # t.host
    BY FailoverConstants DEF FailoverConstants
<1>2. IsShared(f) \/ f.sel[2] = t.host
    BY FlowsKinds
<1>3. f.sel = g.sel
    BY DEF SameSelector
<1> QED BY <1>1, <1>2, <1>3 DEF IsShared

-----------------------------------------------------------------------------
\* A packet goes from switch to switch of a path whose links carry when there is a flow
\* for it at each of them.
LEMMA Follows ==
    ASSUME FlowsTyped, NEW s, NEW way, NEW src, NEW dst, NEW last, NEW path,
           Leads(path, src, dst), ~Blind(path),
           \A i \in 1..Len(path) - 1 :
              Flow(path[i], InPort(path, i), Selector(s, way, path[i]), path[i + 1]) \in flows,
           \E f \in flows : f.at = dst /\ f.in = path[Len(path) - 1] /\ f.sel = last
    PROVE  Arrives(s, way, src, dst, last)
<1> DEFINE Place(n) == <<path[n + 1], InPort(path, n + 1)>>
<1>1. /\ Len(path) \in Nat /\ Len(path) > 1 /\ path[1] = src /\ path[Len(path)] = dst
      /\ \A i \in 1..Len(path) : path[i] \in Switches
      /\ Outside \notin Switches
    <2>1. Outside \notin Switches
        BY TopologyConstants DEF TopologyConstants
    <2> QED BY <2>1 DEF Leads
<1>2. ASSUME NEW n \in Nat, n < Len(path) - 1
      PROVE  NextHop(s, way, Place(n)) = Place(n + 1)
    <2>1. n + 1 \in 1..Len(path) - 1 /\ n + 1 \in 1..Len(path) /\ (n + 1) + 1 \in 1..Len(path)
        BY <1>1, <1>2
    <2>2. PICK f : f = Flow(path[n + 1], InPort(path, n + 1), Selector(s, way, path[n + 1]),
                            path[(n + 1) + 1])
        OBVIOUS
    <2>3. f \in flows
        BY <2>1, <2>2
    <2>4. f.at = path[n + 1] /\ f.in = InPort(path, n + 1) /\ f.sel = Selector(s, way, path[n + 1])
          /\ f.out = path[(n + 1) + 1]
        BY <2>2 DEF Flow
    <2>5. Carries(f.at, f.out) /\ f.out # Outside
        BY <1>1, <2>1, <2>4 DEF Blind
    <2>6. PICK P, a, b : P = Place(n) /\ a = path[n + 1] /\ b = InPort(path, n + 1) /\ P = <<a, b>>
        OBVIOUS
    <2>7. {g \in flows : /\ g.at = P[1] /\ g.in = P[2] /\ g.sel = Selector(s, way, P[1])
                         /\ g.out # Outside /\ Carries(g.at, g.out)} = {f}
        <3>1. \A g \in flows : g.at = a /\ g.in = b /\ g.sel = Selector(s, way, a) => g = f
            BY <2>3, <2>4, <2>6 DEF FlowsTyped, SameSelector
        <3> QED BY <2>3, <2>4, <2>5, <2>6, <3>1
    <2>8. NextHop(s, way, P) = <<f.out, P[1]>>
        BY <2>7 DEF NextHop
    <2>9. InPort(path, (n + 1) + 1) = path[n + 1]
        BY <2>1 DEF InPort
    <2> QED BY <2>4, <2>6, <2>8, <2>9
<1> DEFINE Is(g) == g = [n \in Nat |-> IF n = 0 THEN <<src, Outside>> ELSE NextHop(s, way, g[n - 1])]
           hop == CHOOSE g : Is(g)
<1>3. Is(hop)
    <2>1. PICK V : V = {Dropped, <<src, Outside>>} \cup (Ports \X {src, Outside})
                         \cup (Ports \X Switches)
        OBVIOUS
    <2>2. \A place \in V : NextHop(s, way, place) \in V
        <3> SUFFICES ASSUME NEW place \in V PROVE NextHop(s, way, place) \in V
            OBVIOUS
        <3>1. PICK onward : onward = {f \in flows : /\ f.at = place[1] /\ f.in = place[2]
                                    /\ f.sel = Selector(s, way, place[1])
                                    /\ f.out # Outside /\ Carries(f.at, f.out)}
            OBVIOUS
        <3>2. NextHop(s, way, place) = IF onward = {} THEN Dropped
                                       ELSE <<(CHOOSE f \in onward : TRUE).out, place[1]>>
            BY <3>1 DEF NextHop
        <3>3. CASE onward = {}
            BY <2>1, <3>2, <3>3
        <3>4. CASE onward # {}
            <4>1. PICK f \in onward : f = CHOOSE g \in onward : TRUE
                BY <3>4
            <4>2. f.at \in Switches /\ f.out \in Ports /\ place[1] = f.at
                BY <3>1, <4>1 DEF FlowsTyped, FlowSet
            <4> QED BY <2>1, <3>2, <3>4, <4>1, <4>2
        <3> QED BY <3>3, <3>4
    <2>3. PICK start \in V : start = <<src, Outside>>
        BY <2>1
    <2>4. PICK step \in [Nat -> [V -> V]] :
             \A n \in Nat, place \in V : step[n][place] = NextHop(s, way, place)
        <3> DEFINE to == [n \in Nat |-> [place \in V |-> NextHop(s, way, place)]]
        <3>1. to \in [Nat -> [V -> V]]
            BY <2>2
        <3>2. \A n \in Nat, place \in V : to[n][place] = NextHop(s, way, place)
            OBVIOUS
        <3> QED BY <3>1, <3>2, Zenon
    <2>5. PICK f : Iterates(f, V, start, step)
        BY <2>3, <2>4, StepsExist
    <2>6. ASSUME NEW n \in Nat \ {0}
          PROVE  f[n] = NextHop(s, way, f[n - 1])
        <3>1. n - 1 \in Nat /\ (n - 1) + 1 = n /\ f[n - 1] \in V
            BY <2>5 DEF Iterates
        <3>2. f[(n - 1) + 1] = step[n - 1][f[n - 1]]
            BY <2>5, <3>1 DEF Iterates
        <3> QED BY <2>4, <3>1, <3>2
    <2>7. Is(f)
        <3>1. \A n \in Nat : f[n] = IF n = 0 THEN <<src, Outside>> ELSE NextHop(s, way, f[n - 1])
            BY <2>3, <2>5, <2>6 DEF Iterates
        <3> QED BY <2>5, <3>1 DEF Iterates
    <2> HIDE DEF Is
    <2> QED BY <2>7
<1>4. hop[0] = <<src, Outside>> /\ \A n \in Nat : hop[n + 1] = NextHop(s, way, hop[n])
    <2>1. \A n \in Nat : hop[n] = IF n = 0 THEN <<src, Outside>> ELSE NextHop(s, way, hop[n - 1])
        <3> HIDE DEF hop
        <3> QED BY <1>3
    <2>2. hop[0] = <<src, Outside>>
        <3> HIDE DEF hop
        <3> QED BY <2>1
    <2>3. ASSUME NEW n \in Nat
          PROVE  hop[n + 1] = NextHop(s, way, hop[n])
        <3>1. n + 1 \in Nat /\ n + 1 # 0 /\ (n + 1) - 1 = n
            OBVIOUS
        <3> HIDE DEF hop
        <3> QED BY <2>1, <3>1
    <2> HIDE DEF hop
    <2> QED BY <2>2, <2>3
<1>5. Arrives(s, way, src, dst, last) <=>
         \E n \in 1..Cardinality(Switches) :
            \E f \in flows : f.at = dst /\ hop[n] = <<dst, f.in>> /\ f.sel = last
    BY DEF Arrives
<1> HIDE DEF hop, Is
<1> DEFINE U == {n \in Nat : n <= Len(path) - 1 => hop[n] = Place(n)}
<1>6. 0 \in U
    <2>1. InPort(path, 1) = Outside /\ 0 + 1 = 1
        BY DEF InPort
    <2>2. Place(0) = <<path[0 + 1], InPort(path, 0 + 1)>>
        OBVIOUS
    <2>3. Place(0) = <<src, Outside>>
        BY <1>1, <2>1, <2>2
    <2> HIDE DEF Place
    <2> QED BY <1>4, <2>3
<1>7. ASSUME NEW n \in Nat, n \in U
      PROVE  n + 1 \in U
    <2> SUFFICES ASSUME n + 1 <= Len(path) - 1
                 PROVE  hop[n + 1] = Place(n + 1)
        OBVIOUS
    <2>1. n < Len(path) - 1 /\ n <= Len(path) - 1
        BY <1>1
    <2>2. hop[n] = Place(n)
        BY <1>7, <2>1
    <2> HIDE DEF Place
    <2> QED BY <1>2, <1>4, <2>1, <2>2
<1>8. PICK m : m = Len(path) - 1
    OBVIOUS
<1>9. m \in Nat /\ m + 1 = Len(path) /\ m \in 1..Cardinality(Switches)
    <2>1. Cardinality(Switches) \in Nat
        BY SwitchesFinite, FS_CardinalityType
    <2> QED BY <1>1, <1>8, <2>1, LeadsWithin
<1>10. hop[m] = <<dst, path[m]>>
    <2>1. m \in U
        <3> HIDE DEF U
        <3> QED BY <1>6, <1>7, <1>9, AllNumbers
    <2>2. hop[m] = <<path[m + 1], InPort(path, m + 1)>>
        BY <1>8, <1>9, <2>1
    <2>3. InPort(path, m + 1) = path[m]
        BY <1>1, <1>9 DEF InPort
    <2> QED BY <1>1, <1>9, <2>2, <2>3
<1> QED BY <1>5, <1>8, <1>9, <1>10

\* Every link of a path, there and back, carries.
Carrying(p) == p # NoPath /\ ~Blind(p.there) /\ ~Blind(p.back)
Firm(s) ==
    Carrying(records[s]) /\ GateFlow(s) \in flows /\ PathFlows(s, records[s]) \subseteq flows

LEMMA FirmIsWhole ==
    ASSUME FlowsTyped, NEW s \in Sessions, Proper(s, records[s]), Firm(s)
    PROVE  Whole(s)
<1>1. PICK there, back : there = records[s].there /\ back = records[s].back
    OBVIOUS
<1>2. /\ Leads(there, s.entry, s.exit) /\ ~Blind(there)
      /\ Leads(back, s.exit, s.entry) /\ ~Blind(back)
      /\ There(s, there) \subseteq flows /\ Back(s, back) \subseteq flows
      /\ GateFlow(s) \in flows
    BY <1>1 DEF Firm, Proper, Carrying, PathFlows
<1>3. s.entry # s.exit
    BY FailoverConstants DEF FailoverConstants
<1>4. Arrives(s, "there", s.entry, s.exit, <<"deliver", s.host>>)
    <2>1. Len(there) \in Nat /\ Len(there) > 1 /\ there[1] = s.entry
          /\ there[Len(there)] = s.exit
          /\ \A i, j \in 1..Len(there) : there[i] = there[j] => i = j
        BY <1>2 DEF Leads
    <2>2. ASSUME NEW i \in 1..Len(there) - 1
          PROVE  Flow(there[i], InPort(there, i), Selector(s, "there", there[i]), there[i + 1])
                    \in flows
        <3>0. OutPort(there, i) = there[i + 1] /\ i # Len(there) /\ i \in 1..Len(there)
            BY <2>1 DEF OutPort
        <3>1. CASE i = 1
            <4>1. EdgeFlow(s, OutPort(there, 1)) \in flows
                BY <1>2 DEF There
            <4>2. InPort(there, 1) = Outside /\ Selector(s, "there", s.entry) = EdgeFlow(s, Outside).sel
                BY DEF InPort, Selector
            <4>3. \A out : EdgeFlow(s, out) = Flow(s.entry, Outside, EdgeFlow(s, Outside).sel, out)
                BY DEF EdgeFlow, Flow
            <4> QED BY <2>1, <3>0, <3>1, <4>1, <4>2, <4>3
        <3>2. CASE i # 1
            <4>1. i \in 2..Len(there) /\ 1 \in 1..Len(there)
                BY <2>1, <3>2
            <4>2. there[i] # s.entry
                BY <2>1, <3>0, <3>2, <4>1
            <4>3. Selector(s, "there", there[i]) = <<"to", s.server>>
                BY <4>2 DEF Selector
            <4>4. Flow(there[i], InPort(there, i), <<"to", s.server>>, OutPort(there, i)) \in flows
                BY <1>2, <3>0, <4>1 DEF There
            <4> QED BY <3>0, <4>3, <4>4
        <3> QED BY <3>1, <3>2
    <2>3. \E f \in flows : /\ f.at = s.exit /\ f.in = there[Len(there) - 1]
                           /\ f.sel = <<"deliver", s.host>>
        <3>1. PICK n : n = Len(there) /\ n \in 2..Len(there) /\ n # 1
            BY <2>1
        <3>2. PICK f : f = Flow(there[n], InPort(there, n), <<"deliver", s.host>>, Outside)
            OBVIOUS
        <3>3. f \in flows
            BY <1>2, <3>1, <3>2 DEF There
        <3>4. f.at = there[n] /\ f.in = there[n - 1] /\ f.sel = <<"deliver", s.host>>
            BY <3>1, <3>2 DEF Flow, InPort
        <3> QED BY <2>1, <3>1, <3>3, <3>4
    <2> QED BY <1>2, <2>2, <2>3, Follows
<1>5. Arrives(s, "back", s.exit, s.entry, <<"return", s.host>>)
    <2>1. Len(back) \in Nat /\ Len(back) > 1 /\ back[1] = s.exit
          /\ back[Len(back)] = s.entry
          /\ \A i, j \in 1..Len(back) : back[i] = back[j] => i = j
        BY <1>2 DEF Leads
    <2>2. ASSUME NEW i \in 1..Len(back) - 1
          PROVE  Flow(back[i], InPort(back, i), Selector(s, "back", back[i]), back[i + 1])
                    \in flows
        <3>0. OutPort(back, i) = back[i + 1] /\ i # Len(back) /\ i \in 1..Len(back)
            BY <2>1 DEF OutPort
        <3>1. CASE i = 1
            <4>1. Flow(back[1], InPort(back, 1), <<"return", s.host>>, OutPort(back, 1)) \in flows
                BY <1>2, <3>0, <3>1 DEF Back
            <4>2. Selector(s, "back", s.exit) = <<"return", s.host>>
                BY <1>3 DEF Selector
            <4> QED BY <2>1, <3>0, <3>1, <4>1, <4>2
        <3>2. CASE i # 1
            <4>1. 1 \in 1..Len(back)
                BY <2>1
            <4>2. back[i] # s.exit
                BY <2>1, <3>0, <3>2, <4>1
            <4>3. Selector(s, "back", back[i]) = <<"from", s.server>>
                BY <4>2 DEF Selector
            <4>4. Flow(back[i], InPort(back, i), <<"from", s.server>>, OutPort(back, i)) \in flows
                BY <1>2, <3>0, <3>2 DEF Back
            <4> QED BY <3>0, <4>3, <4>4
        <3> QED BY <3>1, <3>2
    <2>3. \E f \in flows : /\ f.at = s.entry /\ f.in = back[Len(back) - 1]
                           /\ f.sel = <<"return", s.host>>
        <3>1. PICK n : n = Len(back) /\ n \in 1..Len(back) /\ n # 1
            BY <2>1
        <3>2. PICK f : f = Flow(back[n], InPort(back, n), <<"return", s.host>>, OutPort(back, n))
            OBVIOUS
        <3>3. f \in flows
            BY <1>2, <3>1, <3>2 DEF Back
        <3>4. f.at = back[n] /\ f.in = back[n - 1] /\ f.sel = <<"return", s.host>>
            BY <3>1, <3>2 DEF Flow, InPort
        <3> QED BY <2>1, <3>1, <3>3, <3>4
    <2> QED BY <1>2, <2>2, <2>3, Follows
<1>6. Installed(GateFlow(s)) /\ Installed(Answer(s))
    <2>1. Answer(s) \in flows
        BY <1>2 DEF Back
    <2> QED BY <1>2, <2>1 DEF Installed, SameSelector
<1> QED BY <1>4, <1>5, <1>6 DEF Whole

-----------------------------------------------------------------------------
(***************************************************************************)
(* What the handlers have in their hands, whatever goes wrong: a path from *)
(* the one switch to the other and flows of that path, and what they are   *)
(* to delete is what they took it for.                                     *)
(***************************************************************************)
Quietly == {"idle", "event", "analyse"}

TidyAt(place, j) ==
    /\ place \in Quietly \/ j.event = NoEvent => j.plan = {}
    /\ IF place \in Putting
       THEN Proper(j.who, j.path) /\ j.todo \subseteq PathFlows(j.who, j.path)
       ELSE j.path = NoPath
    /\ place = "record" => \A f \in j.todo : ~IsShared(f)
    /\ place = "clearing" => \A f \in j.doomed : ~IsShared(f) /\ f.sel[2] = j.who.host
    /\ place \in {"cleaning", "scanning"} => \A f \in j.doomed : f.sel[1] # "gate"

HandlersTidy == \A h \in Handlers : TidyAt(pc[h], job[h])
CachedOwn == \A f \in cached : ~IsShared(f)
RecordsProper == \A s \in Sessions : records[s] = NoPath \/ Proper(s, records[s])
TidyInv == HandlersTidy /\ CachedOwn /\ RecordsProper

LEMMA OneTidies ==
    ASSUME HandlersTyped, HandlersTidy, NEW h \in Handlers, NEW place, NEW j, TidyAt(place, j),
           pc' = [pc EXCEPT ![h] = place], job' = [job EXCEPT ![h] = j]
    PROVE  HandlersTidy'
<1>1. /\ pc'[h] = place /\ job'[h] = j
      /\ \A k \in Handlers : k # h => pc'[k] = pc[k] /\ job'[k] = job[k]
    BY DEF HandlersTyped
<1>2. \A k \in Handlers : TidyAt(pc'[k], job'[k])
    BY <1>1 DEF HandlersTidy
<1> QED BY <1>2 DEF HandlersTidy

LEMMA NobodyTidies ==
    ASSUME TidyInv
    PROVE  /\ UNCHANGED <<pc, job>> => HandlersTidy'
           /\ UNCHANGED cached => CachedOwn'
           /\ UNCHANGED records => RecordsProper'
BY DEF TidyInv, HandlersTidy, CachedOwn, RecordsProper

LEMMA IdleTidy == TidyAt("idle", Idle)
BY DEF TidyAt, Idle, Quietly, Putting

LEMMA FinishTidy ==
    ASSUME HandlersTyped, HandlersTidy, NEW h \in Handlers, Finish(h)
    PROVE  HandlersTidy'
BY IdleTidy, OneTidies DEF Finish, GoTo

LEMMA LeaveTidy ==
    ASSUME HandlersTyped, HandlersTidy, NEW h \in Handlers, Leave(h)
    PROVE  HandlersTidy'
<1>1. CASE job[h].event = NoEvent
    BY <1>1, FinishTidy DEF Leave
<1>2. CASE job[h].event # NoEvent
    <2>1. PICK j : j = [Idle EXCEPT !.event = job[h].event, !.plan = job[h].plan]
        OBVIOUS
    <2>2. j.event = job[h].event /\ j.path = NoPath
        BY <2>1 DEF Idle
    <2>3. TidyAt("plan", j)
        BY <1>2, <2>2 DEF TidyAt, Quietly, Putting
    <2>4. pc' = [pc EXCEPT ![h] = "plan"] /\ job' = [job EXCEPT ![h] = j]
        BY <1>2, <2>1 DEF Leave, GoTo
    <2> QED BY <2>3, <2>4, OneTidies
<1> QED BY <1>1, <1>2

\* A handler takes up work, or goes to another place with what it has.
LEMMA GoTidy ==
    ASSUME HandlersTyped, HandlersTidy, NEW h \in Handlers, NEW place, GoTo(h, place),
           UNCHANGED job, TidyAt(place, job[h])
    PROVE  HandlersTidy'
<1>1. job' = [job EXCEPT ![h] = job[h]]
    BY DEF HandlersTyped
<1> QED BY <1>1, OneTidies DEF GoTo

LEMMA TakesTidy ==
    ASSUME HandlersTyped, TidyInv, NEW h \in Handlers,
           Post(h) \/ \E s \in Sessions : PacketIn(h, s)
    PROVE  TidyInv'
<1>1. UNCHANGED <<cached, records>>
    BY DEF Post, PacketIn, dictionaries
<1>2. CASE Post(h)
    <2>1. PICK j : j = [Idle EXCEPT !.event = Head(queue)]
        OBVIOUS
    <2>2. j.plan = {} /\ j.path = NoPath
        BY <2>1 DEF Idle
    <2>3. TidyAt("event", j)
        BY <2>2 DEF TidyAt, Putting
    <2>4. pc' = [pc EXCEPT ![h] = "event"] /\ job' = [job EXCEPT ![h] = j]
        BY <1>2, <2>1 DEF Post, GoTo
    <2> QED BY <1>1, <2>3, <2>4, OneTidies, NobodyTidies DEF TidyInv
<1>3. ASSUME NEW s \in Sessions, PacketIn(h, s)
      PROVE  TidyInv'
    <2>1. PICK j : j = [Idle EXCEPT !.who = s]
        OBVIOUS
    <2>2. j.plan = {} /\ j.path = NoPath
        BY <2>1 DEF Idle
    <2>3. TidyAt("gate", j)
        BY <2>2 DEF TidyAt, Putting
    <2>4. pc' = [pc EXCEPT ![h] = "gate"] /\ job' = [job EXCEPT ![h] = j]
        BY <1>3, <2>1 DEF PacketIn, GoTo
    <2> QED BY <1>1, <2>3, <2>4, OneTidies, NobodyTidies DEF TidyInv
<1> QED BY <1>2, <1>3

LEMMA RouteTidy ==
    ASSUME Typed, TidyInv, NEW h \in Handlers,
           InstallGate(h) \/ Route(h) \/ NoRoute(h) \/ RouteFails(h)
    PROVE  TidyInv'
<1>1. job[h].who \in Sessions /\ HandlersTyped /\ TidyAt(pc[h], job[h])
    BY DEF Typed, HandlersTyped, Jobs, TidyInv, HandlersTidy
<1>2. CASE InstallGate(h)
    <2>1. /\ pc[h] = "gate" /\ GoTo(h, "route") /\ UNCHANGED <<job, records>>
          /\ cached' = cached \cup {GateFlow(job[h].who)}
        BY <1>2 DEF InstallGate
    <2>2. TidyAt("route", job[h])
        BY <1>1, <2>1 DEF TidyAt, Putting, Quietly
    <2>3. ~IsShared(GateFlow(job[h].who))
        BY DEF IsShared, GateFlow, Flow
    <2>4. CachedOwn'
        BY <2>1, <2>3 DEF TidyInv, CachedOwn
    <2> QED BY <1>1, <2>1, <2>2, <2>4, GoTidy, NobodyTidies DEF TidyInv
<1>3. CASE Route(h)
    <2>1. PICK s, there, back :
             /\ s = job[h].who /\ there = Path(Listed, s.entry, s.exit)
             /\ back = Path(Listed, s.exit, s.entry) /\ there # <<>> /\ back # <<>>
             /\ job' = [job EXCEPT ![h].path = [there |-> there, back |-> back],
                                   ![h].todo = There(s, there) \cup Back(s, back)]
             /\ pc[h] = "route" /\ GoTo(h, "put") /\ UNCHANGED <<cached, records>>
        BY <1>3 DEF Route, dictionaries
    <2>2. s.entry \in Switches /\ s.exit \in Switches /\ s.entry # s.exit
        BY <1>1, <2>1, FailoverConstants DEF FailoverConstants
    <2>3. /\ there \in Seq(Switches) /\ Best(Listed, s.entry, s.exit, there)
          /\ back \in Seq(Switches) /\ Best(Listed, s.exit, s.entry, back)
        BY <2>1, <2>2, PathIsBest
    <2>4. Leads(there, s.entry, s.exit) /\ Leads(back, s.exit, s.entry)
        BY <2>1, <2>2, <2>3, BestLeads
    <2>5. PICK p : p = [there |-> there, back |-> back]
        OBVIOUS
    <2>6. Proper(s, p) /\ p # NoPath
        <3>1. p # NoPath
            BY <2>1, <2>5 DEF NoPath
        <3> QED BY <2>3, <2>4, <2>5, <3>1 DEF Proper, Paths
    <2>7. PICK j : j = [job[h] EXCEPT !.path = p, !.todo = There(s, there) \cup Back(s, back)]
        OBVIOUS
    <2>8. /\ j.path = p /\ j.who = s /\ j.todo = There(s, there) \cup Back(s, back)
          /\ j.event = job[h].event /\ j.plan = job[h].plan
        BY <1>1, <2>1, <2>7 DEF Typed, HandlersTyped, Jobs
    <2>9. j.todo = PathFlows(j.who, j.path)
        BY <2>5, <2>6, <2>8 DEF PathFlows
    <2>10. TidyAt("put", j)
        BY <1>1, <2>1, <2>6, <2>8, <2>9 DEF TidyAt, Putting, Quietly
    <2>11. job' = [job EXCEPT ![h] = j] /\ pc' = [pc EXCEPT ![h] = "put"]
        BY <2>1, <2>5, <2>7 DEF GoTo
    <2> QED BY <1>1, <2>1, <2>10, <2>11, OneTidies, NobodyTidies DEF TidyInv
<1>4. CASE NoRoute(h) \/ RouteFails(h)
    <2>1. Leave(h) /\ UNCHANGED <<cached, records>>
        BY <1>4 DEF NoRoute, RouteFails, dictionaries
    <2> QED BY <1>1, <2>1, LeaveTidy, NobodyTidies DEF TidyInv
<1> QED BY <1>2, <1>3, <1>4

\* A flow is done with.
LEMMA DoneTidy ==
    ASSUME HandlersTyped, HandlersTidy, NEW h \in Handlers, NEW F, Done(h, F),
           pc[h] \in Putting \ {"record"}, GoTo(h, "put")
    PROVE  HandlersTidy'
<1>1. PICK j : j = [job[h] EXCEPT !.todo = @ \ F]
    OBVIOUS
<1>2. /\ j.todo = job[h].todo \ F /\ j.path = job[h].path /\ j.who = job[h].who
      /\ j.event = job[h].event /\ j.plan = job[h].plan
    BY <1>1 DEF HandlersTyped, Jobs
<1>3. TidyAt(pc[h], job[h])
    BY DEF HandlersTidy
<1>4. TidyAt("put", j)
    BY <1>2, <1>3 DEF TidyAt, Putting, Quietly
<1>5. job' = [job EXCEPT ![h] = j]
    BY <1>1 DEF Done
<1> QED BY <1>4, <1>5, OneTidies DEF GoTo

LEMMA PutTidy ==
    ASSUME Typed, KInv, TidyInv, NEW h \in Handlers,
           \/ Reuse(h) \/ Stale(h) \/ Drop(h) \/ Miss(h) \/ Install(h) \/ InstallFails(h)
           \/ Note(h) \/ InstallOwn(h) \/ OwnFails(h) \/ Record(h)
    PROVE  TidyInv'
<1>1. HandlersTyped /\ TidyAt(pc[h], job[h]) /\ HandlersTidy /\ job[h].who \in Sessions
    BY DEF Typed, HandlersTyped, Jobs, TidyInv, HandlersTidy
<1>2. CASE Reuse(h) \/ InstallFails(h) \/ Note(h) \/ OwnFails(h)
    <2>1. UNCHANGED <<cached, records>>
        BY <1>2 DEF Reuse, InstallFails, Note, OwnFails, dictionaries
    <2>2. \E F : Done(h, F)
        BY <1>2 DEF Reuse, InstallFails, Note, OwnFails
    <2>3. pc[h] \in {"put", "install", "note"} /\ GoTo(h, "put")
        BY <1>1, <1>2, Stays DEF Reuse, InstallFails, Note, OwnFails
    <2> QED BY <1>1, <2>1, <2>2, <2>3, DoneTidy, NobodyTidies DEF TidyInv, Putting
<1>3. CASE Stale(h) \/ Drop(h) \/ Miss(h) \/ Install(h)
    <2>1. UNCHANGED <<cached, records, job>>
        BY <1>3 DEF Stale, Drop, Miss, Install, dictionaries
    <2>2. PICK place \in {"drop", "install", "note"} : GoTo(h, place)
        BY <1>3 DEF Stale, Drop, Miss, Install
    <2>3. pc[h] \in {"put", "drop", "install"}
        BY <1>3 DEF Stale, Drop, Miss, Install
    <2>4. TidyAt(place, job[h])
        BY <1>1, <2>2, <2>3 DEF TidyAt, Putting, Quietly
    <2> QED BY <1>1, <2>1, <2>2, <2>4, GoTidy, NobodyTidies DEF TidyInv
<1>4. CASE InstallOwn(h)
    <2>1. /\ pc[h] = "put" /\ Common(h) = {} /\ GoTo(h, "record")
          /\ UNCHANGED <<cached, records, job>>
        BY <1>4 DEF InstallOwn, dictionaries
    <2>2. TidyAt("record", job[h])
        BY <1>1, <2>1 DEF TidyAt, Putting, Quietly, Common
    <2> QED BY <1>1, <2>1, <2>2, GoTidy, NobodyTidies DEF TidyInv
<1>5. CASE Record(h)
    <2>1. /\ pc[h] = "record" /\ cached' = cached \cup job[h].todo /\ Leave(h)
          /\ records' = [records EXCEPT ![job[h].who] = job[h].path]
        BY <1>5 DEF Record
    <2>2. Proper(job[h].who, job[h].path) /\ \A f \in job[h].todo : ~IsShared(f)
        BY <1>1, <2>1 DEF TidyAt, Putting
    <2>3. CachedOwn' /\ RecordsProper'
        BY <1>1, <2>1, <2>2 DEF TidyInv, CachedOwn, RecordsProper, Typed, DictionariesTyped
    <2> QED BY <1>1, <2>1, <2>3, LeaveTidy DEF TidyInv
<1> QED BY <1>2, <1>3, <1>4, <1>5

\* NoEvent fails nothing.
LEMMA NothingFails == \A path : ~Touches(path, NoEvent)
<1>1. Ends({}) = {}
    BY DEF Ends
<1>2. \A path : ~UsesFailure(path, {}, {})
    BY <1>1 DEF UsesFailure
<1> QED BY <1>2 DEF Touches, NoEvent

LEMMA EventTidy ==
    ASSUME Typed, TidyInv, NEW h \in Handlers,
           DuplicateEvent(h) \/ MarkEvent(h) \/ Analyse(h) \/ AnalysisFails(h) \/ Planned(h)
    PROVE  TidyInv'
<1>1. HandlersTyped /\ TidyAt(pc[h], job[h]) /\ HandlersTidy
    BY DEF Typed, TidyInv, HandlersTidy
<1>2. UNCHANGED <<cached, records>>
    BY DEF DuplicateEvent, MarkEvent, Analyse, AnalysisFails, Planned, dictionaries
<1>3. CASE Finish(h)
    BY <1>1, <1>2, <1>3, FinishTidy, NobodyTidies DEF TidyInv
<1>4. CASE MarkEvent(h)
    <2>1. pc[h] = "event" /\ GoTo(h, "analyse") /\ UNCHANGED job
        BY <1>4 DEF MarkEvent
    <2>2. TidyAt("analyse", job[h])
        BY <1>1, <2>1 DEF TidyAt, Putting, Quietly
    <2> QED BY <1>1, <1>2, <2>1, <2>2, GoTidy, NobodyTidies DEF TidyInv
<1>5. CASE Analyse(h) /\ ~Finish(h)
    <2>1. PICK plan \in SUBSET {s \in Sessions : Touches(Current(s), job[h].event)} :
             /\ plan # {} /\ GoTo(h, "cleanup") /\ pc[h] = "analyse"
             /\ job' = [job EXCEPT ![h].plan = plan]
        BY <1>5 DEF Analyse
    <2>2. job[h].event # NoEvent
        BY <2>1, NothingFails
    <2>3. PICK j : j = [job[h] EXCEPT !.plan = plan]
        OBVIOUS
    <2>4. j.event = job[h].event /\ j.path = job[h].path
        BY <1>1, <2>3 DEF HandlersTyped, Jobs
    <2>5. TidyAt("cleanup", j)
        BY <1>1, <2>1, <2>2, <2>4 DEF TidyAt, Putting, Quietly
    <2>6. job' = [job EXCEPT ![h] = j]
        BY <2>1, <2>3
    <2> QED BY <1>1, <1>2, <2>1, <2>5, <2>6, OneTidies, NobodyTidies DEF TidyInv, GoTo
<1> QED BY <1>3, <1>4, <1>5 DEF DuplicateEvent, AnalysisFails, Planned

LEMMA CleanTidy ==
    ASSUME Typed, TidyInv, NEW h \in Handlers,
           Cleanup(h) \/ Scan(h) \/ Delete(h) \/ DeleteFails(h) \/ Skip(h) \/ Plan(h)
    PROVE  TidyInv'
<1>1. HandlersTyped /\ TidyAt(pc[h], job[h]) /\ HandlersTidy /\ job[h] \in Jobs
    BY DEF Typed, TidyInv, HandlersTidy, HandlersTyped
<1>2. ASSUME NEW D, NEW place, job' = [job EXCEPT ![h].doomed = D], GoTo(h, place),
             UNCHANGED <<cached, records>>, place \notin Putting \cup Quietly,
             pc[h] \notin Putting,
             place \in {"cleaning", "scanning"} => \A f \in D : f.sel[1] # "gate",
             place = "clearing" => \A f \in D : ~IsShared(f) /\ f.sel[2] = job[h].who.host
      PROVE  TidyInv'
    <2>1. PICK j : j = [job[h] EXCEPT !.doomed = D]
        OBVIOUS
    <2>2. /\ j.event = job[h].event /\ j.plan = job[h].plan /\ j.path = job[h].path
          /\ j.doomed = D /\ j.who = job[h].who
        BY <1>1, <2>1 DEF Jobs
    <2>3. TidyAt(place, j)
        BY <1>1, <1>2, <2>2 DEF TidyAt, Putting
    <2>4. job' = [job EXCEPT ![h] = j] /\ pc' = [pc EXCEPT ![h] = place]
        BY <1>2, <2>1 DEF GoTo
    <2> QED BY <1>1, <1>2, <2>3, <2>4, OneTidies, NobodyTidies DEF TidyInv
<1>3. CASE Cleanup(h)
    <2>1. PICK D : /\ D = {f \in KeysHit(job[h].event) : f.at \notin job[h].event.devices}
                   /\ job' = [job EXCEPT ![h].doomed = D] /\ GoTo(h, "cleaning")
                   /\ UNCHANGED <<cached, records>> /\ pc[h] = "cleanup"
        BY <1>3 DEF Cleanup
    <2>2. \A f \in D : f.sel[1] # "gate"
        BY <2>1 DEF KeysHit, Typed, DictionariesTyped, IsShared
    <2> QED BY <1>2, <2>1, <2>2 DEF Putting, Quietly
<1>4. CASE Scan(h)
    <2>1. PICK D : /\ D = {f \in flows : /\ f.sel[1] # "gate" /\ UsesEnd(f, job[h].event)
                                         /\ f.at \notin job[h].event.devices}
                   /\ job' = [job EXCEPT ![h].doomed = D] /\ GoTo(h, "scanning")
                   /\ UNCHANGED <<cached, records>> /\ pc[h] = "scan"
        BY <1>4 DEF Scan, dictionaries
    <2> QED BY <1>2, <2>1 DEF Putting, Quietly
<1>5. CASE Delete(h)
    <2>1. /\ job' = [job EXCEPT ![h].doomed = {}] /\ GoTo(h, AfterDeletes[pc[h]])
          /\ UNCHANGED <<cached, records>> /\ pc[h] \in {"cleaning", "scanning", "clearing"}
          /\ AfterDeletes[pc[h]] \in {"scan", "plan", "gate"}
        BY <1>5 DEF Delete, AfterDeletes, dictionaries
    <2> QED BY <1>2, <2>1 DEF Putting, Quietly
<1>6. CASE DeleteFails(h)
    <2>1. PICK f : job' = [job EXCEPT ![h].doomed = @ \ {f}]
        BY <1>6 DEF DeleteFails
    <2>2. pc[h] \in {"cleaning", "scanning", "clearing"} /\ UNCHANGED <<cached, records>>
          /\ GoTo(h, pc[h])
        BY <1>1, <1>6, Stays DEF DeleteFails, AfterDeletes, dictionaries
    <2>3. job' = [job EXCEPT ![h].doomed = job[h].doomed \ {f}]
        BY <2>1
    <2> QED BY <1>1, <1>2, <2>2, <2>3 DEF Putting, Quietly, TidyAt
<1>7. CASE Skip(h)
    <2>1. PICK s : /\ job' = [job EXCEPT ![h].plan = @ \ {s}]
                   /\ pc[h] = "plan" /\ UNCHANGED <<pc, cached, records>>
        BY <1>7 DEF Skip, dictionaries
    <2>2. PICK j : j = [job[h] EXCEPT !.plan = @ \ {s}]
        OBVIOUS
    <2>3. j.event = job[h].event /\ j.plan = job[h].plan \ {s} /\ j.path = job[h].path
        BY <1>1, <2>2 DEF Jobs
    <2>4. TidyAt("plan", j)
        BY <1>1, <2>1, <2>3 DEF TidyAt, Putting, Quietly
    <2>5. job' = [job EXCEPT ![h] = j] /\ pc' = [pc EXCEPT ![h] = "plan"]
        BY <1>1, <2>1, <2>2 DEF HandlersTyped
    <2> QED BY <1>1, <2>1, <2>4, <2>5, OneTidies, NobodyTidies DEF TidyInv
<1>8. CASE Plan(h)
    <2>s. PICK s \in job[h].plan : \E planned :
             /\ cached' = {f \in cached : s \notin Owners(f)}
             /\ records' = [records EXCEPT ![s] = NoPath]
             /\ job' = [job EXCEPT ![h].plan = @ \ {s}, ![h].who = s, ![h].doomed = Known(s),
                                   ![h].planned = planned]
        BY <1>8 DEF Plan
    <2>1. PICK planned :
             /\ cached' = {f \in cached : s \notin Owners(f)}
             /\ records' = [records EXCEPT ![s] = NoPath]
             /\ job' = [job EXCEPT ![h].plan = @ \ {s}, ![h].who = s, ![h].doomed = Known(s),
                                   ![h].planned = planned]
        BY <2>s
    <2>2. PICK j : j = [job[h] EXCEPT !.plan = @ \ {s}, !.who = s, !.doomed = Known(s),
                                      !.planned = planned]
        OBVIOUS
    <2>3. /\ j.event = job[h].event /\ j.path = job[h].path /\ j.who = s
          /\ j.doomed = Known(s)
        BY <1>1, <2>2 DEF Jobs
    <2>4. pc[h] = "plan" /\ pc' = [pc EXCEPT ![h] = "clearing"] /\ job' = [job EXCEPT ![h] = j]
        <3>1. pc[h] = "plan" /\ pc' = [pc EXCEPT ![h] = "clearing"]
            BY <1>8 DEF Plan, GoTo
        <3>2. job' = [job EXCEPT ![h] = j]
            BY <2>1, <2>2
        <3> QED BY <3>1, <3>2
    <2>5. \A f \in Known(s) : ~IsShared(f) /\ f.sel[2] = s.host
        BY DEF Known, TidyInv, CachedOwn, Owners
    <2>6. TidyAt("clearing", j)
        BY <1>1, <2>3, <2>4, <2>5 DEF TidyAt, Putting, Quietly
    <2>7. CachedOwn' /\ RecordsProper'
        BY <2>1 DEF TidyInv, CachedOwn, RecordsProper, Typed, DictionariesTyped
    <2> QED BY <1>1, <2>4, <2>6, <2>7, OneTidies DEF TidyInv
<1> QED BY <1>3, <1>4, <1>5, <1>6, <1>7, <1>8

LEMMA InitTidy == Init => TidyInv
<1> SUFFICES ASSUME Init PROVE TidyInv
    OBVIOUS
<1>1. /\ pc = [h \in Handlers |-> "idle"] /\ job = [h \in Handlers |-> Idle]
      /\ cached = {} /\ records = [s \in Sessions |-> NoPath]
    BY DEF Init
<1> QED BY <1>1, IdleTidy DEF TidyInv, HandlersTidy, CachedOwn, RecordsProper

LEMMA RestartTidy ==
    ASSUME TidyInv, Restart
    PROVE  TidyInv'
<1>1. HandlersTidy'
    BY IdleTidy DEF Restart, HandlersTidy
<1>2. CachedOwn'
    BY DEF Restart, CachedOwn, IsShared
<1>3. RecordsProper'
    BY DEF Restart, RecordsProper
<1> QED BY <1>1, <1>2, <1>3 DEF TidyInv

LEMMA NextTidy == Typed /\ KInv /\ TidyInv /\ [Next]_vars => TidyInv'
<1> SUFFICES ASSUME Typed, KInv, TidyInv, [Next]_vars PROVE TidyInv'
    OBVIOUS
<1>1. CASE UNCHANGED <<pc, job, cached, records>>
    BY <1>1, NobodyTidies DEF TidyInv
<1>2. CASE UNCHANGED vars
    BY <1>1, <1>2 DEF vars, dictionaries
<1>3. CASE \/ \E l \in Wires \cap Frail : LinkFails(l) \/ LinkReturns(l)
           \/ \E d \in Switches \cap Frail : DeviceFails(d) \/ DeviceReturns(d)
           \/ PostFails \/ PostTimesOut \/ Expire
           \/ \E s \in Sessions : DuplicatePacketIn(s) \/ Deferred(s) \/ Tick(s)
    BY <1>1, <1>3 DEF LinkFails, LinkReturns, DeviceFails, DeviceReturns, PostFails,
       PostTimesOut, Expire, DuplicatePacketIn, Deferred, Tick, dictionaries
<1>4. ASSUME NEW h \in Handlers, Post(h) \/ \E s \in Sessions : PacketIn(h, s)
      PROVE  TidyInv'
    BY <1>4, TakesTidy DEF Typed
<1>5. ASSUME NEW h \in Handlers, M6Step(h) \/ M6Fault(h) PROVE TidyInv'
    BY <1>5, RouteTidy, PutTidy, EventTidy, CleanTidy DEF M6Step, M6Fault
<1> QED BY <1>2, <1>3, <1>4, <1>5, RestartTidy DEF Next

-----------------------------------------------------------------------------
(***************************************************************************)
(* Nobody is forgotten.  A handler that installs a path for a session has  *)
(* all of it in ONOS or in its hands, unless the session is excused; and a *)
(* session that a path was installed for has its path in ONOS as recorded, *)
(* or somebody is about to see to it.                                      *)
(***************************************************************************)
Opening == {"clearing", "gate"}
Going == Opening \cup {"route", "put", "drop", "install", "note"}

\* A handler is at work for the session.
Under(s, places) == \E k \in Handlers : pc[k] \in places /\ job[k].who = s

OwnOf(F) == {f \in F : ~IsShared(f)}
GateStands(s) == GateFlow(s) \in flows \/ Under(s, Opening)
OwnStand(s, p) == OwnOf(PathFlows(s, p)) \subseteq flows \/ Under(s, Going)
SharedStand(h) ==
    \A f \in PathFlows(job[h].who, job[h].path) :
       IsShared(f) => f \in flows \/ (f \in job[h].todo /\ (pc[h] = "note" => f # Item(h)))

Claim(h) ==
    job[h].who \notin excused =>
       /\ pc[h] \in Putting \cup {"route"} => GateStands(job[h].who)
       /\ pc[h] \in Putting => Carrying(job[h].path) /\ SharedStand(h)
       /\ pc[h] \in Putting \ {"record"} =>
             OwnOf(PathFlows(job[h].who, job[h].path)) \subseteq job[h].todo
       /\ pc[h] = "record" => OwnStand(job[h].who, job[h].path)

\* An event on its way to the analysis has the session's path in it.
Warned(s) ==
    \/ \E i \in 1..Len(queue) : Touches(records[s], queue[i])
    \/ \E h \in Handlers : pc[h] \in {"event", "analyse"} /\ Touches(records[s], job[h].event)
ToRecover(s) == \E h \in Handlers : s \in job[h].plan
Minded(s) == Firm(s) \/ Warned(s) \/ ToRecover(s) \/ Under(s, Going \cup {"record"})
Cared(s) == s \in promised \ excused => Minded(s)

Claims == \A h \in Handlers : Claim(h)
Cares == \A s \in Sessions : Cared(s)
WayInv == Typed /\ KInv /\ TidyInv /\ Claims /\ Cares

-----------------------------------------------------------------------------
\* What a step leaves alone.
OthersRest(h) == \A k \in Handlers \ {h} : pc'[k] = pc[k] /\ job'[k] = job[k]
Spares(s, p) ==
    /\ \A f \in PathFlows(s, p) : f \in flows => f \in flows'
    /\ GateFlow(s) \in flows => GateFlow(s) \in flows'
Attends(h, s) ==
    job[h].who = s =>
       /\ pc[h] \in Going => pc'[h] \in Going /\ job'[h].who = s
       /\ pc[h] \in Opening =>
             (pc'[h] \in Opening /\ job'[h].who = s) \/ GateFlow(s) \in flows'

LEMMA SameCarrying ==
    ASSUME UNCHANGED <<link, away>>
    PROVE  \A p : Carrying(p) <=> Carrying(p)'
BY DEF Carrying, Blind, Carries, Active

LEMMA StandsOn ==
    ASSUME NEW h \in Handlers, OthersRest(h), NEW s, NEW p, Spares(s, p), Attends(h, s)
    PROVE  (GateStands(s) => GateStands(s)') /\ (OwnStand(s, p) => OwnStand(s, p)')
<1>1. Under(s, Opening) => Under(s, Opening)' \/ GateFlow(s) \in flows'
    BY DEF OthersRest, Attends, Under
<1>2. Under(s, Going) => Under(s, Going)'
    BY DEF OthersRest, Attends, Under
<1>3. OwnOf(PathFlows(s, p)) \subseteq flows => OwnOf(PathFlows(s, p)) \subseteq flows'
    BY DEF Spares, OwnOf
<1> QED BY <1>1, <1>2, <1>3 DEF GateStands, OwnStand, Spares

\* A handler that rests keeps its claim.
LEMMA RestsClaim ==
    ASSUME NEW k \in Handlers, Claim(k), pc'[k] = pc[k], job'[k] = job[k],
           excused \subseteq excused', NEW s, NEW p, s = job[k].who, p = job[k].path,
           \/ s \in excused'
           \/ /\ Carrying(p) => Carrying(p)'
              /\ \A f \in PathFlows(s, p) : IsShared(f) /\ f \in flows => f \in flows'
              /\ GateStands(s) => GateStands(s)'
              /\ pc[k] = "record" /\ OwnStand(s, p) => OwnStand(s, p)'
    PROVE  Claim(k)'
<1> SUFFICES ASSUME s \notin excused'
             PROVE  Claim(k)'
    BY DEF Claim
<1>1. Item(k)' = Item(k)
    BY DEF Item, Common
<1>2. pc[k] \in Putting => SharedStand(k)'
    BY <1>1 DEF Claim, SharedStand
<1>3. s \notin excused
    OBVIOUS
<1>4. pc[k] \in Putting \cup {"route"} => GateStands(s)'
    BY <1>3 DEF Claim
<1>5. pc[k] \in Putting => Carrying(p)'
    BY <1>3 DEF Claim
<1>6. pc[k] = "record" => OwnStand(s, p)'
    BY <1>3 DEF Claim
<1>7. pc[k] \in Putting \ {"record"} => OwnOf(PathFlows(s, p)) \subseteq job[k].todo
    BY <1>3 DEF Claim
<1>8. GateStands(job[k].who)' = GateStands(s)' /\ Carrying(job[k].path)' = Carrying(p)'
      /\ OwnStand(job[k].who, job[k].path)' = OwnStand(s, p)'
    BY DEF GateStands, Carrying, OwnStand, Under
<1> QED BY <1>2, <1>4, <1>5, <1>6, <1>7, <1>8 DEF Claim

LEMMA OthersClaim ==
    ASSUME Claims, NEW h \in Handlers, OthersRest(h), UNCHANGED <<link, away>>,
           excused \subseteq excused',
           \A k \in Handlers \ {h} :
              \/ job[k].who \in excused'
              \/ Spares(job[k].who, job[k].path) /\ Attends(h, job[k].who)
    PROVE  \A k \in Handlers \ {h} : Claim(k)'
<1> SUFFICES ASSUME NEW k \in Handlers \ {h}
             PROVE  Claim(k)'
    OBVIOUS
<1>1. PICK s, p : s = job[k].who /\ p = job[k].path
    OBVIOUS
<1>2. Claim(k) /\ pc'[k] = pc[k] /\ job'[k] = job[k]
    BY DEF Claims, OthersRest
<1>3. CASE s \in excused'
    BY <1>1, <1>2, <1>3, RestsClaim
<1>4. CASE Spares(s, p) /\ Attends(h, s)
    <2>1. (GateStands(s) => GateStands(s)') /\ (OwnStand(s, p) => OwnStand(s, p)')
        BY <1>4, StandsOn
    <2>2. Carrying(p) => Carrying(p)'
        BY SameCarrying
    <2>3. \A f \in PathFlows(s, p) : IsShared(f) /\ f \in flows => f \in flows'
        BY <1>4 DEF Spares
    <2> QED BY <1>1, <1>2, <2>1, <2>2, <2>3, RestsClaim
<1> QED BY <1>1, <1>3, <1>4

\* A session stays minded.
LEMMA FirmStays ==
    ASSUME NEW s, Firm(s), UNCHANGED <<link, away>>, records'[s] = records[s],
           Spares(s, records[s])
    PROVE  Firm(s)'
<1>1. PICK p : p = records[s]
    OBVIOUS
<1>2. Carrying(p)'
    BY <1>1, SameCarrying DEF Firm
<1>3. Carrying(records[s])'
    BY <1>1, <1>2 DEF Carrying
<1>4. (GateFlow(s) \in flows)' /\ (PathFlows(s, records[s]) \subseteq flows)'
    BY DEF Firm, Spares
<1> QED BY <1>3, <1>4 DEF Firm

LEMMA MindedStays ==
    ASSUME NEW h \in Handlers, OthersRest(h), NEW s \in Sessions, Minded(s),
           UNCHANGED queue, records'[s] = records[s],
           Firm(s) => Minded(s)',
           s \in job[h].plan => Minded(s)',
           job[h].who = s /\ pc[h] \in Going \cup {"record"} => Minded(s)',
           pc[h] \in {"event", "analyse"} /\ Touches(records[s], job[h].event) => Minded(s)'
    PROVE  Minded(s)'
<1>1. CASE ToRecover(s)
    BY <1>1 DEF ToRecover, OthersRest, Minded
<1>2. CASE Under(s, Going \cup {"record"})
    BY <1>2 DEF Under, OthersRest, Minded
<1>3. CASE Warned(s)
    <2>1. CASE \E i \in 1..Len(queue) : Touches(records[s], queue[i])
        <3>1. Warned(s)'
            BY <2>1 DEF Warned
        <3> QED BY <3>1 DEF Minded
    <2>2. ASSUME NEW k \in Handlers, pc[k] \in {"event", "analyse"},
                 Touches(records[s], job[k].event)
          PROVE  Minded(s)'
        <3>1. CASE k = h
            BY <2>2, <3>1
        <3>2. CASE k # h
            <4>1. Warned(s)'
                BY <2>2, <3>2 DEF Warned, OthersRest
            <4> QED BY <4>1 DEF Minded
        <3> QED BY <3>1, <3>2
    <2> QED BY <1>3, <2>1, <2>2 DEF Warned
<1> QED BY <1>1, <1>2, <1>3 DEF Minded

LEMMA SessionsCared ==
    ASSUME Cares, NEW h \in Handlers, OthersRest(h), UNCHANGED <<link, away, queue, records, promised>>,
           excused \subseteq excused',
           \A s \in Sessions \ excused' :
              /\ Firm(s) => Spares(s, records[s]) \/ Minded(s)'
              /\ s \in job[h].plan => s \in job'[h].plan
              /\ job[h].who = s /\ pc[h] \in Going \cup {"record"} =>
                    job'[h].who = s /\ pc'[h] \in Going \cup {"record"}
              /\ pc[h] \in {"event", "analyse"} /\ Touches(records[s], job[h].event) => Minded(s)'
    PROVE  Cares'
<1> SUFFICES ASSUME NEW s \in Sessions, s \in promised, s \notin excused'
             PROVE  Minded(s)'
    BY DEF Cares, Cared
<1>1. Minded(s)
    BY DEF Cares, Cared
<1>2. Firm(s) => Minded(s)'
    BY FirmStays DEF Minded
<1>3. s \in job[h].plan => Minded(s)'
    BY DEF Minded, ToRecover
<1>4. job[h].who = s /\ pc[h] \in Going \cup {"record"} => Minded(s)'
    BY DEF Minded, Under
<1> QED BY <1>1, <1>2, <1>3, <1>4, MindedStays

LEMMA NothingGone ==
    ASSUME flows \subseteq flows'
    PROVE  \A s, p : Spares(s, p)
BY DEF Spares

\* A handler that installs nothing claims nothing.
LEMMA NoClaim ==
    ASSUME NEW h, job'[h].who \in excused' \/ pc'[h] \notin Putting \cup {"route"}
    PROVE  Claim(h)'
BY DEF Claim, Putting

\* Who it excuses, a step that deletes and replaces robs.
LEMMA RobbedOrSpared ==
    ASSUME NEW h \in Handlers, NEW again, Robbed(h, again, flows \ flows') \subseteq excused',
           \A f \in flows \ flows' : f.sel[1] # "gate"
    PROVE  /\ \A k \in Handlers \ {h} :
                 job[k].who \in excused' \/ Spares(job[k].who, job[k].path)
           /\ \A s \in Sessions \ again : s \in excused' \/ Spares(s, records[s])
<1>1. \A s : GateFlow(s).sel[1] = "gate"
    BY KindsOfFlows
<1>2. \A s : GateFlow(s) \in flows => GateFlow(s) \in flows'
    BY <1>1
<1>3. \A s, p : PathFlows(s, p) \cap (flows \ flows') = {} => Spares(s, p)
    BY <1>2 DEF Spares
<1>4. ASSUME NEW k \in Handlers \ {h}, job[k].who \notin excused'
      PROVE  Spares(job[k].who, job[k].path)
    <2>1. PathFlows(job[k].who, job[k].path) \cap (flows \ flows') = {}
        BY <1>4 DEF Robbed
    <2> QED BY <1>3, <2>1
<1>5. ASSUME NEW s \in Sessions \ again, s \notin excused'
      PROVE  Spares(s, records[s])
    <2>1. PathFlows(s, records[s]) \cap (flows \ flows') = {}
        BY <1>5 DEF Robbed
    <2> QED BY <1>3, <2>1
<1> QED BY <1>4, <1>5

-----------------------------------------------------------------------------
(***************************************************************************)
(* The steps of the network, of the application and of the hosts           *)
(***************************************************************************)
\* A path that a handler has, or that was recorded, is none or a proper one.
LEMMA PathsProper ==
    ASSUME TidyInv
    PROVE  /\ \A k \in Handlers : job[k].path = NoPath \/ Proper(job[k].who, job[k].path)
           /\ \A s \in Sessions : records[s] = NoPath \/ Proper(s, records[s])
           /\ \A s : PathFlows(s, NoPath) = {}
BY DEF TidyInv, HandlersTidy, TidyAt, RecordsProper, PathFlows

LEMMA OutsideKeeps ==
    ASSUME Typed, TidyInv, Claims, Cares, UNCHANGED <<pc, job, records, promised>>,
           excused \subseteq excused',
           \A s \in Sessions \ excused' : \A p : p = NoPath \/ Proper(s, p) => Spares(s, p),
           \A k \in Handlers : \A p :
              p = job[k].path /\ Carrying(p) => Carrying(p)' \/ job[k].who \in excused',
           \A s \in Sessions \ excused' :
              /\ \A p : p = records[s] /\ Carrying(p) => Carrying(p)' \/ Warned(s)'
              /\ Warned(s) => Warned(s)'
    PROVE  Claims' /\ Cares'
<1>1. \A s, places : Under(s, places) <=> Under(s, places)'
    BY DEF Under
<1>2. ASSUME NEW k \in Handlers
      PROVE  Claim(k)'
    <2>1. PICK s, p : s = job[k].who /\ p = job[k].path
        OBVIOUS
    <2>2. s \in Sessions /\ (p = NoPath \/ Proper(s, p))
        BY <2>1, PathsProper DEF Typed, HandlersTyped, Jobs
    <2>3. CASE s \in excused'
        BY <2>1, <2>3, RestsClaim DEF Claims
    <2>4. CASE s \notin excused'
        <3>1. Spares(s, p)
            BY <2>2, <2>4
        <3>2. GateStands(s) => GateStands(s)'
            BY <1>1, <3>1 DEF GateStands, Spares
        <3>3. OwnStand(s, p) => OwnStand(s, p)'
            BY <1>1, <3>1 DEF OwnStand, OwnOf, Spares
        <3>4. Carrying(p) => Carrying(p)'
            BY <2>1, <2>4
        <3>5. \A f \in PathFlows(s, p) : IsShared(f) /\ f \in flows => f \in flows'
            BY <3>1 DEF Spares
        <3>6. Claim(k) /\ pc'[k] = pc[k] /\ job'[k] = job[k]
            BY DEF Claims
        <3> QED BY <2>1, <3>2, <3>3, <3>4, <3>5, <3>6, RestsClaim
    <2> QED BY <2>3, <2>4
<1>3. ASSUME NEW s \in Sessions, s \in promised', s \notin excused'
      PROVE  Minded(s)'
    <2>1. Minded(s)
        BY <1>3 DEF Cares, Cared
    <2>2. CASE Firm(s)
        <3>1. PICK p : p = records[s]
            OBVIOUS
        <3>2. Carrying(p) /\ Spares(s, p)
            BY <1>3, <2>2, <3>1, PathsProper DEF Firm
        <3>3. Carrying(p)' \/ Warned(s)'
            BY <1>3, <3>1, <3>2
        <3>4. Carrying(p)' => Carrying(records[s])'
            BY <3>1 DEF Carrying
        <3>5. (GateFlow(s) \in flows /\ PathFlows(s, records[s]) \subseteq flows)'
            BY <2>2, <3>1, <3>2 DEF Firm, Spares
        <3> QED BY <3>3, <3>4, <3>5 DEF Minded, Firm
    <2>3. CASE Warned(s)
        BY <1>3, <2>3 DEF Minded
    <2>4. CASE ToRecover(s)
        BY <2>4 DEF ToRecover, Minded
    <2>5. CASE Under(s, Going \cup {"record"})
        BY <1>1, <2>5 DEF Minded
    <2> QED BY <2>1, <2>2, <2>3, <2>4, <2>5 DEF Minded
<1> QED BY <1>2, <1>3 DEF Claims, Cares, Cared

\* A path that has no failure in it still carries.
LEMMA StillCarries ==
    ASSUME NEW devices, NEW links, NEW path \in Seq(Switches),
           ~Blind(path), ~UsesFailure(path, devices, links),
           \A a, b : Carries(a, b) =>
              Carries(a, b)' \/ <<a, b>> \in links \/ a \in devices \/ b \in devices
    PROVE  ~Blind(path)'
<1> SUFFICES ASSUME NEW i \in 1..Len(path) - 1
             PROVE  Carries(path[i], path[i + 1])'
    BY DEF Blind
<1>1. Len(path) \in Nat /\ i \in 1..Len(path) /\ i + 1 \in 1..Len(path) /\ i # Len(path)
    OBVIOUS
<1>2. PICK a, b : a = path[i] /\ b = path[i + 1]
    OBVIOUS
<1>3. Carries(a, b)
    BY <1>2 DEF Blind
<1>4. a \notin devices /\ b \notin devices
    BY <1>1, <1>2 DEF UsesFailure
<1>5. OutPort(path, i) = b
    BY <1>1, <1>2 DEF OutPort
<1>6. <<a, b>> \notin links
    BY <1>1, <1>2, <1>5 DEF UsesFailure, Ends
<1>7. Carries(a, b)'
    BY <1>3, <1>4, <1>6
<1> QED BY <1>2, <1>7 DEF Carries

LEMMA FailureKeeps ==
    ASSUME Typed, TidyInv, Claims, Cares, NEW e \in Event, Notice(e),
           UNCHANGED <<flows, pc, job, records, promised>>,
           \A a, b : Carries(a, b) =>
              Carries(a, b)' \/ <<a, b>> \in e.links \/ a \in e.devices \/ b \in e.devices
    PROVE  Claims' /\ Cares'
<1>1. \A p \in Paths : Carrying(p) /\ ~Touches(p, e) => Carrying(p)'
    <2> SUFFICES ASSUME NEW p \in Paths, Carrying(p), ~Touches(p, e)
                 PROVE  Carrying(p)'
        OBVIOUS
    <2>1. PICK there, back : there = p.there /\ back = p.back
        OBVIOUS
    <2>2. there \in Seq(Switches) /\ back \in Seq(Switches)
        BY <2>1 DEF Paths
    <2>3. ~Blind(there)' /\ ~Blind(back)'
        <3>1. ~Blind(there) /\ ~UsesFailure(there, e.devices, e.links)
            BY <2>1 DEF Carrying, Touches
        <3>2. ~Blind(back) /\ ~UsesFailure(back, e.devices, e.links)
            BY <2>1 DEF Carrying, Touches
        <3>3. ~Blind(there)'
            BY <2>2, <3>1, StillCarries
        <3>4. ~Blind(back)'
            BY <2>2, <3>2, StillCarries
        <3> QED BY <3>3, <3>4
    <2> QED BY <2>1, <2>3 DEF Carrying
<1>2. excused \subseteq excused' /\ Late(e) \subseteq excused'
    BY DEF Notice, Excuse, Hit
<1>3. ASSUME NEW k \in Handlers, NEW p, p = job[k].path, Carrying(p)
      PROVE  Carrying(p)' \/ job[k].who \in excused'
    <2>1. p \in Paths
        BY <1>3 DEF Typed, HandlersTyped, Jobs
    <2>2. Touches(p, e) => job[k].who \in Late(e)
        BY <1>3 DEF Late
    <2> QED BY <1>1, <1>2, <1>3, <2>1, <2>2
<1>4. queue \in Seq(Event) /\ Append(queue, e) \in Seq(Event)
    BY DEF Typed, ApplicationTyped
<1>5. ASSUME NEW s \in Sessions \ excused', Warned(s)
      PROVE  Warned(s)'
    <2>1. CASE \E i \in 1..Len(queue) : Touches(records[s], queue[i])
        <3>1. PICK i \in 1..Len(queue) : Touches(records[s], queue[i])
            BY <2>1
        <3>2. i \in 1..Len(queue') /\ queue'[i] = queue[i]
            BY <1>4 DEF Notice
        <3> QED BY <3>1, <3>2 DEF Warned
    <2>2. CASE ~\E i \in 1..Len(queue) : Touches(records[s], queue[i])
        BY <1>5, <2>2 DEF Warned
    <2> QED BY <2>1, <2>2
<1>6. ASSUME NEW s \in Sessions \ excused', NEW p, p = records[s], Carrying(p)
      PROVE  Carrying(p)' \/ Warned(s)'
    <2>1. p \in Paths
        BY <1>6 DEF Typed, DictionariesTyped
    <2>2. CASE ~Touches(p, e)
        BY <1>1, <1>6, <2>1, <2>2
    <2>3. CASE Touches(p, e)
        <3>1. s \in Hit(e)
            BY <1>6, <2>3 DEF Hit
        <3>2. queue' = Append(queue, e)
            BY <1>6, <3>1 DEF Notice, Excuse
        <3>3. Len(queue) + 1 \in 1..Len(queue') /\ queue'[Len(queue) + 1] = e
            BY <1>4, <3>2
        <3>4. \E i \in 1..Len(queue') : Touches(records'[s], queue'[i])
            BY <1>6, <2>3, <3>3
        <3> QED BY <3>4 DEF Warned
    <2> QED BY <2>2, <2>3
<1>7. \A s, p : Spares(s, p)
    BY DEF Spares
<1> QED BY <1>2, <1>3, <1>5, <1>6, <1>7, OutsideKeeps

LEMMA NetworkKeeps ==
    ASSUME Typed, TidyInv, Claims, Cares,
           \/ \E l \in Wires \cap Frail : LinkFails(l) \/ LinkReturns(l)
           \/ \E d \in Switches \cap Frail : DeviceFails(d) \/ DeviceReturns(d)
    PROVE  Claims' /\ Cares'
<1>1. Wires \subseteq Links /\ link \in [Links -> {"active", "inactive", "gone"}]
    BY FailoverConstants DEF FailoverConstants, Typed, NetworkTyped
<1>2. ASSUME NEW l \in Wires \cap Frail, LinkFails(l)
      PROVE  Claims' /\ Cares'
    <2>1. PICK e : e = [NoEvent EXCEPT !.links = {l}]
        OBVIOUS
    <2>2. e \in Event /\ e.links = {l} /\ e.devices = {}
        BY <1>1, <2>1 DEF NoEvent, Event
    <2>3. Notice(e) /\ UNCHANGED <<flows, pc, job, records, promised, away>>
        BY <1>2, <2>1 DEF LinkFails, dictionaries
    <2>4. \E state : link' = [link EXCEPT ![l] = state]
        BY <1>2 DEF LinkFails
    <2>5. \A m \in Links : m # l => link'[m] = link[m]
        BY <1>1, <2>4
    <2>6. \A a, b : Carries(a, b) => Carries(a, b)' \/ <<a, b>> \in e.links
        BY <2>2, <2>3, <2>5 DEF Carries, Active
    <2> QED BY <2>2, <2>3, <2>6, FailureKeeps
<1>3. ASSUME NEW d \in Switches \cap Frail, DeviceFails(d)
      PROVE  Claims' /\ Cares'
    <2>1. PICK e : e = [NoEvent EXCEPT !.devices = {d}]
        OBVIOUS
    <2>2. e \in Event /\ e.links = {} /\ e.devices = {d}
        BY <2>1 DEF NoEvent, Event
    <2>3. Notice(e) /\ UNCHANGED <<flows, pc, job, records, promised, link>>
        BY <1>3, <2>1 DEF DeviceFails, dictionaries
    <2>4. away' = away \cup {d}
        BY <1>3 DEF DeviceFails
    <2>5. \A a, b : Carries(a, b) => Carries(a, b)' \/ a \in e.devices \/ b \in e.devices
        BY <2>2, <2>3, <2>4 DEF Carries, Active
    <2> QED BY <2>2, <2>3, <2>5, FailureKeeps
<1>4. ASSUME UNCHANGED <<flows, pc, job, queue, records, promised, excused>>,
             \A a, b : Carries(a, b) => Carries(a, b)'
      PROVE  Claims' /\ Cares'
    <2>1. \A path : ~Blind(path) => ~Blind(path)'
        BY <1>4 DEF Blind
    <2>2. \A p : Carrying(p) => Carrying(p)'
        BY <2>1 DEF Carrying
    <2>3. \A s : Warned(s) => Warned(s)'
        BY <1>4 DEF Warned
    <2>4. \A s, p : Spares(s, p)
        BY <1>4 DEF Spares
    <2> QED BY <1>4, <2>2, <2>3, <2>4, OutsideKeeps
<1>5. ASSUME NEW l \in Wires \cap Frail, LinkReturns(l)
      PROVE  Claims' /\ Cares'
    <2>1. UNCHANGED <<flows, pc, job, queue, records, promised, excused, away>>
        BY <1>5 DEF LinkReturns, dictionaries, application, history
    <2>2. link' = [link EXCEPT ![l] = "active"]
        BY <1>5 DEF LinkReturns
    <2>3. \A m \in Links : link[m] = "active" => link'[m] = "active"
        BY <1>1, <2>2
    <2>4. \A a, b : Carries(a, b) => Carries(a, b)'
        BY <2>1, <2>3 DEF Carries, Active
    <2> QED BY <1>4, <2>1, <2>4
<1>6. ASSUME NEW d \in Switches \cap Frail, DeviceReturns(d)
      PROVE  Claims' /\ Cares'
    <2>1. UNCHANGED <<flows, pc, job, queue, records, promised, excused, link>>
        BY <1>6 DEF DeviceReturns, dictionaries, application, history
    <2>2. away' \subseteq away
        BY <1>6 DEF DeviceReturns
    <2>3. \A a, b : Carries(a, b) => Carries(a, b)'
        BY <2>1, <2>2 DEF Carries, Active
    <2> QED BY <1>4, <2>1, <2>3
<1> QED BY <1>2, <1>3, <1>5, <1>6

LEMMA OthersKeep ==
    ASSUME Typed, TidyInv, Claims, Cares,
           \/ PostFails \/ PostTimesOut \/ Expire
           \/ \E s \in Sessions : DuplicatePacketIn(s) \/ Deferred(s) \/ Tick(s)
    PROVE  Claims' /\ Cares'
<1>1. /\ UNCHANGED <<pc, job, records, promised, link, away>>
      /\ excused \subseteq excused'
    BY DEF PostFails, PostTimesOut, Expire, DuplicatePacketIn, Deferred, Tick, dictionaries,
       history, network, Fault
<1>2. \A p : Carrying(p) => Carrying(p)'
    BY <1>1, SameCarrying
<1>3. CASE PostTimesOut \/ \E s \in Sessions : DuplicatePacketIn(s) \/ Deferred(s) \/ Tick(s)
    <2>1. UNCHANGED <<queue, flows>>
        BY <1>3 DEF PostTimesOut, DuplicatePacketIn, Deferred, Tick, application
    <2>2. \A s : Warned(s) => Warned(s)'
        BY <1>1, <2>1 DEF Warned
    <2>3. \A s, p : Spares(s, p)
        BY <2>1 DEF Spares
    <2> QED BY <1>1, <1>2, <2>2, <2>3, OutsideKeeps
<1>4. CASE Expire
    <2>1. PICK f \in flows : flows' = flows \ {f} /\ Owners(f) \subseteq excused'
        BY <1>4 DEF Expire, Fault
    <2>2. queue' = queue
        BY <1>4 DEF Expire, application
    <2>3. \A s : Warned(s) => Warned(s)'
        BY <1>1, <2>2 DEF Warned
    <2>4. ASSUME NEW s \in Sessions \ excused', NEW p, p = NoPath \/ Proper(s, p)
          PROVE  Spares(s, p)
        <3>1. ~IsShared(f) /\ f.sel[2] # s.host
            BY <2>1, <2>4 DEF Owners
        <3>2. GateFlow(s) # f
            BY <3>1 DEF GateFlow, Flow
        <3>3. \A g \in PathFlows(s, p) : g # f
            BY <2>4, <3>1, FlowsKinds DEF PathFlows
        <3> QED BY <2>1, <3>2, <3>3 DEF Spares
    <2> QED BY <1>1, <1>2, <2>3, <2>4, OutsideKeeps
<1>5. CASE PostFails
    <2>1. /\ queue # <<>> /\ queue' = Tail(queue) /\ Hit(Head(queue)) \subseteq excused'
          /\ UNCHANGED flows
        BY <1>5 DEF PostFails, Fault
    <2>2. queue \in Seq(Event)
        BY DEF Typed, ApplicationTyped
    <2>3. ASSUME NEW s \in Sessions \ excused', Warned(s)
          PROVE  Warned(s)'
        <3>1. CASE \E i \in 1..Len(queue) : Touches(records[s], queue[i])
            <4>1. PICK i \in 1..Len(queue) : Touches(records[s], queue[i])
                BY <3>1
            <4>2. i # 1
                BY <2>1, <2>3, <4>1 DEF Hit
            <4>3. i - 1 \in 1..Len(queue') /\ queue'[i - 1] = queue[i]
                BY <2>1, <2>2, <4>2
            <4>4. \E n \in 1..Len(queue') : Touches(records'[s], queue'[n])
                BY <1>1, <4>1, <4>3
            <4> QED BY <4>4 DEF Warned
        <3>2. CASE ~\E i \in 1..Len(queue) : Touches(records[s], queue[i])
            BY <1>1, <2>3, <3>2 DEF Warned
        <3> QED BY <3>1, <3>2
    <2>4. \A s, p : Spares(s, p)
        BY <2>1 DEF Spares
    <2> QED BY <1>1, <1>2, <2>3, <2>4, OutsideKeeps
<1> QED BY <1>3, <1>4, <1>5

-----------------------------------------------------------------------------
(***************************************************************************)
(* The steps of a handler                                                  *)
(***************************************************************************)
Frame == UNCHANGED <<link, away, queue, records, promised>>

\* What a step of one handler has to show.
LEMMA StepKeeps ==
    ASSUME Claims, Cares, NEW h \in Handlers, OthersRest(h), Frame, excused \subseteq excused',
           Claim(h)',
           \A k \in Handlers \ {h} :
              \/ job[k].who \in excused'
              \/ Spares(job[k].who, job[k].path) /\ Attends(h, job[k].who),
           \A s \in Sessions \ excused' :
              /\ Firm(s) => Spares(s, records[s]) \/ Minded(s)'
              /\ s \in job[h].plan => s \in job'[h].plan
              /\ job[h].who = s /\ pc[h] \in Going \cup {"record"} =>
                    job'[h].who = s /\ pc'[h] \in Going \cup {"record"}
              /\ pc[h] \in {"event", "analyse"} /\ Touches(records[s], job[h].event) => Minded(s)'
    PROVE  Claims' /\ Cares'
<1>1. \A k \in Handlers \ {h} : Claim(k)'
    BY OthersClaim DEF Frame
<1>2. Cares'
    BY SessionsCared DEF Frame
<1> QED BY <1>1, <1>2 DEF Claims

LEMMA HandlersMove ==
    ASSUME HandlersTyped, NEW h \in Handlers
    PROVE  /\ \A place : GoTo(h, place) =>
                 pc'[h] = place /\ \A k \in Handlers \ {h} : pc'[k] = pc[k]
           /\ \A j : job' = [job EXCEPT ![h] = j] =>
                 job'[h] = j /\ \A k \in Handlers \ {h} : job'[k] = job[k]
BY DEF HandlersTyped, GoTo

LEMMA FinishRests ==
    ASSUME HandlersTyped, NEW h \in Handlers, Finish(h)
    PROVE  OthersRest(h) /\ pc'[h] = "idle" /\ job'[h].plan = {}
<1>1. Idle.plan = {}
    BY DEF Idle
<1> QED BY <1>1, HandlersMove DEF Finish, OthersRest

LEMMA LeaveRests ==
    ASSUME HandlersTyped, NEW h \in Handlers, Leave(h), TidyAt(pc[h], job[h]),
           pc[h] \notin Quietly
    PROVE  OthersRest(h) /\ pc'[h] \in {"idle", "plan"} /\ job'[h].plan = job[h].plan
<1>1. CASE job[h].event = NoEvent
    <2>1. job[h].plan = {} /\ Finish(h)
        BY <1>1 DEF TidyAt, Leave
    <2> QED BY <2>1, FinishRests
<1>2. CASE job[h].event # NoEvent
    <2>1. PICK j : j = [Idle EXCEPT !.event = job[h].event, !.plan = job[h].plan]
        OBVIOUS
    <2>2. j.plan = job[h].plan
        BY <2>1 DEF Idle
    <2>3. GoTo(h, "plan") /\ job' = [job EXCEPT ![h] = j]
        BY <1>2, <2>1 DEF Leave
    <2> QED BY <2>2, <2>3, HandlersMove DEF OthersRest
<1> QED BY <1>1, <1>2

LEMMA DoneRests ==
    ASSUME HandlersTyped, NEW h \in Handlers, NEW F, Done(h, F)
    PROVE  /\ \A k \in Handlers \ {h} : job'[k] = job[k]
           /\ job'[h].todo = job[h].todo \ F /\ job'[h].who = job[h].who
           /\ job'[h].path = job[h].path /\ job'[h].plan = job[h].plan
<1>1. PICK j : j = [job[h] EXCEPT !.todo = @ \ F]
    OBVIOUS
<1>2. /\ j.todo = job[h].todo \ F /\ j.path = job[h].path /\ j.who = job[h].who
      /\ j.plan = job[h].plan
    BY <1>1 DEF HandlersTyped, Jobs
<1>3. job' = [job EXCEPT ![h] = j]
    BY <1>1 DEF Done
<1> QED BY <1>2, <1>3, HandlersMove

\* The next event is a handler's now.
LEMMA PostKeeps ==
    ASSUME WayInv, NEW h \in Handlers, Post(h)
    PROVE  Claims' /\ Cares'
<1>1. PICK j : j = [Idle EXCEPT !.event = Head(queue)]
    OBVIOUS
<1>2. /\ pc[h] = "idle" /\ queue # <<>> /\ queue' = Tail(queue) /\ GoTo(h, "event")
      /\ job' = [job EXCEPT ![h] = j]
      /\ UNCHANGED <<link, away, flows, records, excused, promised>>
    BY <1>1 DEF Post, network, dictionaries, history
<1>3. HandlersTyped /\ TidyAt(pc[h], job[h]) /\ queue \in Seq(Event)
    BY DEF WayInv, Typed, ApplicationTyped, TidyInv, HandlersTidy
<1>4. OthersRest(h) /\ pc'[h] = "event" /\ job'[h] = j
    BY <1>2, <1>3, HandlersMove DEF OthersRest
<1>5. \A s, p : Spares(s, p) /\ Attends(h, s)
    BY <1>2 DEF Spares, Attends, Going, Opening
<1>6. \A k \in Handlers \ {h} : Claim(k)'
    BY <1>2, <1>4, <1>5, OthersClaim DEF WayInv
<1>7. Claim(h)'
    BY <1>4, NoClaim DEF Putting
<1>8. ASSUME NEW s \in Sessions, s \in promised', s \notin excused'
      PROVE  Minded(s)'
    <2>1. Minded(s)
        BY <1>2, <1>8 DEF WayInv, Cares, Cared
    <2>2. CASE Firm(s)
        BY <1>2, <1>5, <2>2, FirmStays DEF Minded
    <2>3. CASE ToRecover(s)
        <3>1. job[h].plan = {}
            BY <1>2, <1>3 DEF TidyAt, Quietly
        <3> QED BY <1>4, <2>3, <3>1 DEF ToRecover, OthersRest, Minded
    <2>4. CASE Under(s, Going \cup {"record"})
        BY <1>2, <1>4, <2>4 DEF Under, OthersRest, Minded, Going, Opening
    <2>5. CASE \E i \in 1..Len(queue) : Touches(records[s], queue[i])
        <3>1. PICK i \in 1..Len(queue) : Touches(records[s], queue[i])
            BY <2>5
        <3>2. CASE i = 1
            <4>1. j.event = queue[1]
                BY <1>1, <1>2, <1>3 DEF Idle
            <4>2. Touches(records'[s], job'[h].event)
                BY <1>2, <1>4, <3>1, <3>2, <4>1
            <4> QED BY <1>4, <4>2 DEF Warned, Minded
        <3>3. CASE i # 1
            <4>1. i - 1 \in 1..Len(queue') /\ queue'[i - 1] = queue[i]
                BY <1>2, <1>3, <3>3
            <4>2. \E n \in 1..Len(queue') : Touches(records'[s], queue'[n])
                BY <1>2, <3>1, <4>1
            <4> QED BY <4>2 DEF Warned, Minded
        <3> QED BY <3>2, <3>3
    <2>6. ASSUME NEW k \in Handlers, pc[k] \in {"event", "analyse"},
                 Touches(records[s], job[k].event)
          PROVE  Minded(s)'
        <3>1. k # h
            BY <1>2, <2>6
        <3>2. Warned(s)'
            BY <1>2, <1>4, <2>6, <3>1 DEF Warned, OthersRest
        <3> QED BY <3>2 DEF Minded
    <2> QED BY <2>1, <2>2, <2>3, <2>4, <2>5, <2>6 DEF Minded, Warned
<1> QED BY <1>6, <1>7, <1>8 DEF Claims, Cares, Cared

LEMMA PacketInKeeps ==
    ASSUME WayInv, NEW h \in Handlers, NEW t \in Sessions, PacketIn(h, t)
    PROVE  Claims' /\ Cares'
<1>1. PICK j : j = [Idle EXCEPT !.who = t]
    OBVIOUS
<1>2. /\ pc[h] = "idle" /\ GoTo(h, "gate") /\ job' = [job EXCEPT ![h] = j] /\ Frame
      /\ UNCHANGED <<flows, excused>>
    BY <1>1 DEF PacketIn, network, application, dictionaries, history, Frame
<1>3. HandlersTyped /\ TidyAt(pc[h], job[h])
    BY DEF WayInv, Typed, TidyInv, HandlersTidy
<1>4. OthersRest(h) /\ pc'[h] = "gate"
    BY <1>2, <1>3, HandlersMove DEF OthersRest
<1>5. \A s, p : Spares(s, p) /\ Attends(h, s)
    BY <1>2 DEF Spares, Attends, Going, Opening
<1>6. Claim(h)'
    BY <1>4, NoClaim DEF Putting
<1>7. job[h].plan = {}
    BY <1>2, <1>3 DEF TidyAt, Quietly
<1>8. pc[h] \notin Going \cup {"record"}
    BY <1>2 DEF Going, Opening
<1> QED BY <1>2, <1>4, <1>5, <1>6, <1>7, <1>8, StepKeeps DEF WayInv

\* The gate replaces nothing but itself.
LEMMA GateKeeps ==
    ASSUME WayInv, NEW h \in Handlers, InstallGate(h)
    PROVE  Claims' /\ Cares'
<1>1. /\ pc[h] = "gate" /\ flows' = Replaced(GateFlow(job[h].who)) /\ GoTo(h, "route")
      /\ Frame /\ UNCHANGED <<job, excused>>
    BY DEF InstallGate, network, application, history, Frame
<1>2. HandlersTyped
    BY DEF WayInv, Typed
<1>3. OthersRest(h) /\ pc'[h] = "route" /\ job'[h] = job[h]
    BY <1>1, <1>2, HandlersMove DEF OthersRest
<1>4. GateFlow(job[h].who) \in flows'
    BY <1>1 DEF Replaced
<1>5. ASSUME NEW s, NEW p, p = NoPath \/ Proper(s, p)
      PROVE  Spares(s, p)
    <2>1. GateFlow(s) \in flows => GateFlow(s) \in flows'
        <3>1. SameSelector(GateFlow(job[h].who), GateFlow(s)) =>
                 GateFlow(s) = GateFlow(job[h].who)
            BY DEF SameSelector, GateFlow, Flow
        <3> QED BY <1>1, <3>1 DEF Replaced
    <2>2. ASSUME NEW f \in PathFlows(s, p), f \in flows
          PROVE  f \in flows'
        <3>1. f.sel[1] # "gate"
            BY <1>5, FlowsKinds DEF PathFlows
        <3>2. GateFlow(job[h].who).sel[1] = "gate"
            BY KindsOfFlows
        <3> QED BY <1>1, <2>2, <3>1, <3>2 DEF Replaced, SameSelector
    <2> QED BY <2>1, <2>2 DEF Spares
<1>6. \A s : Attends(h, s)
    BY <1>1, <1>3, <1>4 DEF Attends, Going
<1>7. Claim(h)'
    <2>1. GateStands(job[h].who)'
        BY <1>1, <1>4 DEF GateStands
    <2> QED BY <1>3, <2>1 DEF Claim, Putting
<1>8. \A k \in Handlers : Spares(job[k].who, job[k].path)
    BY <1>5, PathsProper DEF WayInv
<1>9. \A s \in Sessions : Spares(s, records[s])
    BY <1>5, PathsProper DEF WayInv
<1>10. "route" \in Going
    BY DEF Going
<1> QED BY <1>1, <1>3, <1>6, <1>7, <1>8, <1>9, <1>10, StepKeeps DEF WayInv

\* All of the path is to be installed.
LEMMA RouteKeeps ==
    ASSUME WayInv, NEW h \in Handlers, Route(h)
    PROVE  Claims' /\ Cares'
<1>1. PICK s, there, back :
         /\ s = job[h].who /\ there = Path(Listed, s.entry, s.exit)
         /\ back = Path(Listed, s.exit, s.entry) /\ there # <<>> /\ back # <<>>
         /\ job' = [job EXCEPT ![h].path = [there |-> there, back |-> back],
                               ![h].todo = There(s, there) \cup Back(s, back)]
         /\ excused' = excused \cup (IF Blind(there) \/ Blind(back) THEN {s} ELSE {})
         /\ pc[h] = "route" /\ GoTo(h, "put") /\ Frame /\ UNCHANGED flows
    BY DEF Route, Excuse, network, application, dictionaries, Frame
<1>2. HandlersTyped /\ job[h] \in Jobs /\ UNCHANGED <<link, away>>
    BY <1>1 DEF WayInv, Typed, HandlersTyped, Frame
<1>3. PICK p : p = [there |-> there, back |-> back]
    OBVIOUS
<1>4. PICK j : j = [job[h] EXCEPT !.path = p, !.todo = There(s, there) \cup Back(s, back)]
    OBVIOUS
<1>5. /\ j.path = p /\ j.who = s /\ j.todo = There(s, there) \cup Back(s, back)
      /\ j.plan = job[h].plan
    BY <1>1, <1>2, <1>4 DEF Jobs
<1>6. job' = [job EXCEPT ![h] = j]
    BY <1>1, <1>3, <1>4
<1>7. OthersRest(h) /\ pc'[h] = "put" /\ job'[h] = j
    BY <1>1, <1>2, <1>6, HandlersMove DEF OthersRest
<1>8. p # NoPath /\ p.there = there /\ p.back = back
    BY <1>1, <1>3 DEF NoPath
<1>9. PathFlows(s, p) = j.todo
    BY <1>5, <1>8 DEF PathFlows
<1>10. \A t, q : Spares(t, q)
    BY <1>1, NothingGone
<1>11. \A t : Attends(h, t)
    BY <1>1, <1>5, <1>7 DEF Attends, Going, Opening
<1>12. Claim(h)'
    <2> SUFFICES ASSUME s \notin excused'
                 PROVE  Claim(h)'
        BY <1>5, <1>7 DEF Claim
    <2>1. GateStands(s)'
        <3>1. GateStands(s)
            BY <1>1 DEF WayInv, Claims, Claim
        <3> QED BY <1>7, <1>10, <1>11, <3>1, StandsOn
    <2>2. Carrying(p)'
        <3>1. Carrying(p)
            BY <1>1, <1>8 DEF Carrying
        <3> QED BY <1>2, <3>1, SameCarrying
    <2>3. GateStands(job[h].who)' /\ Carrying(job[h].path)'
        BY <1>5, <1>7, <2>1, <2>2 DEF GateStands, Under, Carrying
    <2>4. SharedStand(h)' /\ OwnOf(PathFlows(job'[h].who, job'[h].path)) \subseteq job'[h].todo
        BY <1>5, <1>7, <1>9 DEF SharedStand, OwnOf
    <2> QED BY <1>7, <2>3, <2>4 DEF Claim
<1>13. "put" \in Going /\ pc[h] \notin {"event", "analyse"} /\ excused \subseteq excused'
    BY <1>1 DEF Going
<1> QED BY <1>1, <1>5, <1>7, <1>10, <1>11, <1>12, <1>13, StepKeeps DEF WayInv

\* Who has something go wrong is excused.
LEMMA ExcusedKeeps ==
    ASSUME WayInv, NEW h \in Handlers, NoRoute(h) \/ RouteFails(h) \/ OwnFails(h)
    PROVE  Claims' /\ Cares'
<1>1. /\ pc[h] \in {"route", "put"} /\ Frame /\ UNCHANGED flows
      /\ excused' = excused \cup {job[h].who}
    BY DEF NoRoute, RouteFails, OwnFails, Excuse, Fault, network, application, dictionaries, Frame
<1>2. HandlersTyped /\ TidyAt(pc[h], job[h])
    BY DEF WayInv, Typed, TidyInv, HandlersTidy
<1>3. /\ OthersRest(h) /\ job'[h].plan = job[h].plan
      /\ pc'[h] \in {"idle", "plan"} \/ job'[h].who = job[h].who
    <2>1. CASE Leave(h)
        BY <1>1, <1>2, <2>1, LeaveRests DEF Quietly
    <2>2. CASE OwnFails(h)
        <3>1. (\E F : Done(h, F)) /\ UNCHANGED pc
            BY <2>2 DEF OwnFails
        <3> QED BY <1>2, <3>1, DoneRests DEF OthersRest
    <2> QED BY <2>1, <2>2 DEF NoRoute, RouteFails
<1>4. \A s, p : Spares(s, p)
    BY <1>1, NothingGone
<1>5. Claim(h)'
    BY <1>1, <1>3, NoClaim DEF Putting
<1>6. \A s : s \notin excused' => Attends(h, s)
    BY <1>1 DEF Attends
<1>7. pc[h] \notin {"event", "analyse"} /\ excused \subseteq excused' /\ job[h].who \in excused'
    BY <1>1
<1> QED BY <1>1, <1>3, <1>4, <1>5, <1>6, <1>7, StepKeeps DEF WayInv

\* A handler goes on with the flows of its path.
LEMMA PuttingKeeps ==
    ASSUME WayInv, NEW h \in Handlers, OthersRest(h), Frame, excused \subseteq excused',
           pc[h] \in Putting \ {"record"}, pc'[h] \in Putting \ {"record"},
           job'[h].who = job[h].who, job'[h].path = job[h].path, job'[h].plan = job[h].plan,
           OwnOf(job[h].todo) \subseteq job'[h].todo,
           job[h].who \in excused' \/ SharedStand(h)',
           \A k \in Handlers \ {h} :
              job[k].who \in excused' \/ Spares(job[k].who, job[k].path),
           \A s \in Sessions \ Renewed(h) : s \in excused' \/ Spares(s, records[s]),
           \A s : GateFlow(s) \in flows => GateFlow(s) \in flows'
    PROVE  Claims' /\ Cares'
<1>1. pc[h] \in Going \ Opening /\ pc'[h] \in Going \ Opening
    BY DEF Putting, Going, Opening
<1>2. \A s : Attends(h, s)
    BY <1>1 DEF Attends
<1>3. Claim(h)'
    <2> SUFFICES ASSUME job[h].who \notin excused'
                 PROVE  Claim(h)'
        BY DEF Claim
    <2>1. PICK s, p : s = job[h].who /\ p = job[h].path
        OBVIOUS
    <2>2. /\ GateStands(s) /\ Carrying(p)
          /\ OwnOf(PathFlows(s, p)) \subseteq job[h].todo
        BY <2>1 DEF WayInv, Claims, Claim
    <2>3. GateStands(s)'
        <3>1. CASE GateFlow(s) \in flows
            BY <3>1 DEF GateStands
        <3>2. CASE Under(s, Opening)
            BY <1>1, <3>2 DEF Under, OthersRest, GateStands
        <3> QED BY <2>2, <3>1, <3>2 DEF GateStands
    <2>4. Carrying(p)'
        BY <2>2, SameCarrying DEF Frame
    <2>5. OwnOf(PathFlows(s, p)) \subseteq job'[h].todo
        BY <2>2 DEF OwnOf
    <2>6. GateStands(job[h].who)' /\ Carrying(job[h].path)'
        BY <2>1, <2>3, <2>4 DEF GateStands, Under, Carrying
    <2> QED BY <2>1, <2>5, <2>6 DEF Claim
<1>4. ASSUME NEW s \in Sessions \ excused'
      PROVE  Spares(s, records[s]) \/ Minded(s)'
    <2>1. CASE s = job[h].who
        BY <1>1, <2>1 DEF Under, Minded
    <2>2. CASE s \in job[h].plan
        BY <2>2 DEF ToRecover, Minded
    <2> QED BY <1>4, <2>1, <2>2 DEF Renewed
<1>5. pc[h] \notin {"event", "analyse"}
    BY DEF Putting
<1> QED BY <1>1, <1>2, <1>3, <1>4, <1>5, StepKeeps DEF WayInv

\* What is true of a handler with shared flows in its hands.
LEMMA ItemOfPath ==
    ASSUME WayInv, NEW h \in Handlers, pc[h] \in Putting, Common(h) # {}
    PROVE  /\ Item(h) \in job[h].todo /\ IsShared(Item(h))
           /\ Item(h) \in PathFlows(job[h].who, job[h].path)
           /\ \A f \in PathFlows(job[h].who, job[h].path) : SameSelector(f, Item(h)) => f = Item(h)
<1>1. TidyAt(pc[h], job[h])
    BY DEF WayInv, TidyInv, HandlersTidy
<1>2. Proper(job[h].who, job[h].path) /\ job[h].todo \subseteq PathFlows(job[h].who, job[h].path)
    BY <1>1 DEF TidyAt
<1>3. Item(h) \in job[h].todo /\ IsShared(Item(h))
    BY ItemIsShared
<1> QED BY <1>2, <1>3, FlowsDistinct

\* The dictionary is looked up, or a flow is noted in it.
LEMMA LookupKeeps ==
    ASSUME WayInv, NEW h \in Handlers, Reuse(h) \/ Stale(h) \/ Miss(h) \/ Note(h)
    PROVE  Claims' /\ Cares'
<1>1. HandlersTyped
    BY DEF WayInv, Typed
<1>2. /\ pc[h] \in {"put", "note"} /\ Common(h) # {} /\ Frame /\ UNCHANGED flows
      /\ excused \subseteq excused'
    BY ItemAtWork DEF WayInv, Reuse, Stale, Miss, Note, Excuse, Fault, NoFault, network, application,
       dictionaries, history, Frame
<1>3. Item(h) \in job[h].todo /\ IsShared(Item(h))
    BY <1>2, ItemIsShared
<1>4. \A s, p : Spares(s, p)
    BY <1>2, NothingGone
<1>5. \A s : GateFlow(s) \in flows => GateFlow(s) \in flows'
    BY <1>2
<1>6. job[h].who \in excused' \/ SharedStand(h)
    BY <1>2 DEF WayInv, Claims, Claim, Putting
<1>7. CASE Reuse(h) \/ Note(h)
    <2>1. Done(h, {Item(h)}) /\ (GoTo(h, "put") \/ (pc[h] = "put" /\ UNCHANGED pc))
        BY <1>7 DEF Reuse, Note
    <2>2. /\ \A k \in Handlers \ {h} : job'[k] = job[k]
          /\ job'[h].todo = job[h].todo \ {Item(h)} /\ job'[h].who = job[h].who
          /\ job'[h].path = job[h].path /\ job'[h].plan = job[h].plan
        BY <1>1, <2>1, DoneRests
    <2>3. OthersRest(h) /\ pc'[h] = "put"
        BY <1>1, <2>1, <2>2, HandlersMove DEF OthersRest
    <2>4. OwnOf(job[h].todo) \subseteq job'[h].todo
        BY <1>3, <2>2 DEF OwnOf
    <2>5. job[h].who \in excused' \/ SharedStand(h)'
        <3>1. CASE Note(h)
            <4>1. pc[h] = "note"
                BY <3>1 DEF Note
            <4> QED BY <1>2, <1>6, <2>2, <2>3, <4>1 DEF SharedStand
        <3>2. CASE Reuse(h)
            <4>1. job[h].who \in excused' \/ Item(h) \in flows
                BY <3>2 DEF Reuse, Excuse
            <4> QED BY <1>2, <1>6, <2>2, <2>3, <4>1 DEF SharedStand
        <3> QED BY <1>7, <3>1, <3>2
    <2> QED BY <1>2, <1>4, <1>5, <2>2, <2>3, <2>4, <2>5, PuttingKeeps DEF Putting
<1>8. CASE Stale(h) \/ Miss(h)
    <2>1. pc[h] = "put" /\ UNCHANGED job /\ (GoTo(h, "drop") \/ GoTo(h, "install"))
        BY <1>8 DEF Stale, Miss
    <2>2. OthersRest(h) /\ pc'[h] \in {"drop", "install"} /\ job'[h] = job[h]
        BY <1>1, <2>1, HandlersMove DEF OthersRest
    <2>3. job[h].who \in excused' \/ SharedStand(h)'
        BY <1>2, <1>6, <2>2 DEF SharedStand
    <2>4. OwnOf(job[h].todo) \subseteq job'[h].todo
        BY <2>2 DEF OwnOf
    <2> QED BY <1>2, <1>4, <1>5, <2>2, <2>3, <2>4, PuttingKeeps DEF Putting
<1> QED BY <1>7, <1>8

\* A shared flow is deleted or put in the place of another: who loses a flow is excused,
\* or about to get a new path.
LEMMA ReplacingKeeps ==
    ASSUME WayInv, NEW h \in Handlers, Drop(h) \/ Install(h) \/ InstallFails(h)
    PROVE  Claims' /\ Cares'
<1>1. HandlersTyped
    BY DEF WayInv, Typed
<1>2. pc[h] \in {"drop", "install"} /\ Common(h) # {} /\ Frame
    BY ItemAtWork DEF WayInv, Drop, Install, InstallFails, network, application, dictionaries, Frame
<1>3. /\ Item(h) \in job[h].todo /\ IsShared(Item(h))
      /\ \A f \in PathFlows(job[h].who, job[h].path) : SameSelector(f, Item(h)) => f = Item(h)
    BY <1>2, ItemOfPath DEF Putting
<1>4. \A f \in flows \ flows' : SameSelector(f, Item(h)) /\ (f # Item(h) \/ Drop(h))
    BY SameOwners DEF Drop, Install, InstallFails, Replaced
<1>5. \A f \in flows \ flows' : f.sel[1] # "gate"
    BY <1>3, <1>4 DEF SameSelector, IsShared
<1>6. excused \subseteq excused'
    BY DEF Drop, Install, InstallFails, Excuse, Fault
<1>7. /\ \A k \in Handlers \ {h} :
            job[k].who \in excused' \/ Spares(job[k].who, job[k].path)
      /\ \A s \in Sessions \ Renewed(h) : s \in excused' \/ Spares(s, records[s])
    <2>1. CASE Drop(h) \/ Install(h)
        <3>1. Robbed(h, Renewed(h), flows \ flows') \subseteq excused'
            BY <2>1 DEF Drop, Install, Excuse
        <3> QED BY <1>5, <3>1, RobbedOrSpared
    <2>2. CASE InstallFails(h)
        <3>1. PICK none : none = {}
            OBVIOUS
        <3>2. Robbed(h, none, flows \ flows') \subseteq excused'
            BY <2>2, <3>1 DEF InstallFails, Fault
        <3>3. /\ \A k \in Handlers \ {h} :
                    job[k].who \in excused' \/ Spares(job[k].who, job[k].path)
              /\ \A s \in Sessions \ none : s \in excused' \/ Spares(s, records[s])
            BY <1>5, <3>2, RobbedOrSpared
        <3> QED BY <3>1, <3>3
    <2> QED BY <2>1, <2>2
<1>8. \A s : GateFlow(s) \in flows => GateFlow(s) \in flows'
    BY <1>5, KindsOfFlows
<1>9. CASE InstallFails(h)
    <2>1. Done(h, {Item(h)}) /\ GoTo(h, "put") /\ job[h].who \in excused'
        BY <1>9 DEF InstallFails, Fault
    <2>2. /\ \A k \in Handlers \ {h} : job'[k] = job[k]
          /\ job'[h].todo = job[h].todo \ {Item(h)} /\ job'[h].who = job[h].who
          /\ job'[h].path = job[h].path /\ job'[h].plan = job[h].plan
        BY <1>1, <2>1, DoneRests
    <2>3. OthersRest(h) /\ pc'[h] = "put"
        BY <1>1, <2>1, <2>2, HandlersMove DEF OthersRest
    <2>4. OwnOf(job[h].todo) \subseteq job'[h].todo
        BY <1>3, <2>2 DEF OwnOf
    <2> QED BY <1>2, <1>6, <1>7, <1>8, <2>1, <2>2, <2>3, <2>4, PuttingKeeps DEF Putting
<1>10. CASE Drop(h) \/ Install(h)
    <2>1. UNCHANGED job /\ ((Drop(h) /\ GoTo(h, "install")) \/ (Install(h) /\ GoTo(h, "note")))
        BY <1>10 DEF Drop, Install
    <2>2. /\ OthersRest(h) /\ job'[h] = job[h]
          /\ (Drop(h) /\ pc'[h] = "install") \/ (Install(h) /\ pc'[h] = "note")
        BY <1>1, <2>1, HandlersMove DEF OthersRest
    <2>3. OwnOf(job[h].todo) \subseteq job'[h].todo
        BY <2>2 DEF OwnOf
    <2>4. Item(h)' = Item(h)
        BY <2>1 DEF Item, Common
    <2>5. job[h].who \in excused' \/ SharedStand(h)'
        <3> SUFFICES ASSUME job[h].who \notin excused',
                            NEW f \in PathFlows(job[h].who, job[h].path), IsShared(f)
                     PROVE  f \in flows' \/ (f \in job[h].todo /\ (pc'[h] = "note" => f # Item(h)))
            BY <2>2, <2>4 DEF SharedStand
        <3>1. f \in flows \/ f \in job[h].todo
            BY <1>2, <1>6 DEF WayInv, Claims, Claim, SharedStand, Putting
        <3>2. CASE Drop(h) /\ pc'[h] = "install"
            BY <1>3, <1>4, <3>1, <3>2
        <3>3. CASE Install(h) /\ pc'[h] = "note"
            <4>1. Item(h) \in flows'
                BY <3>3 DEF Install, Replaced
            <4>2. f \in flows => f \in flows' \/ SameSelector(f, Item(h))
                BY <1>4
            <4> QED BY <1>3, <3>1, <4>1, <4>2
        <3> QED BY <2>2, <3>2, <3>3
    <2> QED BY <1>2, <1>6, <1>7, <1>8, <2>2, <2>3, <2>5, PuttingKeeps DEF Putting
<1> QED BY <1>9, <1>10

\* What is a session's own takes nothing from the others.
LEMMA OwnSpares ==
    ASSUME NEW s \in Sessions,
           \A f \in flows \ flows' :
              \E g : SameSelector(f, g) /\ ~IsShared(g) /\ g.sel[2] = s.host
    PROVE  /\ \A t \in Sessions \ {s} : \A p : p = NoPath \/ Proper(t, p) => Spares(t, p)
           /\ \A f \in flows : IsShared(f) => f \in flows'
<1>1. ASSUME NEW t \in Sessions \ {s}, NEW p, p = NoPath \/ Proper(t, p)
      PROVE  Spares(t, p)
    <2>1. \A f \in PathFlows(t, p) : f \in flows => f \in flows'
        BY <1>1, OthersFlows DEF PathFlows
    <2>2. GateFlow(t).sel[2] = t.host /\ t.host # s.host
        BY FailoverConstants DEF FailoverConstants, GateFlow, Flow
    <2>3. GateFlow(t) \in flows => GateFlow(t) \in flows'
        BY <2>2 DEF SameSelector
    <2> QED BY <2>1, <2>3 DEF Spares
<1>2. \A f \in flows : IsShared(f) => f \in flows'
    BY SameOwners
<1> QED BY <1>1, <1>2

\* The flows of the session alone are installed at once.
LEMMA InstallOwnKeeps ==
    ASSUME WayInv, NEW h \in Handlers, InstallOwn(h)
    PROVE  Claims' /\ Cares'
<1>1. /\ pc[h] = "put" /\ Common(h) = {} /\ GoTo(h, "record") /\ Frame /\ UNCHANGED job
      /\ flows' = {f \in flows : \A g \in job[h].todo : ~SameSelector(f, g)} \cup job[h].todo
      /\ excused' = excused \cup {job[h].who : k \in {i \in Handlers :
                       /\ pc[i] = "record" /\ job[i].who = job[h].who
                       /\ job[i].path # job[h].path}}
    BY DEF InstallOwn, Excuse, network, application, dictionaries, Frame
<1>2. HandlersTyped /\ TidyAt(pc[h], job[h]) /\ job[h].who \in Sessions
    BY DEF WayInv, Typed, HandlersTyped, Jobs, TidyInv, HandlersTidy
<1>3. OthersRest(h) /\ pc'[h] = "record" /\ job'[h] = job[h]
    BY <1>1, <1>2, HandlersMove DEF OthersRest
<1>4. PICK s, p : s = job[h].who /\ p = job[h].path
    OBVIOUS
<1>5. s \in Sessions /\ Proper(s, p) /\ job[h].todo \subseteq PathFlows(s, p)
    BY <1>1, <1>2, <1>4 DEF TidyAt, Putting
<1>6. \A g \in job[h].todo : ~IsShared(g) /\ g.sel[2] = s.host /\ g.sel[1] # "gate"
    BY <1>1, <1>5, FlowsKinds DEF Common
<1>7. \A f \in flows \ flows' : \E g \in job[h].todo : SameSelector(f, g)
    BY <1>1
<1>8. /\ \A t \in Sessions \ {s} : \A q : q = NoPath \/ Proper(t, q) => Spares(t, q)
      /\ \A f \in flows : IsShared(f) => f \in flows'
    <2>1. \A f \in flows \ flows' : \E g : SameSelector(f, g) /\ ~IsShared(g) /\ g.sel[2] = s.host
        BY <1>6, <1>7
    <2> QED BY <1>5, <2>1, OwnSpares
<1>9. \A t : GateFlow(t) \in flows => GateFlow(t) \in flows'
    BY <1>6, <1>7, KindsOfFlows DEF SameSelector
<1>10. job[h].todo \subseteq flows' /\ excused \subseteq excused'
    BY <1>1
<1>11. "put" \notin Opening /\ "put" \in Going /\ "record" \notin Going
    BY DEF Opening, Going
<1>12. \A t : GateStands(t) => GateStands(t)'
    BY <1>1, <1>3, <1>9, <1>11 DEF GateStands, Under, OthersRest
<1>13. s \in excused' \/ OwnOf(PathFlows(s, p)) \subseteq flows'
    <2>1. s \in excused' \/ OwnOf(PathFlows(s, p)) \subseteq job[h].todo
        BY <1>1, <1>4 DEF WayInv, Claims, Claim, Putting
    <2> QED BY <1>10, <2>1
<1>14. ASSUME NEW k \in Handlers \ {h}
       PROVE  Claim(k)'
    <2>1. PICK t, q : t = job[k].who /\ q = job[k].path
        OBVIOUS
    <2>2. Claim(k) /\ pc'[k] = pc[k] /\ job'[k] = job[k]
        BY <1>3 DEF WayInv, Claims, OthersRest
    <2>3. Carrying(q) => Carrying(q)'
        BY <1>1, SameCarrying DEF Frame
    <2>4. \A f \in PathFlows(t, q) : IsShared(f) /\ f \in flows => f \in flows'
        BY <1>8
    <2>5. GateStands(t) => GateStands(t)'
        BY <1>12
    <2>6. t \in excused' \/ (pc[k] = "record" /\ OwnStand(t, q) => OwnStand(t, q)')
        <3>1. CASE t = s
            <4>1. SUFFICES ASSUME s \notin excused', pc[k] = "record"
                           PROVE  OwnStand(s, q)'
                BY <3>1
            <4>2. job[k].path = job[h].path
                BY <1>1, <1>4, <2>1, <3>1, <4>1
            <4>3. OwnOf(PathFlows(s, q)) \subseteq flows'
                BY <1>4, <1>13, <2>1, <4>1, <4>2
            <4> QED BY <4>3 DEF OwnStand
        <3>2. CASE t # s
            <4>1. Spares(t, q)
                BY <1>8, <2>1, <3>2, PathsProper DEF WayInv, Typed, HandlersTyped, Jobs
            <4>2. Attends(h, t)
                BY <1>4, <3>2 DEF Attends
            <4> QED BY <1>3, <4>1, <4>2, StandsOn
        <3> QED BY <3>1, <3>2
    <2> QED BY <1>10, <2>1, <2>2, <2>3, <2>4, <2>5, <2>6, RestsClaim
<1>15. Claim(h)'
    <2> SUFFICES ASSUME s \notin excused'
                 PROVE  Claim(h)'
        BY <1>3, <1>4 DEF Claim
    <2>1. GateStands(s) /\ Carrying(p) /\ SharedStand(h)
        BY <1>1, <1>4 DEF WayInv, Claims, Claim, Putting
    <2>2. GateStands(job[h].who)'
        BY <1>1, <1>4, <1>12, <2>1 DEF GateStands, Under
    <2>3. Carrying(p)'
        BY <1>1, <2>1, SameCarrying DEF Frame
    <2>4. Carrying(job[h].path)'
        BY <1>1, <1>4, <2>3 DEF Carrying
    <2>5. SharedStand(h)'
        BY <1>3, <1>6, <1>8, <2>1 DEF SharedStand
    <2>6. OwnStand(job[h].who, job[h].path)'
        BY <1>1, <1>4, <1>13 DEF OwnStand
    <2> QED BY <1>3, <2>2, <2>4, <2>5, <2>6 DEF Claim
<1>16. ASSUME NEW t \in Sessions
       PROVE  Spares(t, records[t]) \/ Minded(t)'
    <2>1. CASE t = s
        BY <1>3, <1>4, <2>1 DEF Under, Minded
    <2>2. CASE t # s
        BY <1>8, <2>2, PathsProper DEF WayInv
    <2> QED BY <2>1, <2>2
<1>17. Cares'
    BY <1>1, <1>3, <1>10, <1>11, <1>16, SessionsCared DEF WayInv, Frame
<1> QED BY <1>14, <1>15, <1>17 DEF Claims

\* The path that is recorded is in ONOS as it is recorded, or another handler is about
\* to install it again.
LEMMA RecordKeeps ==
    ASSUME WayInv, NEW h \in Handlers, Record(h)
    PROVE  Claims' /\ Cares'
<1>1. /\ pc[h] = "record" /\ Leave(h) /\ UNCHANGED <<link, away, queue, flows, excused>>
      /\ records' = [records EXCEPT ![job[h].who] = job[h].path]
      /\ promised' = promised \cup {job[h].who}
    BY DEF Record, network
<1>2. HandlersTyped /\ TidyAt(pc[h], job[h]) /\ records \in [Sessions -> Paths]
    BY DEF WayInv, Typed, DictionariesTyped, TidyInv, HandlersTidy
<1>3. PICK s, p : s = job[h].who /\ p = job[h].path
    OBVIOUS
<1>4. s \in Sessions /\ records'[s] = p /\ \A t \in Sessions \ {s} : records'[t] = records[t]
    BY <1>1, <1>2, <1>3 DEF HandlersTyped, Jobs
<1>5. OthersRest(h) /\ pc'[h] \in {"idle", "plan"} /\ job'[h].plan = job[h].plan
    BY <1>1, <1>2, LeaveRests DEF Quietly
<1>6. \A t, q : Spares(t, q)
    BY <1>1, NothingGone
<1>7. "record" \notin Going \cup {"event", "analyse"}
    BY DEF Going, Opening
<1>8. \A t : Attends(h, t)
    BY <1>1, <1>7 DEF Attends, Going
<1>9. \A k \in Handlers \ {h} : Claim(k)'
    BY <1>1, <1>5, <1>6, <1>8, OthersClaim DEF WayInv
<1>10. Claim(h)'
    BY <1>5, NoClaim DEF Putting
<1>11. ASSUME s \notin excused
       PROVE  Minded(s)'
    <2>1. GateStands(s) /\ Carrying(p) /\ SharedStand(h) /\ OwnStand(s, p)
        BY <1>1, <1>3, <1>11 DEF WayInv, Claims, Claim, Putting
    <2>2. CASE Under(s, Going)
        <3>1. Under(s, Going)'
            BY <1>1, <1>5, <1>7, <2>2 DEF Under, OthersRest
        <3> QED BY <3>1 DEF Under, Minded
    <2>3. CASE ~Under(s, Going)
        <3>1. GateFlow(s) \in flows'
            BY <1>1, <2>1, <2>3 DEF GateStands, Under, Going
        <3>2. PathFlows(s, p) \subseteq flows'
            <4>1. \A f \in job[h].todo : ~IsShared(f)
                BY <1>1, <1>2 DEF TidyAt
            <4> QED BY <1>1, <1>3, <2>1, <2>3, <4>1 DEF OwnStand, OwnOf, SharedStand
        <3>3. Carrying(p)'
            BY <1>1, <2>1, SameCarrying
        <3>4. Carrying(records[s])' /\ (PathFlows(s, records[s]) \subseteq flows)'
            BY <1>4, <3>2, <3>3 DEF Carrying
        <3> QED BY <3>1, <3>4 DEF Firm, Minded
    <2> QED BY <2>2, <2>3
<1>12. ASSUME NEW t \in Sessions \ {s}, Minded(t)
       PROVE  Minded(t)'
    <2>1. Firm(t) => Minded(t)'
        BY <1>1, <1>4, <1>6, FirmStays DEF Minded
    <2>2. t \in job[h].plan => Minded(t)'
        BY <1>5 DEF ToRecover, Minded
    <2> QED BY <1>1, <1>3, <1>4, <1>5, <1>7, <1>12, <2>1, <2>2, MindedStays
<1>13. Cares'
    BY <1>1, <1>3, <1>11, <1>12 DEF WayInv, Cares, Cared
<1> QED BY <1>9, <1>10, <1>13 DEF Claims

-----------------------------------------------------------------------------
\* An event that is not analysed is an excuse; one that is leaves nobody out.
LEMMA EventKeeps ==
    ASSUME WayInv, NEW h \in Handlers, DuplicateEvent(h) \/ MarkEvent(h) \/ AnalysisFails(h)
    PROVE  Claims' /\ Cares'
<1>1. /\ pc[h] \in {"event", "analyse"} /\ Frame /\ UNCHANGED flows /\ excused \subseteq excused'
      /\ \/ Finish(h) /\ Hit(job[h].event) \subseteq excused'
         \/ GoTo(h, "analyse") /\ UNCHANGED job
    BY DEF DuplicateEvent, MarkEvent, AnalysisFails, Excuse, Fault, network, application,
       dictionaries, history, Frame
<1>2. HandlersTyped /\ TidyAt(pc[h], job[h])
    BY DEF WayInv, Typed, TidyInv, HandlersTidy
<1>3. OthersRest(h) /\ pc'[h] \in {"idle", "analyse"}
    BY <1>1, <1>2, FinishRests, HandlersMove DEF OthersRest
<1>4. Claim(h)'
    BY <1>3, NoClaim DEF Putting
<1>5. pc[h] \notin Going \cup {"record"}
    BY <1>1 DEF Going, Opening
<1>6. \A s, p : Spares(s, p) /\ Attends(h, s)
    BY <1>1, <1>5, NothingGone DEF Attends, Going
<1>7. ASSUME NEW s \in Sessions \ excused', Touches(records[s], job[h].event)
      PROVE  Minded(s)'
    <2>1. s \in Hit(job[h].event)
        BY <1>7 DEF Hit
    <2>2. GoTo(h, "analyse") /\ UNCHANGED job
        BY <1>1, <1>7, <2>1
    <2>3. pc'[h] = "analyse" /\ Touches(records'[s], job'[h].event)
        BY <1>1, <1>2, <1>7, <2>2, HandlersMove DEF Frame
    <2> QED BY <2>3 DEF Warned, Minded
<1>8. job[h].plan = {}
    BY <1>1, <1>2 DEF TidyAt, Quietly
<1> QED BY <1>1, <1>3, <1>4, <1>5, <1>6, <1>7, <1>8, StepKeeps DEF WayInv

LEMMA NoPathFails == \A e : ~Touches(NoPath, e)
<1>1. \A devices, links : ~UsesFailure(<<>>, devices, links)
    BY DEF UsesFailure
<1> QED BY <1>1 DEF Touches, NoPath

LEMMA AnalyseKeeps ==
    ASSUME WayInv, NEW h \in Handlers, Analyse(h)
    PROVE  Claims' /\ Cares'
<1>1. PICK affected, plan :
         /\ affected = {s \in Sessions : Touches(Current(s), job[h].event)}
         /\ IF plan = {} THEN Finish(h)
            ELSE job' = [job EXCEPT ![h].plan = plan] /\ GoTo(h, "cleanup")
         /\ excused' = excused \cup (affected \ plan)
         /\ pc[h] = "analyse" /\ Frame /\ UNCHANGED flows
    BY DEF Analyse, Excuse, network, dictionaries, Frame
<1>2. HandlersTyped /\ TidyAt(pc[h], job[h]) /\ job[h] \in Jobs
    BY DEF WayInv, Typed, HandlersTyped, TidyInv, HandlersTidy
<1>3. OthersRest(h) /\ pc'[h] \in {"idle", "cleanup"} /\ job'[h].plan = plan
    <2>1. CASE plan = {}
        BY <1>1, <1>2, <2>1, FinishRests
    <2>2. CASE plan # {}
        <3>1. PICK j : j = [job[h] EXCEPT !.plan = plan]
            OBVIOUS
        <3>2. j.plan = plan
            BY <1>2, <3>1 DEF Jobs
        <3>3. job' = [job EXCEPT ![h] = j]
            BY <1>1, <2>2, <3>1
        <3> QED BY <1>1, <1>2, <2>2, <3>2, <3>3, HandlersMove DEF OthersRest
    <2> QED BY <2>1, <2>2
<1>4. Claim(h)'
    BY <1>3, NoClaim DEF Putting
<1>5. pc[h] \notin Going \cup {"record"} /\ excused \subseteq excused'
    BY <1>1 DEF Going, Opening
<1>6. \A s, p : Spares(s, p) /\ Attends(h, s)
    BY <1>1, <1>5, NothingGone DEF Attends, Going
<1>7. ASSUME NEW s \in Sessions \ excused', Touches(records[s], job[h].event)
      PROVE  Minded(s)'
    <2>1. Current(s) = records[s]
        BY <1>7, NoPathFails DEF Current
    <2>2. s \in plan
        BY <1>1, <1>7, <2>1
    <2> QED BY <1>3, <2>2 DEF ToRecover, Minded
<1>8. job[h].plan = {}
    BY <1>1, <1>2 DEF TidyAt, Quietly
<1> QED BY <1>1, <1>3, <1>4, <1>5, <1>6, <1>7, <1>8, StepKeeps DEF WayInv

\* A handler between the analysis and the plan, or at its end.
LEMMA PlanningKeeps ==
    ASSUME WayInv, NEW h \in Handlers,
           Cleanup(h) \/ Scan(h) \/ DeleteFails(h) \/ Skip(h) \/ Planned(h)
    PROVE  Claims' /\ Cares'
<1>1. Frame /\ UNCHANGED flows /\ excused \subseteq excused'
    BY DEF Cleanup, Scan, DeleteFails, Skip, Planned, Excuse, Fault, network, application,
       dictionaries, history, Frame
<1>2. HandlersTyped /\ job[h] \in Jobs
    BY DEF WayInv, Typed, HandlersTyped
<1>3. \A s, p : Spares(s, p)
    BY <1>1, NothingGone
<1>4. ASSUME NEW place, NEW j, job' = [job EXCEPT ![h] = j], GoTo(h, place),
             pc[h] \notin {"event", "analyse"}, place \notin Putting \cup {"route"},
             job[h].plan \ excused' \subseteq j.plan,
             \/ pc[h] \notin Going \cup {"record"}
             \/ place = pc[h] /\ j.who = job[h].who
      PROVE  Claims' /\ Cares'
    <2>1. OthersRest(h) /\ pc'[h] = place /\ job'[h] = j
        BY <1>2, <1>4, HandlersMove DEF OthersRest
    <2>2. Claim(h)'
        BY <1>4, <2>1, NoClaim
    <2>3. \A s : Attends(h, s)
        BY <1>4, <2>1 DEF Attends, Going
    <2> QED BY <1>1, <1>3, <1>4, <2>1, <2>2, <2>3, StepKeeps DEF WayInv
<1>5. ASSUME NEW D, NEW place \in {"cleaning", "scanning"}, pc[h] \in {"cleanup", "scan"},
             job' = [job EXCEPT ![h].doomed = D], GoTo(h, place)
      PROVE  Claims' /\ Cares'
    <2>1. PICK j : j = [job[h] EXCEPT !.doomed = D]
        OBVIOUS
    <2>2. j.plan = job[h].plan /\ job' = [job EXCEPT ![h] = j]
        BY <1>2, <1>5, <2>1 DEF Jobs
    <2> QED BY <1>4, <1>5, <2>2 DEF Putting, Going, Opening
<1>6. CASE Cleanup(h) \/ Scan(h)
    <2>1. CASE Cleanup(h)
        <3>1. PICK D : job' = [job EXCEPT ![h].doomed = D] /\ GoTo(h, "cleaning")
                       /\ pc[h] = "cleanup"
            BY <2>1 DEF Cleanup
        <3> QED BY <1>5, <3>1
    <2>2. CASE Scan(h)
        <3>1. PICK D : job' = [job EXCEPT ![h].doomed = D] /\ GoTo(h, "scanning")
                       /\ pc[h] = "scan"
            BY <2>2 DEF Scan
        <3> QED BY <1>5, <3>1
    <2> QED BY <1>6, <2>1, <2>2
<1>7. CASE DeleteFails(h)
    <2>1. PICK f : job' = [job EXCEPT ![h].doomed = @ \ {f}]
        BY <1>7 DEF DeleteFails
    <2>2. PICK j : j = [job[h] EXCEPT !.doomed = @ \ {f}]
        OBVIOUS
    <2>3. j.plan = job[h].plan /\ j.who = job[h].who /\ job' = [job EXCEPT ![h] = j]
        BY <1>2, <2>1, <2>2 DEF Jobs
    <2>4. pc[h] \in {"cleaning", "scanning", "clearing"} /\ GoTo(h, pc[h])
        BY <1>2, <1>7, Stays DEF DeleteFails, AfterDeletes
    <2> QED BY <1>4, <2>3, <2>4 DEF Putting, Going, Opening
<1>8. CASE Skip(h)
    <2>1. PICK s : job' = [job EXCEPT ![h].plan = @ \ {s}] /\ s \in excused'
        BY <1>8 DEF Skip, Excuse
    <2>2. PICK j : j = [job[h] EXCEPT !.plan = @ \ {s}]
        OBVIOUS
    <2>3. j.plan = job[h].plan \ {s} /\ job' = [job EXCEPT ![h] = j]
        BY <1>2, <2>1, <2>2 DEF Jobs
    <2>4. pc[h] = "plan" /\ GoTo(h, "plan")
        BY <1>2, <1>8, Stays DEF Skip
    <2> QED BY <1>4, <2>1, <2>3, <2>4 DEF Putting, Going, Opening
<1>9. CASE Planned(h)
    <2>1. pc[h] = "plan" /\ job[h].plan = {} /\ GoTo(h, "idle") /\ job' = [job EXCEPT ![h] = Idle]
        BY <1>9 DEF Planned, Finish
    <2> QED BY <1>4, <2>1 DEF Putting, Going, Opening
<1> QED BY <1>6, <1>7, <1>8, <1>9

\* A recovery deletes: who loses a flow is excused, or to be recovered.
LEMMA CleaningKeeps ==
    ASSUME WayInv, NEW h \in Handlers, Delete(h), pc[h] # "clearing"
    PROVE  Claims' /\ Cares'
<1>1. /\ pc[h] \in {"cleaning", "scanning"} /\ GoTo(h, AfterDeletes[pc[h]])
      /\ AfterDeletes[pc[h]] \in {"scan", "plan"} /\ job' = [job EXCEPT ![h].doomed = {}]
      /\ flows' = {g \in flows : \A f \in job[h].doomed : ~SameSelector(f, g)}
      /\ Robbed(h, job[h].plan, flows \ flows') \subseteq excused'
      /\ excused \subseteq excused' /\ Frame
    BY DEF Delete, AfterDeletes, Excuse, network, application, dictionaries, Frame
<1>2. HandlersTyped /\ job[h] \in Jobs /\ TidyAt(pc[h], job[h])
    BY DEF WayInv, Typed, HandlersTyped, TidyInv, HandlersTidy
<1>3. PICK j : j = [job[h] EXCEPT !.doomed = {}]
    OBVIOUS
<1>4. j.plan = job[h].plan /\ job' = [job EXCEPT ![h] = j]
    BY <1>1, <1>2, <1>3 DEF Jobs
<1>5. OthersRest(h) /\ pc'[h] \in {"scan", "plan"} /\ job'[h] = j
    <2>1. PICK place \in {"scan", "plan"} : GoTo(h, place)
        BY <1>1
    <2> QED BY <1>2, <1>4, <2>1, HandlersMove DEF OthersRest
<1>6. \A f \in flows \ flows' : f.sel[1] # "gate"
    BY <1>1, <1>2 DEF TidyAt, SameSelector
<1>7. /\ \A k \in Handlers \ {h} :
            job[k].who \in excused' \/ Spares(job[k].who, job[k].path)
      /\ \A s \in Sessions \ job[h].plan : s \in excused' \/ Spares(s, records[s])
    BY <1>1, <1>6, RobbedOrSpared
<1>8. Claim(h)'
    BY <1>5, NoClaim DEF Putting
<1>9. pc[h] \notin Going \cup {"record", "event", "analyse"}
    BY <1>1 DEF Going, Opening
<1>10. \A s : Attends(h, s)
    BY <1>9 DEF Attends, Going
<1>11. \A s \in job[h].plan : Minded(s)'
    BY <1>4, <1>5 DEF ToRecover, Minded
<1> QED BY <1>1, <1>4, <1>5, <1>7, <1>8, <1>9, <1>10, <1>11, StepKeeps DEF WayInv

\* What is known of the session that is recovered is deleted.
LEMMA ClearingKeeps ==
    ASSUME WayInv, NEW h \in Handlers, Delete(h), pc[h] = "clearing"
    PROVE  Claims' /\ Cares'
<1>1. /\ GoTo(h, "gate") /\ job' = [job EXCEPT ![h].doomed = {}]
      /\ flows' = {g \in flows : \A f \in job[h].doomed : ~SameSelector(f, g)}
      /\ excused' = excused /\ Frame
    BY DEF Delete, AfterDeletes, Excuse, network, application, dictionaries, Frame
<1>2. HandlersTyped /\ job[h] \in Jobs /\ TidyAt(pc[h], job[h])
    BY DEF WayInv, Typed, HandlersTyped, TidyInv, HandlersTidy
<1>3. PICK j, s : j = [job[h] EXCEPT !.doomed = {}] /\ s = job[h].who
    OBVIOUS
<1>4. j.plan = job[h].plan /\ j.who = s /\ s \in Sessions /\ job' = [job EXCEPT ![h] = j]
    BY <1>1, <1>2, <1>3 DEF Jobs
<1>5. OthersRest(h) /\ pc'[h] = "gate" /\ job'[h] = j
    BY <1>1, <1>2, <1>4, HandlersMove DEF OthersRest
<1>6. \A f \in job[h].doomed : ~IsShared(f) /\ f.sel[2] = s.host
    BY <1>2, <1>3 DEF TidyAt
<1>7. /\ \A t \in Sessions \ {s} : \A q : q = NoPath \/ Proper(t, q) => Spares(t, q)
      /\ \A f \in flows : IsShared(f) => f \in flows'
    <2>1. \A f \in flows \ flows' : \E g : SameSelector(f, g) /\ ~IsShared(g) /\ g.sel[2] = s.host
        BY <1>1, <1>6, SameOwners
    <2> QED BY <1>4, <2>1, OwnSpares
<1>8. Under(s, Opening)' /\ Under(s, Going)' /\ Under(s, Going \cup {"record"})'
    BY <1>4, <1>5 DEF Under, Going, Opening
<1>9. ASSUME NEW k \in Handlers \ {h}
      PROVE  Claim(k)'
    <2>1. PICK t, q : t = job[k].who /\ q = job[k].path
        OBVIOUS
    <2>2. Claim(k) /\ pc'[k] = pc[k] /\ job'[k] = job[k] /\ t \in Sessions
          /\ (q = NoPath \/ Proper(t, q))
        BY <1>2, <1>5, <2>1, PathsProper DEF WayInv, Claims, OthersRest, HandlersTyped, Jobs
    <2>3. Carrying(q) => Carrying(q)'
        BY <1>1, SameCarrying DEF Frame
    <2>4. \A f \in PathFlows(t, q) : IsShared(f) /\ f \in flows => f \in flows'
        BY <1>7
    <2>5. (GateStands(t) => GateStands(t)') /\ (OwnStand(t, q) => OwnStand(t, q)')
        <3>1. CASE t = s
            BY <1>8, <3>1 DEF GateStands, OwnStand
        <3>2. CASE t # s
            <4>1. Spares(t, q)
                BY <1>7, <2>2, <3>2
            <4>2. Attends(h, t)
                BY <1>3, <3>2 DEF Attends
            <4> QED BY <1>5, <4>1, <4>2, StandsOn
        <3> QED BY <3>1, <3>2
    <2>6. excused \subseteq excused'
        BY <1>1
    <2> QED BY <2>1, <2>2, <2>3, <2>4, <2>5, <2>6, RestsClaim
<1>10. Claim(h)'
    BY <1>5, NoClaim DEF Putting
<1>11. ASSUME NEW t \in Sessions
       PROVE  Spares(t, records[t]) \/ Minded(t)'
    <2>1. CASE t = s
        BY <1>8, <2>1 DEF Minded
    <2>2. CASE t # s
        BY <1>7, <2>2, PathsProper DEF WayInv
    <2> QED BY <2>1, <2>2
<1>12. Cares'
    <2>1. "gate" \in Going
        BY DEF Going, Opening
    <2>2. excused \subseteq excused' /\ pc[h] \notin {"event", "analyse"}
        BY <1>1
    <2> QED BY <1>1, <1>3, <1>4, <1>5, <1>11, <2>1, <2>2, SessionsCared DEF WayInv, Frame
<1> QED BY <1>9, <1>10, <1>12 DEF Claims

\* A session is taken from the plan to be recovered.
LEMMA PlanKeeps ==
    ASSUME WayInv, NEW h \in Handlers, Plan(h)
    PROVE  Claims' /\ Cares'
<1>1. PICK s \in job[h].plan : \E planned :
         /\ records' = [records EXCEPT ![s] = NoPath]
         /\ job' = [job EXCEPT ![h].plan = @ \ {s}, ![h].who = s, ![h].doomed = Known(s),
                               ![h].planned = planned]
    BY DEF Plan
<1>2. PICK planned :
         /\ records' = [records EXCEPT ![s] = NoPath]
         /\ job' = [job EXCEPT ![h].plan = @ \ {s}, ![h].who = s, ![h].doomed = Known(s),
                               ![h].planned = planned]
    BY <1>1
<1>3. /\ pc[h] = "plan" /\ GoTo(h, "clearing")
      /\ UNCHANGED <<link, away, queue, flows, excused, promised>>
    BY DEF Plan, network, application, history
<1>4. HandlersTyped /\ job[h] \in Jobs /\ records \in [Sessions -> Paths]
    BY DEF WayInv, Typed, HandlersTyped, DictionariesTyped
<1>5. PICK j : j = [job[h] EXCEPT !.plan = @ \ {s}, !.who = s, !.doomed = Known(s),
                                  !.planned = planned]
    OBVIOUS
<1>6. j.plan = job[h].plan \ {s} /\ j.who = s /\ job' = [job EXCEPT ![h] = j]
    BY <1>2, <1>4, <1>5 DEF Jobs
<1>7. OthersRest(h) /\ pc'[h] = "clearing" /\ job'[h] = j
    BY <1>3, <1>4, <1>6, HandlersMove DEF OthersRest
<1>8. \A t, q : Spares(t, q)
    BY <1>3, NothingGone
<1>9. pc[h] \notin Going \cup {"record", "event", "analyse"}
    BY <1>3 DEF Going, Opening
<1>10. \A t : Attends(h, t)
    BY <1>9 DEF Attends, Going
<1>11. \A k \in Handlers \ {h} : Claim(k)'
    BY <1>3, <1>7, <1>8, <1>10, OthersClaim DEF WayInv
<1>12. Claim(h)'
    BY <1>7, NoClaim DEF Putting
<1>13. Minded(s)'
    BY <1>6, <1>7 DEF Under, Going, Opening, Minded
<1>14. ASSUME NEW t \in Sessions, t # s, Minded(t)
       PROVE  Minded(t)'
    <2>1. records'[t] = records[t]
        BY <1>2, <1>4, <1>14
    <2>2. Firm(t) => Minded(t)'
        BY <1>3, <1>8, <2>1, FirmStays DEF Minded
    <2>3. t \in job[h].plan => Minded(t)'
        BY <1>6, <1>7, <1>14 DEF ToRecover, Minded
    <2> QED BY <1>3, <1>7, <1>9, <1>14, <2>1, <2>2, <2>3, MindedStays
<1>15. Cares'
    BY <1>3, <1>13, <1>14 DEF WayInv, Cares, Cared
<1> QED BY <1>11, <1>12, <1>15 DEF Claims

-----------------------------------------------------------------------------
LEMMA InitWays == Init => Claims /\ Cares
<1> SUFFICES ASSUME Init PROVE Claims /\ Cares
    OBVIOUS
<1>1. pc = [h \in Handlers |-> "idle"] /\ promised = {}
    BY DEF Init
<1> QED BY <1>1 DEF Claims, Claim, Putting, Cares, Cared

\* After a restart nobody is at work, and no path is promised.
LEMMA RestartKeeps ==
    ASSUME Restart
    PROVE  Claims' /\ Cares'
<1>1. pc' = [h \in Handlers |-> "idle"] /\ promised' = {}
    BY DEF Restart
<1> QED BY <1>1 DEF Claims, Claim, Putting, Cares, Cared

LEMMA NextWays == WayInv /\ [Next]_vars => Claims' /\ Cares'
<1> SUFFICES ASSUME WayInv, [Next]_vars PROVE Claims' /\ Cares'
    OBVIOUS
<1>1. CASE UNCHANGED vars
    <2>1. UNCHANGED <<pc, job, flows, records, promised, excused, link, away, queue>>
        BY <1>1 DEF vars, network, application, dictionaries, history
    <2>2. \A s, p : Spares(s, p)
        BY <2>1, NothingGone
    <2>3. \A p : Carrying(p) => Carrying(p)'
        BY <2>1, SameCarrying
    <2>4. \A s : Warned(s) => Warned(s)'
        BY <2>1 DEF Warned
    <2> QED BY <2>1, <2>2, <2>3, <2>4, OutsideKeeps DEF WayInv
<1>2. ASSUME NEW h \in Handlers, M6Step(h) \/ M6Fault(h)
      PROVE  Claims' /\ Cares'
    BY <1>2, GateKeeps, RouteKeeps, ExcusedKeeps, LookupKeeps, ReplacingKeeps, InstallOwnKeeps,
       RecordKeeps, EventKeeps, AnalyseKeeps, PlanningKeeps, CleaningKeeps, ClearingKeeps,
       PlanKeeps DEF M6Step, M6Fault
<1>3. CASE Next
    <2>1. CASE \/ \E l \in Wires \cap Frail : LinkFails(l) \/ LinkReturns(l)
               \/ \E d \in Switches \cap Frail : DeviceFails(d) \/ DeviceReturns(d)
        BY <2>1, NetworkKeeps DEF WayInv
    <2>2. CASE \/ PostFails \/ PostTimesOut \/ Expire
               \/ \E s \in Sessions : DuplicatePacketIn(s) \/ Deferred(s) \/ Tick(s)
        BY <2>2, OthersKeep DEF WayInv
    <2>3. ASSUME NEW h \in Handlers, Post(h) \/ \E s \in Sessions : PacketIn(h, s)
          PROVE  Claims' /\ Cares'
        BY <2>3, PostKeeps, PacketInKeeps
    <2>4. CASE Restart
        BY <2>4, RestartKeeps
    <2> QED BY <1>2, <1>3, <2>1, <2>2, <2>3, <2>4 DEF Next
<1> QED BY <1>1, <1>3

\* With nobody at work and no event on its way, nobody but ONOS minds a session.
LEMMA SettledIsWhole == Typed /\ TidyInv /\ Cares => NoBlackHole
<1> SUFFICES ASSUME Typed, TidyInv, Cares, Settled, NEW s \in promised \ excused
             PROVE  Whole(s)
    BY DEF NoBlackHole
<1>1. s \in Sessions /\ FlowsTyped
    BY DEF Typed, HistoryTyped
<1>2. \A h \in Handlers : pc[h] = "idle" /\ job[h].plan = {}
    BY DEF Settled, TidyInv, HandlersTidy, TidyAt, Quietly
<1>3. ~ToRecover(s) /\ ~Under(s, Going \cup {"record"})
    BY <1>2 DEF ToRecover, Under, Going, Opening
<1>4. ~Warned(s)
    BY <1>2 DEF Warned, Settled
<1>5. Firm(s)
    BY <1>1, <1>3, <1>4 DEF Cares, Cared, Minded
<1>6. Proper(s, records[s])
    BY <1>1, <1>5, PathsProper DEF Firm, Carrying
<1> QED BY <1>1, <1>5, <1>6, FirmIsWhole

\* Once M6 has dealt with all it was told, a session that a path was installed for since
\* M6 last started has a path that works, there and back, unless it is excused: no
\* interleaving of packet-ins, failures, recoveries and restarts (procesar_packet_in,
\* m6_traductor.py:2726, and procesar_failover_event, 4168, with the shared flows of
\* _instalar_t0_compartido, 2010) leaves a path recorded that ONOS does not have, whatever
\* the network, the sessions, the limit of a recovery (4000) and the handlers at work.
THEOREM NoBlackHoleHolds == Spec => []NoBlackHole
<1>1. Init => WayInv
    BY InitTyped, InitKnown, InitTidy, InitWays DEF WayInv
<1>2. WayInv /\ [Next]_vars => WayInv'
    BY NextTyped, NextKnown, NextTidy, NextWays DEF WayInv
<1>3. WayInv => NoBlackHole
    BY SettledIsWhole DEF WayInv
<1> QED BY <1>1, <1>2, <1>3, PTL DEF Spec
=============================================================================
