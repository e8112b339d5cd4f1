------------------------------- MODULE Topology -------------------------------
(***************************************************************************)
(* How M6 finds its ways through the network: a breadth-first search over  *)
(* the directed links ONOS lists, which looks at the neighbours of a       *)
(* switch in the order of their names.  There is one link from a switch to *)
(* another, so that a port is known by the neighbour it leads to.          *)
(***************************************************************************)
EXTENDS Integers, Sequences, FiniteSets

CONSTANTS
    Switches,
    Order,          \* the switches as sorted() sorts their names
    Outside         \* a port that leads to no switch: to a host, or a server

ASSUME TopologyConstants ==
    /\ Order \in Seq(Switches)
    /\ \A d \in Switches : \E i \in 1..Len(Order) : Order[i] = d
    /\ \A i, k \in 1..Len(Order) : Order[i] = Order[k] => i = k
    /\ Outside \notin Switches

Links == {l \in Switches \X Switches : l[1] # l[2]}

-----------------------------------------------------------------------------
(***************************************************************************)
(* The search of calcular_pasos, calcular_pasos_con_fallas and of the      *)
(* tunnel's route: a queue of paths, the switches seen, the path found.    *)
(***************************************************************************)
Members(s) == {s[i] : i \in 1..Len(s)}

Start(src) == [queue |-> <<<<src>>>>, visited |-> {src}, found |-> <<>>]

\* sorted(): the switches of a set, in the order of their names.
Sorted == [S \in SUBSET Switches |->
    LET among[i \in 0..Len(Order)] ==      \* the first i switches there are
            IF i = 0 THEN <<>>
            ELSE IF Order[i] \in S THEN Append(among[i - 1], Order[i]) ELSE among[i - 1]
    IN among[Len(Order)]]

Neighbours(links, d) == {n \in Switches : <<d, n>> \in links}

\* Mutated form of NewNeighbours: as ONOS happens to list them.
NewNeighboursUnsorted(links, path, visited) ==
    LET new == Sorted[Neighbours(links, path[Len(path)]) \ visited]
    IN [i \in 1..Len(new) |-> new[Len(new) + 1 - i]]

\* The neighbours of the last switch of a path not seen before, in their order.
NewNeighbours(links, path, visited) == Sorted[Neighbours(links, path[Len(path)]) \ visited]

\* One round of the loop: the first path of the queue.
Expand(links, dst, b) ==
    LET here == b.queue[1]
        new == NewNeighbours(links, here, b.visited)
    IN IF dst \in Members(new)
       THEN [b EXCEPT !.found = Append(here, dst)]
       ELSE [queue |-> Tail(b.queue) \o [i \in 1..Len(new) |-> Append(here, new[i])],
             visited |-> b.visited \cup Members(new),
             found |-> <<>>]

\* The loop ends when the path is found or the queue is empty.
After(links, dst, b) ==
    IF b.found # <<>> \/ b.queue = <<>> THEN b ELSE Expand(links, dst, b)

\* The path the search returns: empty when there is none.  Each round takes a path
\* off the queue, and no more paths than switches ever get there.  (Each round is
\* bound in a set: TLC then evaluates it once.)
Path(links, src, dst) ==
    LET round[n \in Nat] == IF n = 0 THEN Start(src)
                            ELSE CHOOSE a \in {After(links, dst, b) : b \in {round[n - 1]}} : TRUE
    IN IF src = dst THEN <<src>> ELSE round[Cardinality(Switches)].found

\* The links that remain when devices and links are taken for failed: all that
\* touch a failed device or a port of a failed link, whatever its direction.
Ends(links) == links \cup {<<l[2], l[1]>> : l \in links}
Remaining(links, devices, failed) ==
    {l \in links : /\ l[1] \notin devices /\ l[2] \notin devices
                   /\ l \notin Ends(failed)}

-----------------------------------------------------------------------------
(***************************************************************************)
(* A path as steps: at a switch, in by a port and out by another.          *)
(***************************************************************************)
InPort(path, i) == IF i = 1 THEN Outside ELSE path[i - 1]
OutPort(path, i) == IF i = Len(path) THEN Outside ELSE path[i + 1]

\* _path_usa_falla
UsesFailure(path, devices, failed) ==
    \E i \in 1..Len(path) :
        \/ path[i] \in devices
        \/ <<path[i], InPort(path, i)>> \in Ends(failed)
        \/ <<path[i], OutPort(path, i)>> \in Ends(failed)

-----------------------------------------------------------------------------
(***************************************************************************)
(* What a path must be, whatever the search: over links that are there, as *)
(* short as any, and the first of the shortest in the order of the names.  *)
(***************************************************************************)
IsPath(links, path, src, dst) ==
    /\ Len(path) > 0 /\ path[1] = src /\ path[Len(path)] = dst
    /\ \A i \in 1..Len(path) - 1 : <<path[i], path[i + 1]>> \in links

Rank(d) == CHOOSE i \in 1..Len(Order) : Order[i] = d

Before(p, q) ==
    \E i \in 1..Len(p) :
        /\ Rank(p[i]) < Rank(q[i])
        /\ \A k \in 1..i - 1 : p[k] = q[k]

\* All the paths of a length; a shortest path visits no switch twice.
PathsOf(links, src, dst, n) == {p \in [1..n -> Switches] : IsPath(links, p, src, dst)}

Best(links, src, dst, path) ==
    IF path = <<>>
    THEN \A n \in 1..Cardinality(Switches) : PathsOf(links, src, dst, n) = {}
    ELSE /\ IsPath(links, path, src, dst)
         /\ \A n \in 1..Len(path) - 1 : PathsOf(links, src, dst, n) = {}
         /\ \A q \in PathsOf(links, src, dst, Len(path)) : q = path \/ Before(path, q)
=============================================================================
