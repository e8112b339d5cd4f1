------------------------------ MODULE MCSessions ------------------------------
(* Instances of Sessions for TLC. *)
EXTENDS Sessions, TLC

CONSTANTS t1, j1, j2, m1, m2, i1, i2, p1, p2

At(m, i, p) == [mac |-> m, ip |-> i, port |-> p]

OneHost == {At(m1, i1, p1)}

\* One machine, which may be plugged into another port.
PortMoves == {At(m1, i1, p1), At(m1, i1, p2)}

TwoHosts == {At(m1, i1, p1), At(m2, i2, p2)}

Anywhere == [p \in People |-> Hosts]

Symmetric == Permutations(Jobs)
=============================================================================
