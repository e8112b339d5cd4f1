------------------------------- MODULE MCLogins -------------------------------
(* Instances of Logins for TLC. *)
EXTENDS Logins, TLC

CONSTANTS t1, t2, m1, m2, i1, i2, p1, p2

At(m, i, p) == [mac |-> m, ip |-> i, port |-> p]

\* Two machines, the second of which may come to have the address of the first.
AddressMoves == {At(m1, i1, p1), At(m2, i2, p2), At(m2, i1, p2)}

\* Users log in from both, and visitors from those that share the address.
Shared == [p \in People |-> {At(m1, i1, p1),
                             IF p \in Users THEN At(m2, i2, p2) ELSE At(m2, i1, p2)}]

Symmetric == Permutations(Threads)
=============================================================================
