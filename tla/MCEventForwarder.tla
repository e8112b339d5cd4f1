--------------------------- MODULE MCEventForwarder ---------------------------
(* Instances of EventForwarder for TLC. *)
EXTENDS EventForwarder

\* Of four lines the second is of no interest and the last is a copy of the first.
SomeWanted == Line \ {2}
SomeCopies == [n \in Line |-> IF n = 4 THEN 1 ELSE n]
=============================================================================
