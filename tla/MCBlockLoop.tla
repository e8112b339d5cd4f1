----------------------------- MODULE MCBlockLoop ------------------------------
(* Instances of BlockLoop for TLC: one host and two events. *)
EXTENDS BlockLoop, TLC

CONSTANTS e1, e2, h1

OneHost   == {h1}
OneHostOf == [e \in Events |-> h1]
ShortTtl == [TEMP_BLOCK |-> 1, BLOCK |-> 2]
=============================================================================
