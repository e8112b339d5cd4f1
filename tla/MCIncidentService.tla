--------------------------- MODULE MCIncidentService ---------------------------
(* Instances of IncidentService for TLC: one host and a few events. *)
EXTENDS IncidentService

CONSTANTS e1, e2, e3, h1

OneHost   == {h1}
OneHostOf == [e \in Events |-> h1]

\* A temporary block ends before a long one, as 600 s does before 3600 s.
ShortTtl == [TEMP_BLOCK |-> 1, BLOCK |-> 2]
=============================================================================
