----------------------------- MODULE MCMitigations -----------------------------
(* Instances of Mitigations for TLC. *)
EXTENDS Mitigations, TLC

CONSTANTS t1, t2, i1, i2, fa, fb

Symmetric == Permutations(Threads)

\* Incident i1 is asked for twice, with a directive for two switches and with an alert
\* for one of them; the two incidents have fb in common.
DirectiveAndAlert == [i \in Incidents |-> IF i = i1 THEN {{fa, fb}, {fa}} ELSE {{fb}}]
=============================================================================
