----------------------------- MODULE MCPermissions -----------------------------
(* Instances of Permissions for TLC.                                           *)
EXTENDS Permissions

CONSTANTS t1, t2, a1, telecom, info, grades

\* "acceso revocado por directiva": a denial that expires.
Directive == {[res |-> telecom, allow |-> FALSE, expires |-> 1, by |-> NoRequest]}

\* The table of the code gives a student of informatics the grades too.
OfInformatics == {info, grades}

\* The resource every application is about.
AppliedFor == {grades}
=============================================================================
