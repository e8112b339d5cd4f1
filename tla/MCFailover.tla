------------------------------ MODULE MCFailover ------------------------------
(* Instances of Failover for TLC: the users' switch, the servers' and two between. *)
EXTENDS Failover, TLC

CONSTANTS sw1, sw2, sw3, sw4, sw5, ana, eva, leo, vlan, course

Named == <<sw2, sw3, sw4, sw5>>
Cables == {{sw4, sw2}, {sw4, sw3}, {sw2, sw5}, {sw3, sw5}}
AllWires == {l \in Links : {l[1], l[2]} \in Cables}

\* With the switch in the core: there is a way around that is longer.
NamedAll == <<sw1, sw2, sw3, sw4, sw5>>
MoreWires == {l \in Links : {l[1], l[2]} \in Cables \cup {{sw1, sw2}, {sw1, sw3}}}

Session(host, table) ==
    [host |-> host, table |-> table, resource |-> vlan, server |-> course,
     entry |-> sw4, exit |-> sw5]

\* Two sessions of a role.
Two == {Session(ana, "T2"), Session(eva, "T2")}

OneLink == {<<sw4, sw2>>}
\* The two sessions are alike in all that a step reads: the one that Idle names is read
\* of no idle handler.
Symmetric == Permutations(Handlers) \cup Permutations({ana, eva})

\* One with an exception.
One == {Session(leo, "T3")}

\* A link the paths use, and its switch.
LinkAndSwitch == {<<sw2, sw5>>, sw2}
=============================================================================
