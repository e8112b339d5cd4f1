-------------------------- MODULE MCMonitoringTunnel --------------------------
(* Instances of MonitoringTunnel for TLC: the five switches of the deployment. *)
EXTENDS MonitoringTunnel, TLC

CONSTANTS sw1, sw2, sw3, sw4, sw5

Named == <<sw1, sw2, sw3, sw4, sw5>>
Cables == {{sw1, sw2}, {sw1, sw3}, {sw2, sw4}, {sw2, sw5}, {sw3, sw4}, {sw3, sw5}}
AllWires == {l \in Links : {l[1], l[2]} \in Cables}
Mirror == <<sw4, sw3, sw1>>

\* The fixed route from the users' switch to the monitoring machine, and the first stretch
\* of the other one, with its switch.
MayFail == {<<sw4, sw3>>, <<sw3, sw1>>, <<sw4, sw2>>, sw3, sw2}
Symmetric == Permutations(Handlers)
=============================================================================
