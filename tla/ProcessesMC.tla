---------------------------- MODULE ProcessesMC ----------------------------
(* Two instances that share a state directory; the processes of the first. *)
EXTENDS Processes

CONSTANTS eth0, eth1

Interfaces == {eth0, eth1}

Others == {eth1}
=============================================================================
