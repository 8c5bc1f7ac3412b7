---------------------------- MODULE MCDiscovery ----------------------------
(***************************************************************************)
(* Two LANs, 0 .. 3 and 4 .. 7; loopback addresses from 12 on; 15 is the   *)
(* limited broadcast.  A server that listens on all addresses of the       *)
(* gateway, which is on both LANs and lists the one the desk is not on     *)
(* first.  Two calls from the desk share a port: the first is for another  *)
(* service, the second also probes the gateway's other address.  A server  *)
(* hears up to three probes of a call, so that it is found several times.  *)
(***************************************************************************)
EXTENDS Discovery, TLC

CONSTANTS gateway, desk, srv1, call1, call2

MCHosts == {gateway, desk}
Lo == Iface(12, 2)
MCIfaces == (gateway :> <<Lo, Iface(5, 4), Iface(1, 4)>>) @@ (desk :> <<Iface(0, 4), Lo>>)
MCService == (srv1 :> "tpm") @@ (call1 :> "other") @@ (call2 :> "tpm")
MCHome == [p \in Servers \cup Clients |-> IF p = srv1 THEN gateway ELSE desk]
MCProbeAddrs == [c \in Clients |-> IF c = call2 THEN {5} ELSE {}]
MCBind == [s \in Servers |-> Wildcard]
=============================================================================
