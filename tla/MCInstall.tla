----------------------------- MODULE MCInstall -----------------------------
(***************************************************************************)
(* Instances of Install for TLC.  The server has an address, "ip", whose   *)
(* name is "name"; the server answers at its name and its port only.       *)
(***************************************************************************)
EXTENDS Install

mcHosts == {"ip", "name"}
mcLookupAddr == [h \in mcHosts |-> IF h = "ip" THEN {"name"} ELSE {}]
mcTyped == {Address("ip", NoPort), Address("name", DefaultPort)}
mcEndpoints == {Address("name", DefaultPort)}
=============================================================================
