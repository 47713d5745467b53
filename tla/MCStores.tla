-------------------------------- MODULE MCStores --------------------------------
(* An instance of Stores for TLC.                                               *)
EXTENDS Stores, TLC

CONSTANTS ida, idb, idc, macm, macn, hash, g1, d1, d2

Terms(bytes, cycleName, sitting) ==
    [allocation |-> bytes, cycle |-> cycleName, countdown |-> sitting, schedule |-> None]

PooledTerms == {Terms(2, "daily", None), Terms(2, "once", 1)}
SingleTerms == {Terms(1, "daily", None)}

(* Three identities on two addresses: two share the first, two carry the         *)
(* router's hash.                                                                *)
ThreeIds    == {ida, idb, idc}
MacOfThree  == ida :> macm @@ idb :> macm @@ idc :> macn
HashOfThree == ida :> hash @@ idb :> None @@ idc :> hash

(* The extension that sees the two identities of one address and is asked        *)
(* things; the recorder that sees them, restarts and seeds; a host that sees all *)
(* three, and no traffic; and one of a single device, told of it late.           *)
HostOf(seen, atStart, bytes, repeats, asks, restart) ==
    [ids |-> seen, seeds |-> atStart, maxSent |-> bytes, maxAgain |-> repeats,
     maxRequests |-> asks, maxStarts |-> restart]

QuietHost == HostOf(ThreeIds, FALSE, 0, 0, 2, 0)

FourHosts == { HostOf({ida, idb}, FALSE, 2, 0, 2, 0), HostOf({ida, idb}, TRUE, 2, 0, 0, 1),
               QuietHost, HostOf({ida}, FALSE, 3, 1, 1, 0) }

(* StoresSpec; which host it is matters to the odometers alone.                  *)
Init == /\ part \in Parts /\ StoresInit
        /\ part = "totals" \/ host = QuietHost

Next == UNCHANGED part /\ StoresNext

Spec == Init /\ [][Next]_storesVars
================================================================================
