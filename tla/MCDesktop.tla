------------------------------- MODULE MCDesktop -------------------------------
(* An instance of Desktop for TLC.                                               *)
EXTENDS Desktop

CONSTANTS v1, v2, n1, n2, ipv4, setByHand, c1, c2, s1, s2

ThreeEdges == <<1, 3, 5>>

(* A part that stands still does so in one state.                                *)
MCInit ==
    /\ DesktopInit
    /\ part # "readout" => on
    /\ part # "alerts" => window = "none" /\ wanted
    /\ part # "store" => connected
    /\ part # "router" => network = n1 /\ answers = {}
    /\ part # "login" => jar = "none"
    /\ part # "sources" => lan = "silent" /\ account = "silent" /\ loads

MCSpec == MCInit /\ [][DesktopNext]_desktopVars /\ DesktopFairness
================================================================================
