------------------------------- MODULE MCAccount -------------------------------
(* Instances of Account for TLC.                                                 *)
EXTENDS Account

CONSTANTS pause, rename, dns, bypass, mesh1, mesh2, on, off, a1, a2, q1, q2, w,
          e1, e2

BlockOfSetting ==
    [s \in Settings |-> CASE s \in {pause, rename} -> "clients"
                          [] s \in {mesh1, mesh2} -> "mesh"
                          [] s = dns -> "dns"
                          [] s = bypass -> "bypass"]

(* Which account is stored at first tells nothing apart; one edge may do         *)
(* anything.  A part that stands still does so in one state.                     *)
MCInit ==
    /\ AccountInit
    /\ store # None => store.account = a1 /\ part = "session"
    /\ part # "walk" => edge[e2] = "serves"

(* Two calls at once: two reads, which share a refresh, or a read and a change.  *)
MCNext ==
    /\ AccountNext
    /\ call'[q2].stage = "idle" \/ call'[w].stage = "idle"

MCSpec == MCInit /\ [][MCNext]_accountVars /\ AccountFairness
================================================================================
