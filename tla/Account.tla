-------------------------------- MODULE Account --------------------------------
(* What concerns the account: changes to the router (CloudUpdates), the session  *)
(* they travel under (CloudSession), what the extension holds of it              *)
(* (ExtensionSession) and the connections they travel over (AddressWalk).  Each  *)
(* has the others' part as an outcome (a lapsed session, a lost answer), so they *)
(* share no state: `part` says which one a behaviour is of.                      *)
EXTENDS CloudUpdates

CONSTANTS
    Accounts, Reads, Changes,
    Callers,                                \* those of them that walk, or ask a worker
    Edges, Steady, Patience,                \* as in AddressWalk
    MaxIssued, MaxSignings, MaxUpsets, MaxWakes     \* bounds

VARIABLES part, store, cached, aged, sharing, ids, call, issued, floor, alive,
          signings, upsets, old, spoiled,
          edge, agents, good, last, walk,
          site, visits, stored, ours, rule, asked, waiting, wakes, sure

sessionVars == <<store, cached, aged, sharing, ids, call, issued, floor, alive,
                 signings, upsets, old, spoiled>>
walkVars    == <<edge, agents, good, last, walk>>
workerVars  == <<site, visits, stored, ours, rule, asked, waiting, wakes, sure>>
accountVars == <<part, vars, sessionVars, walkVars, workerVars>>

Session == INSTANCE CloudSession

Walk == INSTANCE AddressWalk WITH
            Calls <- Callers, Writes <- Callers \cap Changes, call <- walk

Worker == INSTANCE ExtensionSession WITH
              Requests <- Callers,
              signings <- visits, req <- asked, line <- waiting

ASSUME InstancesSuit ==
    UpdatesAssumption /\ Session!SessionAssumption /\ Walk!WalkAssumption /\ Worker!SessionAssumption

AccountInit ==
    /\ part \in {"updates", "session", "walk", "worker"}
    /\ Init /\ Session!Init /\ Walk!Init /\ Worker!Init

AccountNext ==
    /\ UNCHANGED part
    /\ \/ part = "updates" /\ Next /\ UNCHANGED <<sessionVars, walkVars, workerVars>>
       \/ part = "session" /\ Session!Next /\ UNCHANGED <<vars, walkVars, workerVars>>
       \/ part = "walk" /\ Walk!Next /\ UNCHANGED <<vars, sessionVars, workerVars>>
       \/ part = "worker" /\ Worker!Next /\ UNCHANGED <<vars, sessionVars, walkVars>>

(* No step that must be taken is enabled in a part that stands still.            *)
AccountFairness == Fairness /\ Session!Fairness

AccountSpec == AccountInit /\ [][AccountNext]_accountVars /\ AccountFairness

--------------------------------------------------------------------------------
(* CloudSession: what is remembered is of the account that is stored, unless a   *)
(* call begun under another came back after the change (forgetSession).          *)
CachesAreTheAccounts == Session!CachesAreTheAccounts

(* Calls are answered: every change asked for, those behind one that failed      *)
(* (deviceMutationTail) and those beside a read that hangs for ever (freshCookie:*)
(* bounded mutations use their own abortable refresh); over a token that upsets  *)
(* under a call, which is renewed (withFreshCookie); where an edge serves,       *)
(* unless time is up or a neighbour is in the way (resilientFetch); and, in the  *)
(* extension, under the session it connected, over reads begun before and a      *)
(* worker torn down since (loadOurCookie).                                       *)
CallsAreAnswered ==
    /\ EveryChangeIsAnswered /\ Session!ChangesEnd
    /\ Session!OneLapseHeals /\ Walk!AnsweredWhereAnEdgeServes
    /\ []Worker!ConnectedIsServed

(* AddressWalk: what is remembered is an address that served last                *)
(* (lastGoodAddress).                                                            *)
RememberedServedLast == Walk!RememberedServedLast
================================================================================
