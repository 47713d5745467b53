----------------------------- MODULE RouterOrigins -----------------------------
(* Where a call to the router goes when its IPv4 address may be another box's:   *)
(* createRouterOrigins, in src/core/routerEndpoint.ts, over hosts that move      *)
(* between networks and an address that can be set by hand.                      *)
EXTENDS Naturals, Sequences, SequencesExt

CONSTANTS
    Networks,           \* each hands out one prefix: the router's address in it
    IPv4,               \* the address the router has where nothing has taken it
    SetAddress,         \* an address a person can set
    Callers,
    None

VARIABLES
    network,            \* the one this host is on
    configured,         \* readConfiguredAddress: SetAddress or None
    answers,            \* the origins the router answers at from here
    preferred,
    run                 \* run[c]: origins still to try, those it may, and see `steady`

vars == <<network, configured, answers, preferred, run>>

Origins == Networks \cup {IPv4, SetAddress}
OriginsAssumption == Networks \cap {IPv4, SetAddress, None} = {} /\ None # SetAddress

(* routerOriginsFrom: a configured address replaces the list.                    *)
RouterOriginsFrom(prefix, set) == IF set # None THEN <<set>> ELSE <<IPv4, prefix>>

(* [mutant] What is remembered goes first, wherever it was learned.              *)
RememberedAnyway(candidates) ==
    IF preferred = None THEN candidates
    ELSE <<preferred>> \o SelectSeq(candidates, LAMBDA o : o # preferred)

(* The remembered origin first, if it is one of these.                           *)
Ordered(candidates) ==
    IF preferred \in ToSet(candidates)
    THEN LET at == CHOOSE i \in 1..Len(candidates) : candidates[i] = preferred
         IN  <<preferred>> \o RemoveAt(candidates, at)
    ELSE candidates

(* steady: the origins of a call's list that have answered ever since it began.  *)
Rest == [left |-> <<>>, may |-> {}, steady |-> {}, missed |-> FALSE]

Begin(c) ==
    /\ run[c].left = <<>>
    /\ LET candidates == RouterOriginsFrom(network, configured) IN
       run' = [run EXCEPT ![c] = [left   |-> Ordered(candidates),
                                  may    |-> ToSet(candidates),
                                  steady |-> ToSet(candidates) \cap answers,
                                  missed |-> FALSE]]
    /\ UNCHANGED <<network, configured, answers, preferred>>

Answered(c) ==
    /\ run[c].left # <<>> /\ Head(run[c].left) \in answers
    /\ preferred' = Head(run[c].left)
    /\ run' = [run EXCEPT ![c] = Rest]
    /\ UNCHANGED <<network, configured, answers>>

(* The search ends, and the last failure is thrown, when none is left.           *)
LastTried(c) == Len(run[c].left) = 1

Fails(c) ==
    /\ run[c].left # <<>> /\ Head(run[c].left) \notin answers
    /\ preferred' = IF preferred = Head(run[c].left) THEN None ELSE preferred
    /\ run' = [run EXCEPT ![c] =
                 IF ~LastTried(c) THEN [run[c] EXCEPT !.left = Tail(@)]
                 ELSE IF run[c].steady = {} THEN Rest
                 ELSE [Rest EXCEPT !.missed = TRUE]]
    /\ UNCHANGED <<network, configured, answers>>

Reaches(now) ==
    /\ answers' = now
    /\ run' = [c \in Callers |-> [run[c] EXCEPT !.steady = @ \cap now]]
    /\ UNCHANGED preferred

(* The host is moved, or the router comes and goes.  SetAddress is where the     *)
(* router of the first network was found.                                        *)
Move ==
    /\ network' \in Networks
    /\ \E now \in SUBSET {IPv4, SetAddress, network'} : Reaches(now)
    /\ UNCHANGED configured

Configure ==
    /\ configured' \in {None, SetAddress}
    /\ UNCHANGED <<network, answers, preferred, run>>

Init ==
    /\ network \in Networks /\ configured = None /\ preferred = None
    /\ answers \in SUBSET {IPv4, network}
    /\ run = [c \in Callers |-> Rest]

Next ==
    \/ \E c \in Callers : Begin(c) \/ Answered(c) \/ Fails(c)
    \/ Move \/ Configure

Spec == Init /\ [][Next]_vars

--------------------------------------------------------------------------------
(* Whatever other calls learned meanwhile, and wherever: a call dials only what  *)
(* its own network and setting offer (routerOriginsFrom: trying it anyway would  *)
(* aim this app's traffic at a stranger's box), and fails only if no address of  *)
(* those answered all the while.                                                 *)
ReachedWhereItAnswers ==
    \A c \in Callers : ToSet(run[c].left) \subseteq run[c].may /\ ~run[c].missed
================================================================================
