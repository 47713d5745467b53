------------------------------ MODULE AddressWalk ------------------------------
(* Calls to a hostname several edges answer for, some of which do not:           *)
(* resilientFetch, in src/cloud/resilientFetch.ts.  A read races every address,  *)
(* a write walks them; the address that served is remembered, and each has one   *)
(* pool of connections that all calls share.                                     *)
EXTENDS Naturals

CONSTANTS
    Edges,              \* the addresses behind the hostname
    Steady,             \* those among them that always serve
    Calls, Writes,      \* who calls; those whose calls are writes
    None,
    Patience            \* silent attempts that fill the walk: WALK_TIMEOUT_MS

VARIABLES
    edge,               \* edge[a]: "serves", "resets" or "silent"
    agents,             \* addresses with a pool
    good,               \* lastGoodAddress
    last,               \* last[a]: whether the last attempt to end there was served
    call                \* see Idle

vars == <<edge, agents, good, last, call>>

WalkAssumption ==
    /\ Steady \subseteq Edges /\ Writes \subseteq Calls
    /\ None \notin Edges /\ Patience \in Nat \ {0}

Idle == [stage  |-> "idle",
         at     |-> {},     \* addresses with an attempt of it out
         torn   |-> {},     \* those whose pool was destroyed under the attempt
         left   |-> {},     \* addresses the walk has yet to try
         tried  |-> None,   \* the remembered address, once it failed
         silent |-> 0,      \* silent attempts of the walk so far
         met    |-> {}]     \* how its attempts have failed

Under  == {"pinned", "resolving", "plain", "walking", "racing"}
Ends   == {"answered", "failed", "thrown", "aborted"}
EndOf(stage, met) == [Idle EXCEPT !.stage = stage, !.met = met]

(* [mutant] A deadline's DOMException carries a numeric code, and is not seen.   *)
CodedFaults == {"resets"}

(* isConnectionFailure, isTimeout: the faults that are the address's.  The error *)
(* of an attempt whose pool was destroyed is not among them.                     *)
AddressFaults == {"resets", "silent"}
FaultAt(c, a) == IF a \in call[c].torn THEN "torn" ELSE edge[a]

(* [mutant] The pool goes and the memory stays.                                  *)
ForgetPool(pins, fresh, next) ==
    /\ agents' = (agents \ pins) \cup fresh /\ good' = good
    /\ call' = [c \in Calls |-> [next[c] EXCEPT !.torn = @ \cup (pins \cap next[c].at)]]

(* forgetPin of these addresses, where the calls go on as `next` and open pools  *)
(* at `fresh`: a pool is destroyed under whoever is using it.                    *)
Forget(pins, fresh, next) ==
    /\ agents' = (agents \ pins) \cup fresh
    /\ good' = IF good \in pins \cap agents THEN None ELSE good
    /\ call' = [c \in Calls |-> [next[c] EXCEPT !.torn = @ \cup (pins \cap next[c].at)]]

(* A failure thrown out of sendTo, after these pins went: a fault of the         *)
(* transport condemns all the host's pools (forgetHost).                         *)
Throw(c, stage, fault, met, pins) ==
    Forget(IF fault \in AddressFaults THEN Edges ELSE pins, {},
           [call EXCEPT ![c] = EndOf(stage, met)])
Fail(c, fault, met, pins) ==
    Throw(c, IF fault \in AddressFaults THEN "failed" ELSE "thrown", fault, met, pins)

--------------------------------------------------------------------------------
(* The remembered address first, if it is not too old (rememberedAddress).       *)
Begin(c) ==
    /\ call[c].stage \in Ends \cup {"idle"}
    /\ \/ /\ good # None
          /\ call' = [call EXCEPT ![c] = [Idle EXCEPT !.stage = "pinned", !.at = {good}]]
          /\ agents' = agents \cup {good} /\ UNCHANGED good
       \/ /\ call' = [call EXCEPT ![c] = [Idle EXCEPT !.stage = "resolving"]]
          /\ good' = None /\ UNCHANGED agents
    /\ UNCHANGED <<edge, last>>

PinnedFails(c) ==
    /\ call[c].stage = "pinned"
    /\ \E a \in call[c].at : LET fault == FaultAt(c, a) IN
        /\ fault # "serves"
        /\ IF fault \in AddressFaults
           THEN /\ Forget({a}, {}, [call EXCEPT ![c] = [Idle EXCEPT
                        !.stage = "resolving", !.tried = a, !.met = {fault}]])
                /\ last' = [last EXCEPT ![a] = FALSE]
           ELSE Fail(c, fault, {fault}, {}) /\ UNCHANGED last
    /\ UNCHANGED edge

(* addressesFor, which finds all of them or none.  With none to choose from this *)
(* is an ordinary request.                                                       *)
Resolve(c) ==
    /\ call[c].stage = "resolving"
    /\ \E found \in {Edges \ {call[c].tried}, {}} :
        \/ /\ found = {}
           /\ call' = [call EXCEPT ![c].stage = "plain"] /\ UNCHANGED agents
        \/ /\ found # {} /\ c \notin Writes
           /\ call' = [call EXCEPT ![c].stage = "racing", ![c].at = found]
           /\ agents' = agents \cup found
        \/ /\ c \in Writes
           /\ \E a \in found :
                /\ call' = [call EXCEPT ![c].stage = "walking", ![c].at = {a},
                                        ![c].left = found \ {a}]
                /\ agents' = agents \cup {a}
    /\ UNCHANGED <<edge, good, last>>

PlainEnds(c) ==
    /\ call[c].stage = "plain"
    /\ \E a \in Edges :
        IF edge[a] = "serves"
        THEN call' = [call EXCEPT ![c] = EndOf("answered", {})] /\ UNCHANGED <<agents, good>>
        ELSE Fail(c, edge[a], {edge[a]}, {})
    /\ UNCHANGED <<edge, last>>

(* An attempt is answered.  The others of a race are abandoned, which says       *)
(* nothing of their addresses.                                                   *)
Served(c) ==
    /\ \E a \in call[c].at \ call[c].torn :
        /\ edge[a] = "serves"
        /\ last' = [last EXCEPT ![a] = TRUE]
        /\ good' = IF call[c].stage = "pinned" THEN good ELSE a
    /\ call' = [call EXCEPT ![c] = EndOf("answered", {})]
    /\ UNCHANGED <<edge, agents>>

WalkFails(c) ==
    /\ call[c].stage = "walking"
    /\ \E a \in call[c].at :
        LET fault  == FaultAt(c, a)
            silent == call[c].silent + (IF fault = "silent" THEN 1 ELSE 0)
        IN  /\ fault # "serves"
            /\ last' = IF fault = "torn" THEN last ELSE [last EXCEPT ![a] = FALSE]
            /\ IF fault \notin AddressFaults \/ call[c].left = {} \/ silent = Patience
               THEN Fail(c, fault, call[c].met \cup {fault}, {a})
               ELSE \E b \in call[c].left :
                    Forget({a}, {b}, [call EXCEPT ![c] = [call[c] EXCEPT
                        !.at = {b}, !.torn = {}, !.left = @ \ {b},
                        !.silent = silent, !.met = @ \cup {fault}]])
    /\ UNCHANGED edge

(* One of a race fails; when all have, one of their errors is thrown.            *)
RaceFails(c) ==
    /\ call[c].stage = "racing"
    /\ \E a \in call[c].at : LET fault == FaultAt(c, a) IN
        /\ fault # "serves"
        /\ last' = IF fault = "torn" THEN last ELSE [last EXCEPT ![a] = FALSE]
        /\ IF call[c].at # {a}
           THEN Forget({a}, {}, [call EXCEPT ![c] = [call[c] EXCEPT
                    !.at = @ \ {a}, !.torn = @ \ {a}, !.met = @ \cup {fault}]])
           ELSE LET met == call[c].met \cup {fault}
                IN  \E thrown \in met : Fail(c, thrown, met, {a})
    /\ UNCHANGED edge

(* The caller gives up, at its own deadline or for a reason of its own.  An      *)
(* aborted race forgets every address it is still waiting for.                   *)
Abort(c) ==
    /\ call[c].stage \in Under
    /\ \E fault \in {"silent", "aborted"} :
        Throw(c, "aborted", fault, call[c].met,
              IF call[c].stage = "racing" THEN call[c].at ELSE {})
    /\ UNCHANGED <<edge, last>>

(* Routes break, fall silent and come back.                                      *)
Shift ==
    /\ \E a \in Edges \ Steady, now \in {"serves", "resets", "silent"} :
            edge' = [edge EXCEPT ![a] = now]
    /\ UNCHANGED <<agents, good, last, call>>

Init ==
    /\ edge \in [Edges -> {"serves", "resets", "silent"}]
    /\ \A a \in Steady : edge[a] = "serves"
    /\ agents = {} /\ good = None
    /\ last = [a \in Edges |-> FALSE]
    /\ call = [c \in Calls |-> Idle]

Next ==
    \/ \E c \in Calls :
        \/ Begin(c) \/ PinnedFails(c) \/ Resolve(c) \/ PlainEnds(c) \/ Served(c)
        \/ WalkFails(c) \/ RaceFails(c) \/ Abort(c)
    \/ Shift

Spec == Init /\ [][Next]_vars

--------------------------------------------------------------------------------
(* Where an edge serves throughout, a call that its caller did not give up fails *)
(* only if the name did not resolve, the walk was spent on silent edges, or a    *)
(* neighbour destroyed the pool it was using (resilientFetch: the other          *)
(* addresses are tried when one edge will not serve).                            *)
AnsweredWhereAnEdgeServes ==
    [][\A c \in Calls :
        /\ call[c].stage \in {"pinned", "walking", "racing"}
        /\ call'[c].stage \in {"failed", "thrown"}
        => \/ /\ call[c].stage = "walking" /\ call[c].silent + 1 = Patience
              /\ "silent" \in call'[c].met
           \/ "torn" \in call'[c].met]_vars

(* The address remembered is one whose last attempt to end was served, whichever *)
(* of the calls made it and in whatever order they ended.                        *)
RememberedServedLast == good # None => last[good]

(* No call fails for what another met: violated, as a neighbour's failure        *)
(* destroys the pools of the host under everybody.                               *)
FailsForItsOwnReasons == \A c \in Calls : "torn" \notin call[c].met
================================================================================
