----------------------------- MODULE AtomicUpdates -----------------------------
(* What the account promises of changes to the router, whatever lies between:    *)
(* the contract cloud/starlinkCloudHandler.ts keeps for updateClient and         *)
(* updateRouterConfig.                                                           *)
(*                                                                               *)
(* A change touches the one setting it names, and only between the asking and    *)
(* the answer; it may be carried out more than once in between, since every      *)
(* retry sets the same value.  It is answered done only once carried out.        *)
(* Changes to Queued settings are carried out and answered in the order asked.   *)
EXTENDS Naturals, Sequences

CONSTANTS
    Requests, Settings, Values,
    Queued,         \* the settings whose changes take turns
    Unconfirmed,    \* the settings whose change may destroy its own answer
    None

VARIABLES
    config,         \* config[s]: what the router holds
    wants,          \* wants[r]: the setting and value r asks for, None before
    line,           \* the requests for Queued settings not yet answered
    carried,        \* the requests carried out at least once
    answer          \* answer[r]: "done", "failed", None before

vars == <<config, wants, line, carried, answer>>

Pending(r) == wants[r] # None /\ answer[r] = None
InTurn(r)  == wants[r].setting \in Queued => Head(line) = r

Ask(r, s, v) ==
    /\ wants[r] = None
    /\ wants' = [wants EXCEPT ![r] = [setting |-> s, value |-> v]]
    /\ line' = IF s \in Queued THEN Append(line, r) ELSE line
    /\ UNCHANGED <<config, carried, answer>>

CarryOut(r) ==
    /\ Pending(r) /\ InTurn(r)
    /\ config' = [config EXCEPT ![wants[r].setting] = wants[r].value]
    /\ carried' = carried \cup {r}
    /\ UNCHANGED <<wants, line, answer>>

Answer(r, a) ==
    /\ Pending(r) /\ InTurn(r)
    /\ a = "done" => r \in carried \/ wants[r].setting \in Unconfirmed
    /\ answer' = [answer EXCEPT ![r] = a]
    /\ line' = IF wants[r].setting \in Queued THEN Tail(line) ELSE line
    /\ UNCHANGED <<config, wants, carried>>

Init ==
    /\ config \in [Settings -> {CHOOSE v \in Values : TRUE}]
    /\ wants = [r \in Requests |-> None] /\ answer = [r \in Requests |-> None]
    /\ line = <<>> /\ carried = {}

Next ==
    \E r \in Requests :
        \/ \E s \in Settings, v \in Values : Ask(r, s, v)
        \/ CarryOut(r)
        \/ \E a \in {"done", "failed"} : Answer(r, a)

Spec == Init /\ [][Next]_vars
================================================================================
