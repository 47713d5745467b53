----------------------------- MODULE CloudUpdates ------------------------------
(* Changes to the router through the account: updateClient and                   *)
(* updateRouterConfig of cloud/starlinkCloudHandler.ts, what they send built by  *)
(* core/routerClientUpdate.ts and core/routerConfigUpdate.ts, and carried by     *)
(* cloud/resilientFetch.ts over the addresses of the gateway.                    *)
(*                                                                               *)
(* The router merges by block: a write replaces the blocks it carries.  A        *)
(* client's or a mesh node's setting travels with its whole block, as read a     *)
(* moment before; any other is a block of its own and is sent unread.            *)
EXTENDS Naturals, Sequences

CONSTANTS
    MaxRequests,    \* bound
    Settings, Values, None,
    BlockOf,        \* BlockOf[s]: the block the router takes s with
    Queued,         \* client settings, whose changes take turns
    Severing,       \* subnet, bypass and factoryReset: cut off their own answer
    Persistent,     \* bypass, customDns and factoryReset: retriesWhenMissing
    Addresses,      \* how many addresses the gateway's name resolves to
    Late            \* whether a write given up on may still be carried out later

VARIABLES config, wants, line, carried, answer,    \* as in AtomicUpdates
    stage,          \* stage[r]: how far the request has got
    block,          \* block[r]: the block as read, with the change made
    left,           \* left[r]: addresses not yet tried
    healed,         \* requests that have been given a fresh session once
    resent,         \* requests built anew after the gateway missed the router
    stray           \* writes given up on and still under way (not the program's)

promised == <<config, wants, line, carried, answer>>
Requests == 1 .. MaxRequests
vars == <<promised, stage, block, left, healed, resent, stray>>

UpdatesAssumption ==
    /\ Queued \cup Severing \cup Persistent \subseteq Settings
    /\ Queued \cap (Severing \cup Persistent) = {}
    /\ \A s \in Settings, o \in Queued : BlockOf[s] = BlockOf[o] => s \in Queued
    /\ Addresses \in Nat \ {0} /\ Late \in BOOLEAN

Stages == {"unasked", "waiting", "resolving", "preparing", "writing", "sent", "taken",
           "pausing", "over"}
Setting(r) == wants[r].setting
SameBlock(s) == { o \in Settings : BlockOf[o] = BlockOf[s] }
To(r, to) == stage' = [stage EXCEPT ![r] = to]

--------------------------------------------------------------------------------

(* updateClient joins the queue, updateRouterConfig begins at once.              *)
Ask(r, s, v) ==
    /\ wants[r] = None /\ \A o \in 1 .. r - 1 : wants[o] # None
    /\ wants' = [wants EXCEPT ![r] = [setting |-> s, value |-> v]]
    /\ line' = IF s \in Queued THEN Append(line, r) ELSE line
    /\ To(r, IF s \in Queued THEN "waiting" ELSE "resolving")
    /\ UNCHANGED <<config, carried, answer, block, left, healed, resent, stray>>

(* [mutant] A change does not wait for those before it.                          *)
TurnOfAny(r) == TRUE

(* deviceMutationTail.                                                           *)
TurnOf(r) == Head(line) = r

Begin(r) ==
    /\ stage[r] = "waiting" /\ TurnOf(r)
    /\ To(r, "resolving")
    /\ UNCHANGED <<promised, block, left, healed, resent, stray>>

(* A session and the controller's id.                                            *)
Resolve(r) ==
    /\ stage[r] = "resolving"
    /\ To(r, "preparing")
    /\ UNCHANGED <<promised, block, left, healed, resent, stray>>

(* The smallest write the router takes: the block, with one setting changed.     *)
Prepared(r) ==
    [s \in SameBlock(Setting(r)) |-> IF s = Setting(r) THEN wants[r].value ELSE config[s]]

Prepare(r) ==
    /\ stage[r] = "preparing"
    /\ block' = [block EXCEPT ![r] = Prepared(r)]
    /\ left' = [left EXCEPT ![r] = Addresses]
    /\ To(r, "writing")
    /\ UNCHANGED <<promised, healed, resent, stray>>

Send(r) ==
    /\ stage[r] = "writing" /\ left[r] > 0
    /\ left' = [left EXCEPT ![r] = @ - 1]
    /\ To(r, "sent")
    /\ UNCHANGED <<promised, block, healed, resent, stray>>

--------------------------------------------------------------------------------
(* The router and the network between (external).                                *)

Carries(written) ==
    [s \in Settings |-> IF s \in DOMAIN written THEN written[s] ELSE config[s]]

(* The router takes the write; its answer is then on the way.                    *)
Arrive(r) ==
    /\ stage[r] = "sent"
    /\ config' = Carries(block[r])
    /\ carried' = carried \cup {r}
    /\ To(r, "taken")
    /\ UNCHANGED <<wants, line, answer, block, left, healed, resent, stray>>

(* One given up on unanswered may be carried out yet.                            *)
GivenUp(r) == IF Late /\ stage[r] = "sent" THEN {block[r]} ELSE {}

StrayArrives ==
    \E written \in stray :
        /\ config' = Carries(written)
        /\ stray' = stray \ {written}
        /\ UNCHANGED <<wants, line, carried, answer, stage, block, left, healed, resent>>

--------------------------------------------------------------------------------
(* Answers.                                                                      *)

LineAfter(r, a) == IF Setting(r) \in Queued THEN Tail(line) ELSE line

Over(r, a) ==
    /\ answer' = [answer EXCEPT ![r] = a]
    /\ line' = LineAfter(r, a)
    /\ To(r, "over")
    /\ block' = [block EXCEPT ![r] = None] /\ left' = [left EXCEPT ![r] = 0]
    /\ healed' = healed \ {r} /\ resent' = resent \ {r}
    /\ UNCHANGED <<config, wants, carried>>

Answered(r) ==
    /\ stage[r] = "taken"
    /\ Over(r, "done")
    /\ UNCHANGED stray

(* No session, no controller, nothing to prepare from, or refused outright.      *)
Refused(r) ==
    /\ stage[r] \in {"resolving", "preparing", "sent"}
    /\ Over(r, "failed")
    /\ UNCHANGED stray

(* withFreshCookie: a session that had lapsed is renewed once, and everything    *)
(* after it done again.                                                          *)
Lapsed(r) ==
    /\ stage[r] \in {"resolving", "preparing", "sent"} /\ r \notin healed
    /\ healed' = healed \cup {r}
    /\ To(r, "resolving")
    /\ UNCHANGED <<promised, block, left, resent, stray>>

(* The gateway has no line to the router: some are built anew, a while later.    *)
Missing(r) ==
    /\ stage[r] = "sent" /\ Setting(r) \in Persistent /\ r \notin resent
    /\ resent' = resent \cup {r}
    /\ To(r, "pausing")
    /\ UNCHANGED <<promised, block, left, healed, stray>>

Resume(r) ==
    /\ stage[r] = "pausing"
    /\ To(r, "resolving")
    /\ healed' = healed \ {r}
    /\ UNCHANGED <<promised, block, left, resent, stray>>

(* seversItsOwnReply.                                                            *)
VerdictOnLoss(r) == IF Setting(r) \in Severing THEN "done" ELSE "failed"

(* The connection fails or the attempt's time is up, before the router took the  *)
(* write or after: the next address is tried.                                    *)
Lost(r) ==
    /\ stage[r] \in {"sent", "taken"}
    /\ stray' = stray \cup GivenUp(r)
    /\ IF left[r] > 0
       THEN To(r, "writing") /\ UNCHANGED <<promised, block, left, healed, resent>>
       ELSE Over(r, VerdictOnLoss(r))

(* The deadline over all of it, or over the preamble and the dispatch apart.     *)
Deadline(r) ==
    /\ stage[r] \notin {"unasked", "waiting", "pausing", "over"}
    /\ stray' = stray \cup GivenUp(r)
    /\ Over(r, IF stage[r] \in {"resolving", "preparing"} THEN "failed" ELSE VerdictOnLoss(r))

--------------------------------------------------------------------------------

Init ==
    /\ config \in [Settings -> {CHOOSE v \in Values : TRUE}]
    /\ wants = [r \in Requests |-> None] /\ answer = [r \in Requests |-> None]
    /\ line = <<>> /\ carried = {}
    /\ stage = [r \in Requests |-> "unasked"]
    /\ block = [r \in Requests |-> None] /\ left = [r \in Requests |-> 0]
    /\ healed = {} /\ resent = {} /\ stray = {}

Step(r) ==
    \/ Begin(r) \/ Resolve(r) \/ Prepare(r) \/ Send(r)
    \/ Answered(r) \/ Refused(r) \/ Lapsed(r) \/ Missing(r) \/ Resume(r) \/ Lost(r) \/ Deadline(r)

Next ==
    \/ \E r \in Requests :
          \/ \E s \in Settings, v \in Values : Ask(r, s, v)
          \/ Step(r) \/ Arrive(r)
    \/ StrayArrives

Spec == Init /\ [][Next]_vars

(* Timers fire: the deadlines end what nobody answers.                           *)
Fairness == \A r \in Requests : WF_vars(Step(r))

--------------------------------------------------------------------------------
(* Stages and blocks are what the code can hold of them.                         *)
TypeOK ==
    /\ config \in [Settings -> Values]
    /\ stage \in [Requests -> Stages]
    /\ \A r \in Requests :
          /\ left[r] \in 0 .. Addresses
          /\ block[r] # None => block[r] \in [SameBlock(Setting(r)) -> Values]
    /\ healed \cup resent \cup carried \subseteq Requests
    /\ \A written \in stray : \E s \in Settings : written \in [SameBlock(s) -> Values]

(* The account keeps the promise: with answers lost, writes retried at other     *)
(* addresses, sessions renewed and deadlines passing, each change touches its    *)
(* own setting and none another client was given meanwhile, in the order asked,  *)
(* and is answered done only if made (updateClient, deviceMutationTail,          *)
(* withFreshCookie, sendTo).                                                     *)
Promise == INSTANCE AtomicUpdates WITH Unconfirmed <- Severing
KeepsThePromise == Promise!Spec

(* No setting moves but to what a request still unanswered asks of it: two       *)
(* changes in flight never undo each other (routerConfigUpdate.ts of its         *)
(* updates, updateClient of client updates).                                     *)
ChangesKeepEachOther ==
    [][\A s \in Settings :
          config'[s] # config[s]
          => \E r \in Requests : answer[r] = None /\ wants[r] = [setting |-> s, value |-> config'[s]]
      ]_vars

(* Every change is answered, those behind one that failed included               *)
(* (deviceMutationTail).                                                         *)
EveryChangeIsAnswered ==
    \A r \in Requests : wants[r] # None ~> answer[r] # None
================================================================================
