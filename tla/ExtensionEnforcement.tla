-------------------------- MODULE ExtensionEnforcement --------------------------
(***************************************************************************)
(* The browser extension keeping the router's block in line with the       *)
(* rules: runMeters and settleDeviceBlocks of                              *)
(* extension/lib/meterEnforcement.ts, over what IndexedDB holds.           *)
(*                                                                         *)
(* It decides with the same functions as the desktop recorder, and lives   *)
(* differently.  Nothing is kept between ticks: a tick reads the rules and *)
(* the records, waits for the account on each write in turn, and only then *)
(* writes both back.  The dashboard's requests read and write the same     *)
(* rules, and the worker can be torn down at any wait.                     *)
(***************************************************************************)
EXTENDS DevicePause

CONSTANTS
    Routable,   \* devices whose key is a router id, so a write can name them
    Faults      \* what may go wrong, a subset of FaultKinds

FaultKinds ==
    {"refusedPause",     \* a pause is turned down, the device not being blocked
     "refusedRelease",   \* a release is turned down
     "droppedPause",     \* a pause is accepted and the router never told
     "lostReleaseReply", \* a release lands and its reply is an error or a timeout
     "handFree",         \* a person unpauses the device from the Starlink app
     "signOut",          \* a tick may find no account signed in
     "teardown",         \* the worker is torn down before a pause of its tick lands
     "lateTeardown",     \* the worker is torn down after that
     "editDuringTick"}   \* a request reads or writes the rules during a tick

ASSUME RoutableAreDevices == Routable \subseteq Devices
ASSUME FaultsAreKnown     == Faults \subseteq FaultKinds

VARIABLES
    stored,   \* the meter rules in IndexedDB: those that exist, those that
              \* enforce and those that hold their device, one value
    pauses,   \* the pause records in IndexedDB
    tick,     \* the tick under way: its stage, its own copies of both, the
              \* writes it still owes, the one it is waiting on, and whether
              \* a pause of its has landed
    edit,     \* the request under way: the rules it is going to write
    router,   \* what the router does with each device
    shown     \* what the router's roster says of each device

vars == <<stored, pauses, tick, edit, router, shown>>

RuleLists == [rules : SUBSET Rules, auto : SUBSET Rules, holding : SUBSET Rules]
NoRules   == [rules |-> {}, auto |-> {}, holding |-> {}]
NoRecords == [d \in Devices |-> Blank]

Waiting == [for : Devices, blocking : BOOLEAN, landed : BOOLEAN]
Ticks   == [stage : {"idle", "sending", "closing"}, list : RuleLists,
            pauses : [Devices -> DevicePauseRecord],
            toPause : SUBSET Devices, toRelease : SUBSET Devices,
            waiting : SUBSET Waiting, blocked : BOOLEAN]
Edits   == [busy : BOOLEAN, list : RuleLists]

Idle    == [stage |-> "idle", list |-> NoRules, pauses |-> NoRecords,
            toPause |-> {}, toRelease |-> {}, waiting |-> {}, blocked |-> FALSE]
NoEdit  == [busy |-> FALSE, list |-> NoRules]

Held(list, d) == DeviceHeld(list.holding, d)

Init ==
    /\ stored = NoRules /\ pauses = NoRecords
    /\ tick = Idle /\ edit = NoEdit
    /\ router = [d \in Devices |-> "free"]
    /\ shown  = [d \in Devices |-> "free"]

--------------------------------------------------------------------------------
(* The dashboard's requests: read the rules, then write them all back.        *)

Without(list, gone) ==
    [rules |-> list.rules \ gone, auto |-> list.auto \ gone, holding |-> list.holding \ gone]

\* POST sets, edits or restarts one rule; DELETE drops a rule, a group or all.
Edited(list, new) ==
    \/ \E r \in Rules :
          /\ new.rules = list.rules \cup {r}
          /\ new.auto \in {list.auto \cup {r}, list.auto \ {r}}
          /\ new.holding \in {list.holding \cup {r}, list.holding \ {r}}
    \/ \E gone \in SUBSET list.rules \ {{}} : new = Without(list, gone)

ReadForEdit ==
    /\ ~edit.busy
    /\ tick.stage = "idle" \/ "editDuringTick" \in Faults
    /\ \E new \in RuleLists :
          /\ Edited(stored, new)
          /\ edit' = [busy |-> TRUE, list |-> new]
    /\ UNCHANGED <<stored, pauses, tick, router, shown>>

WriteEdit ==
    /\ edit.busy
    /\ stored' = edit.list
    /\ edit' = NoEdit
    /\ UNCHANGED <<pauses, tick, router, shown>>

--------------------------------------------------------------------------------
(* A tick.                                                                   *)

RosterNoted(seen) ==
    LET landed == BlocksLanded(pauses, seen)
        byHand == ReleasedByHand(pauses, seen)
    IN  [d \in Devices |-> IF d \in landed THEN NoteBlockLanded(pauses[d])
                           ELSE IF d \in byHand THEN NoteReleasedByHand
                           ELSE pauses[d]]

\* The stamp put on a record before its write is sent.  A release is of a block,
\* so the record says "applied" and keeps having been seen; a pause starts over.
Stamped(p, blocking) ==
    [state |-> IF blocking THEN p.state ELSE "applied",
     attempted |-> IF blocking THEN "pause" ELSE "release", age |-> 0,
     confirmed |-> ~blocking /\ p.confirmed, overridden |-> FALSE]

\* How a write went.  Only a block that would not be released keeps its sighting.
Outcome(p, blocking, state) ==
    [state |-> state, attempted |-> IF blocking THEN "pause" ELSE "release", age |-> 0,
     confirmed |-> ~blocking /\ state = "applied" /\ p.confirmed, overridden |-> FALSE]

\* [mutant] A release that did not go through is recorded as one that did.
AfterFailureForgetful(blocking) == IF blocking THEN "failed" ELSE "none"

AfterFailure(blocking) == IF blocking THEN "failed" ELSE "applied"
AfterSuccess(blocking) == IF blocking THEN "applied" ELSE "none"

NoAccount(ps, toPause, toRelease) ==
    [d \in Devices |-> IF d \in toPause \cup toRelease
                       THEN Outcome(ps[d], d \in toPause, AfterFailure(d \in toPause))
                       ELSE ps[d]]

\* Both stores read, the roster gone through and what is owed worked out: nothing
\* is waited for in between that changes any of it.
BeginTickWith(nowHolding, seen, signedIn) ==
    LET ps        == ClearSettledOverrides(RosterNoted(seen), nowHolding)
        toPause   == PausesOwed(ps, nowHolding, stored.auto)
        toRelease == ReleasesOwed(ps, nowHolding)
    IN  /\ tick.stage = "idle"
        /\ ~edit.busy \/ "editDuringTick" \in Faults
        /\ tick' = [stage     |-> "sending",
                    list      |-> [stored EXCEPT !.holding = nowHolding],
                    pauses    |-> IF signedIn THEN ps ELSE NoAccount(ps, toPause, toRelease),
                    toPause   |-> IF signedIn THEN toPause ELSE {},
                    toRelease |-> IF signedIn THEN toRelease ELSE {},
                    waiting   |-> {}, blocked |-> FALSE]
        /\ UNCHANGED <<stored, pauses, edit, router, shown>>

\* A poll the router answered gives a device as its roster has it, or carries no
\* row for it; one that failed gives nothing.
Readings == {seen \in [Devices -> {"unasked", "free", "blocked"}] :
                \A d \in Devices : seen[d] \in {"unasked", shown[d]}}

BeginTick ==
    \E nowHolding \in SUBSET stored.rules, seen \in Readings,
       signedIn \in IF "signOut" \in Faults THEN BOOLEAN ELSE {TRUE} :
        BeginTickWith(nowHolding, seen, signedIn)

\* The next device a tick writes for: every pause, then every release.
Send(d) ==
    LET blocking == d \in tick.toPause
        p        == Stamped(tick.pauses[d], blocking)
    IN  /\ tick.stage = "sending" /\ tick.waiting = {}
        /\ d \in tick.toPause \/ (tick.toPause = {} /\ d \in tick.toRelease)
        /\ tick' = [tick EXCEPT
              !.toPause = @ \ {d},
              !.toRelease = IF blocking THEN @ ELSE @ \ {d},
              !.pauses[d] = IF d \in Routable \/ ~blocking THEN p
                            ELSE Outcome(p, TRUE, "failed"),
              !.waiting = IF d \in Routable
                          THEN {[for |-> d, blocking |-> blocking, landed |-> FALSE]} ELSE {}]
        /\ UNCHANGED <<stored, pauses, edit, router, shown>>

Land(w) ==
    /\ w \in tick.waiting /\ ~w.landed
    /\ shown[w.for] = router[w.for]
    /\ router' = [router EXCEPT ![w.for] = IF w.blocking THEN "blocked" ELSE "free"]
    /\ tick' = [tick EXCEPT !.waiting = {[w EXCEPT !.landed = TRUE]},
                            !.blocked = @ \/ w.blocking]
    /\ UNCHANGED <<stored, pauses, edit, shown>>

Answered(w, state) ==
    /\ tick' = [tick EXCEPT !.waiting = {},
                            !.pauses[w.for] = Outcome(@, w.blocking, state)]
    /\ UNCHANGED <<stored, pauses, edit, router, shown>>

ReplyOk(w) ==
    /\ w \in tick.waiting /\ w.landed
    /\ Answered(w, AfterSuccess(w.blocking))

Dropped(w) ==
    /\ w \in tick.waiting /\ ~w.landed
    /\ w.blocking /\ "droppedPause" \in Faults
    /\ Answered(w, "applied")

Refused(w) ==
    /\ w \in tick.waiting /\ ~w.landed
    /\ \/ w.blocking /\ router[w.for] = "free" /\ "refusedPause" \in Faults
       \/ ~w.blocking /\ "refusedRelease" \in Faults
    /\ Answered(w, AfterFailure(w.blocking))

ReplyLost(w) ==
    /\ w \in tick.waiting /\ w.landed
    /\ ~w.blocking /\ "lostReleaseReply" \in Faults
    /\ Answered(w, "applied")

\* Every write answered for, the tick writes back the rules it read ...
WriteRules ==
    /\ tick.stage = "sending" /\ tick.waiting = {}
    /\ tick.toPause = {} /\ tick.toRelease = {}
    /\ stored' = tick.list
    /\ tick' = [tick EXCEPT !.stage = "closing"]
    /\ UNCHANGED <<pauses, edit, router, shown>>

\* ... and then the records, without the ones that say nothing any more.
WritePauses ==
    /\ tick.stage = "closing"
    /\ pauses' = ForgetSettled(tick.pauses, tick.list.rules)
    /\ tick' = Idle
    /\ UNCHANGED <<stored, edit, router, shown>>

--------------------------------------------------------------------------------
(* The world.                                                               *)

RosterCatchesUp(d) ==
    /\ shown[d] # router[d]
    /\ shown' = [shown EXCEPT ![d] = router[d]]
    /\ UNCHANGED <<stored, pauses, tick, edit, router>>

HandFree(d) ==
    /\ "handFree" \in Faults
    /\ router[d] = "blocked" /\ shown[d] = "blocked"
    /\ router' = [router EXCEPT ![d] = "free"]
    /\ UNCHANGED <<stored, pauses, tick, edit, shown>>

\* The worker goes, and with it everything a tick or a request had in hand.
Teardown ==
    /\ "teardown" \in Faults
    /\ ~tick.blocked \/ "lateTeardown" \in Faults
    /\ tick.stage # "idle" \/ edit.busy
    /\ tick' = Idle /\ edit' = NoEdit
    /\ UNCHANGED <<stored, pauses, router, shown>>

\* The clock, between ticks: a tick is over before the next one is due.
Clock ==
    /\ tick.stage = "idle"
    /\ pauses' = [d \in Devices |-> Aged(pauses[d])]
    /\ UNCHANGED <<stored, tick, edit, router, shown>>

--------------------------------------------------------------------------------
Answer(w) == ReplyOk(w) \/ Dropped(w) \/ Refused(w) \/ ReplyLost(w)

Next ==
    \/ ReadForEdit \/ WriteEdit
    \/ BeginTick \/ WriteRules \/ WritePauses
    \/ \E d \in Devices : Send(d) \/ RosterCatchesUp(d) \/ HandFree(d)
    \/ \E w \in tick.waiting : Land(w) \/ Answer(w)
    \/ Teardown \/ Clock

Spec == Init /\ [][Next]_vars

(* The alarm wakes the worker again and again, the poll is answered again and    *)
(* again with an account signed in, and a device whose write the router keeps    *)
(* being offered takes one in the end (strong: attempts may fail first).  The    *)
(* worker is torn down any number of times and not for ever: under teardowns     *)
(* timed to cut short every tick that would have finished, nothing is enforced.  *)
(* (Closing a tick or a request that changes nothing looks the same as losing it *)
(* does, and may go on happening.)                                               *)
Fairness ==
    /\ <>[][Teardown => WritePauses \/ WriteEdit]_vars
    /\ WF_vars(WriteEdit) /\ WF_vars(WriteRules) /\ WF_vars(WritePauses) /\ SF_vars(Clock)
    /\ SF_vars(\E nowHolding \in SUBSET stored.rules : BeginTickWith(nowHolding, shown, TRUE))
    /\ \A d \in Devices :
          /\ WF_vars(Send(d)) /\ WF_vars(RosterCatchesUp(d))
          /\ SF_vars(\E w \in tick.waiting : w.for = d /\ Land(w))
          /\ SF_vars(\E w \in tick.waiting : w.for = d /\ ReplyOk(w))

FairSpec == Spec /\ Fairness

--------------------------------------------------------------------------------
(* Properties.                                                              *)

\* Every variable keeps its shape, and the rules in either store agree with
\* themselves: what enforces or holds is a rule that exists.
TypeOK ==
    /\ stored \in RuleLists /\ tick \in Ticks /\ edit \in Edits
    /\ pauses \in [Devices -> DevicePauseRecord]
    /\ router \in [Devices -> {"free", "blocked"}]
    /\ shown \in [Devices -> {"free", "blocked"}]
    /\ \A list \in {stored, tick.list, edit.list} :
          list.auto \subseteq list.rules /\ list.holding \subseteq list.rules

\* Between ticks, a device the router blocks has a record saying so: the only thing
\* that knows to free it, whatever became of each write of the ticks before.
BlockIsRemembered ==
    tick.stage = "idle" =>
        \A d \in Devices : router[d] = "blocked" => pauses[d].state = "applied"

\* A device no rule holds any more, and none takes hold of again, ends up free: the
\* tick lifts the block of a rule that was deleted, edited or restarted.
EventuallyFree ==
    \A d \in Devices : <>[]~Held(stored, d) => <>[](router[d] = "free")

\* A device an enforcing rule goes on holding is found blocked again and again, or
\* a person has overruled the block.
EventuallyBlocked ==
    \A d \in Devices :
        d \in Routable =>
            (<>[](d \in DevicesOwedPause(stored.holding, stored.auto))
                => []<>(router[d] = "blocked" \/ pauses[d].overridden))

\* A tick writes back the rules there are: one it read and that was deleted or
\* edited while it waited for the account does not come back as it was.
TickKeepsEdits == [][WriteRules => stored'.rules = stored.rules]_vars

================================================================================
