---------------------------- MODULE BlockEnforcement ----------------------------
(***************************************************************************)
(* The desktop recorder keeping the router's block in line with the rules: *)
(* runMeters, settleDeviceBlocks and sendMeterPause of                     *)
(* collector/historian.mts over the records of collector/meterStore.mts.   *)
(*                                                                         *)
(* Every action is one run-to-completion turn of the recorder's event loop *)
(* or one step of the world it does not control: the account's gateway,    *)
(* the router, its roster, a person with the Starlink app.  What makes a   *)
(* rule hold its device (allowance, countdown, timetable) is another       *)
(* module's business; here any poll may find any rule holding or not.      *)
(***************************************************************************)
EXTENDS DevicePause, Sequences

CONSTANTS
    Routable,   \* devices whose key is a router id, so a write can name them
    Faults,     \* what may go wrong in the world, a subset of FaultKinds
    MaxWrites,  \* bound: the clock stands while a device has this many writes out
    MaxBehind   \* bound: how many changes the router's roster may have yet to show

FaultKinds ==
    {"refusedPause",    \* a pause is turned down, the device not being blocked
     "refusedRepeat",   \* a pause is turned down, the router already blocking it
     "refusedRelease",  \* a release is turned down
     "droppedPause",    \* a pause is accepted and the router never told
     "droppedRelease",  \* a release is accepted and the router never told
     "lostPauseReply",  \* a pause lands and its reply is an error or a timeout
     "lostReleaseReply",\* a release lands and its reply is an error or a timeout
     "signOut",         \* the account signs out and in while rules enforce
     "restart",         \* the recorder restarts, dropping what it was waiting on
     "handFree",        \* a person unpauses the device from the Starlink app
     "slowWrite",       \* a write can stay out for a whole retry window
     "reholdMidRelease",\* a rule takes hold of a device whose release is still out
     "staleRoster"}     \* a write can land before the roster has shown the last

\* The faults the recorder is built to absorb: under these a block is never lost.
BenignFaults == {"refusedPause", "refusedRelease", "droppedPause",
                 "lostReleaseReply", "restart", "handFree"}

ASSUME RoutableAreDevices == Routable \subseteq Devices
ASSUME FaultsAreKnown     == Faults \subseteq FaultKinds
ASSUME BoundsArePositive  == MaxWrites \in Nat \ {0} /\ MaxBehind \in Nat \ {0}

VARIABLES
    rules,      \* the rules that exist
    auto,       \* those with autoPause on
    holding,    \* those that hold their device: ruleHoldsDevice
    pauses,     \* MeterStore.blocks, which is also what is on disk
    writes,     \* writes[d]: updates of d in the account's queue, oldest first
    router,     \* what the router does with each device
    behind,     \* earlier states of the router its roster has yet to move past
    roster,     \* blockedByClientKey, as of the last roster that was read
    signedIn,   \* readAccountSignedIn
    asked,       \* history: the last write asked for each device, and its age
    opened       \* history: devices a person opened since the last override

ruleVars  == <<rules, auto, holding>>
worldVars == <<router, behind, roster, signedIn>>
history   == <<asked, opened>>
vars      == <<ruleVars, pauses, writes, worldVars, history>>

Write == [blocking : BOOLEAN, landed : BOOLEAN]
Asked  == [kind : WriteKinds \cup {"never"}, age : 0 .. RetryWindow]

Releasing(d) == \E i \in DOMAIN writes[d] : ~writes[d][i].blocking
NeverAsked == [kind |-> "never", age |-> RetryWindow]
Held(d)     == DeviceHeld(holding, d)
Enforced(d) == d \in DevicesOwedPause(holding, auto)

--------------------------------------------------------------------------------
\* Which sets of rules may be holding next, as the world is assumed to go.  The
\* last conjunct is the bound MaxWrites.
MayTakeHold(nowHolding) ==
    \A d \in Devices :
        DeviceHeld(nowHolding, d) /\ ~Held(d) =>
            /\ "reholdMidRelease" \in Faults \/ ~Releasing(d)
            /\ Len(writes[d]) < MaxWrites

Init ==
    /\ rules = {} /\ auto = {} /\ holding = {}
    /\ pauses   = [d \in Devices |-> Blank]
    /\ writes   = [d \in Devices |-> <<>>]
    /\ router   = [d \in Devices |-> "free"]
    /\ behind   = [d \in Devices |-> <<>>]
    /\ roster   = [d \in Devices |-> "unasked"]
    /\ signedIn = TRUE
    /\ asked    = [d \in Devices |-> NeverAsked]
    /\ opened   = {}

--------------------------------------------------------------------------------
(* The HTTP routes.  They touch the rules only: a block is never settled by  *)
(* the route that ended the rule behind it.                                  *)

\* A rule set or edited, its own or through its group.  A new rule holds at once
\* only inside a shut window; an edit can re-arm a measure or leave it latched.
UpsertRule(r) ==
    /\ rules' = rules \cup {r}
    /\ auto' \in {auto \cup {r}, auto \ {r}}
    /\ holding' \in {holding \cup {r}, holding \ {r}}
    /\ MayTakeHold(holding')
    /\ UNCHANGED <<pauses, writes, worldVars, history>>

\* DELETE of a rule, a device, a group or everything, and a projection's drops.
DropRules(gone) ==
    /\ gone # {} /\ gone \subseteq rules
    /\ rules' = rules \ gone
    /\ auto' = auto \ gone
    /\ holding' = holding \ gone
    /\ UNCHANGED <<pauses, writes, worldVars, history>>

--------------------------------------------------------------------------------
(* One poll of the clients: runMeters, then settleDeviceBlocks.              *)

\* What the roster has to say, noted before anything is decided.
RosterNoted ==
    LET landed == BlocksLanded(pauses, roster)
        byHand == ReleasedByHand(pauses, roster)
    IN  [d \in Devices |-> IF d \in landed THEN NoteBlockLanded(pauses[d])
                           ELSE IF d \in byHand THEN NoteReleasedByHand
                           ELSE pauses[d]]

\* With no account a write owed is recorded as one that failed.
NoteNoAccount(p, kind) ==
    NotePauseState(NoteAttempt(p, kind), IF kind = "pause" THEN "failed" ELSE "applied")

\* sendMeterPause up to its await, after the "pending" its caller records.
NoteSending(p, d, kind) ==
    IF kind = "pause"
    THEN IF d \in Routable THEN NoteAttempt(NotePauseState(p, "pending"), "pause")
                           ELSE NotePauseState(NotePauseState(p, "pending"), "failed")
    ELSE IF d \in Routable THEN NoteAttempt(p, "release") ELSE p

\* The records as the poll finds them, for the rules that hold from now on: what
\* the roster says is noted, and an override nothing holds any more is over.
Settled(nowHolding) ==
    ClearSettledOverrides(Noted(pauses, RosterNoted, rules), nowHolding)

PausesDue(nowHolding)   == PausesOwed(Settled(nowHolding), nowHolding, auto)
ReleasesDue(nowHolding) == ReleasesOwed(Settled(nowHolding), nowHolding)
Due(nowHolding)         == PausesDue(nowHolding) \cup ReleasesDue(nowHolding)
KindDue(d, nowHolding)  == IF d \in PausesDue(nowHolding) THEN "pause" ELSE "release"

\* settleDeviceBlocks over one record.
Scanned(d, nowHolding) ==
    LET p == Settled(nowHolding)[d]
    IN  IF d \notin Due(nowHolding) THEN p
        ELSE IF signedIn THEN NoteSending(p, d, KindDue(d, nowHolding))
        ELSE NoteNoAccount(p, KindDue(d, nowHolding))

NewWrite(blocking) == [blocking |-> blocking, landed |-> FALSE]

\* The write the poll sends for a device, if it owes one and can name it.
Sent(d, nowHolding) ==
    IF ~signedIn \/ d \notin Routable     THEN <<>>
    ELSE IF d \in PausesDue(nowHolding)   THEN <<NewWrite(TRUE)>>
    ELSE IF d \in ReleasesDue(nowHolding) THEN <<NewWrite(FALSE)>>
    ELSE <<>>

RunMeters ==
    \E nowHolding \in SUBSET rules :
        /\ MayTakeHold(nowHolding)
        /\ holding' = nowHolding
        /\ pauses' = Noted(Settled(nowHolding),
                           [d \in Devices |-> Scanned(d, nowHolding)], rules)
        /\ writes' = [d \in Devices |-> writes[d] \o Sent(d, nowHolding)]
        /\ asked' = [d \in Devices |->
                        IF d \in Due(nowHolding)
                        THEN [kind |-> KindDue(d, nowHolding), age |-> 0]
                        ELSE IF d \in ReleasedByHand(pauses, roster)
                        THEN NeverAsked ELSE asked[d]]
        /\ opened' = opened \ ReleasedByHand(pauses, roster)
        /\ UNCHANGED <<rules, auto, worldVars>>

--------------------------------------------------------------------------------
(* The write: queued in the account handler, carried to the router, replied. *)

Blocks(d) == Head(writes[d]).blocking

\* The router changes at once; its own roster says so in its own time.
Turn(d, now) ==
    /\ Len(behind[d]) < MaxBehind
    /\ router' = [router EXCEPT ![d] = now]
    /\ behind' = IF router[d] = now THEN behind
                 ELSE [behind EXCEPT ![d] = Append(@, router[d])]

\* Neither the router's roster nor the recorder's copy of it is behind.
RosterSettled(d) == behind[d] = <<>> /\ roster[d] \in {"unasked", router[d]}

\* A write takes longer to be carried out than the last one took to be shown.
Fresh(d) == "staleRoster" \in Faults \/ RosterSettled(d)

\* The router takes the oldest write of the device.
Land(d) ==
    /\ writes[d] # <<>> /\ ~Head(writes[d]).landed
    /\ signedIn
    /\ Fresh(d)
    /\ Turn(d, IF Blocks(d) THEN "blocked" ELSE "free")
    /\ writes' = [writes EXCEPT ![d] = <<[Head(@) EXCEPT !.landed = TRUE]>> \o Tail(@)]
    /\ opened' = IF Blocks(d) THEN opened ELSE opened \cup {d}
    /\ UNCHANGED <<ruleVars, pauses, roster, signedIn, asked>>

\* [mutant] A release that did not go through is recorded as one that did.
AfterFailureForgetful(blocking) == IF blocking THEN "failed" ELSE "none"

\* A failed release leaves the device blocked, and the record saying so.
AfterFailure(blocking) == IF blocking THEN "failed" ELSE "applied"
AfterSuccess(blocking) == IF blocking THEN "applied" ELSE "none"

Settle(d, state) ==
    /\ pauses' = Noted(pauses, [pauses EXCEPT ![d] = NotePauseState(@, state)], rules)
    /\ writes' = [writes EXCEPT ![d] = Tail(@)]
    /\ UNCHANGED <<ruleVars, worldVars, asked>>

ReplyOk(d) ==
    /\ writes[d] # <<>> /\ Head(writes[d]).landed
    /\ Settle(d, AfterSuccess(Blocks(d)))
    /\ opened' = IF Blocks(d) THEN opened ELSE opened \ {d}

\* The account took the write and said so; it never reached the router.
Dropped(d) ==
    /\ writes[d] # <<>> /\ ~Head(writes[d]).landed
    /\ IF Blocks(d) THEN "droppedPause" \in Faults ELSE "droppedRelease" \in Faults
    /\ Fresh(d)
    /\ Settle(d, AfterSuccess(Blocks(d)))
    /\ UNCHANGED opened

\* The account answered with an error before the router was written.
Refused(d) ==
    /\ writes[d] # <<>> /\ ~Head(writes[d]).landed
    /\ Fresh(d)
    /\ \/ ~signedIn
       \/ Blocks(d) /\ router[d] = "free"    /\ "refusedPause"  \in Faults
       \/ Blocks(d) /\ router[d] = "blocked" /\ "refusedRepeat" \in Faults
       \/ ~Blocks(d) /\ "refusedRelease" \in Faults
    /\ Settle(d, AfterFailure(Blocks(d)))
    /\ UNCHANGED opened

\* The router took the write and the answer that says so never came.
ReplyLost(d) ==
    /\ writes[d] # <<>> /\ Head(writes[d]).landed
    /\ IF Blocks(d) THEN "lostPauseReply" \in Faults ELSE "lostReleaseReply" \in Faults
    /\ Settle(d, AfterFailure(Blocks(d)))
    /\ UNCHANGED opened

--------------------------------------------------------------------------------
(* The world.                                                               *)

RosterCatchesUp(d) ==
    /\ behind[d] # <<>>
    /\ behind' = [behind EXCEPT ![d] = Tail(@)]
    /\ UNCHANGED <<ruleVars, pauses, writes, router, roster, signedIn, history>>

Shown(d) == IF behind[d] = <<>> THEN router[d] ELSE Head(behind[d])

\* A poll the router answered gives the device as its roster has it, or carries
\* no row for it.  A poll that fails keeps what the last one said.
ReadRoster(d) ==
    /\ roster' = [roster EXCEPT ![d] = Shown(d)]
    /\ UNCHANGED <<ruleVars, pauses, writes, router, behind, signedIn, history>>

MissingFromRoster(d) ==
    /\ roster' = [roster EXCEPT ![d] = "unasked"]
    /\ UNCHANGED <<ruleVars, pauses, writes, router, behind, signedIn, history>>

HandFree(d) ==
    /\ "handFree" \in Faults
    /\ router[d] = "blocked"
    /\ Turn(d, "free")
    /\ opened' = opened \cup {d}
    /\ UNCHANGED <<ruleVars, pauses, writes, roster, signedIn, asked>>

SignOut ==
    /\ "signOut" \in Faults /\ signedIn
    /\ signedIn' = FALSE
    /\ UNCHANGED <<ruleVars, pauses, writes, router, behind, roster, history>>

SignIn ==
    /\ ~signedIn
    /\ signedIn' = TRUE
    /\ UNCHANGED <<ruleVars, pauses, writes, router, behind, roster, history>>

\* A restart reads the snapshot back and forgets what was in flight and the roster.
Restart ==
    /\ "restart" \in Faults
    /\ writes' = [d \in Devices |-> <<>>]
    /\ roster' = [d \in Devices |-> "unasked"]
    /\ UNCHANGED <<ruleVars, pauses, router, behind, signedIn, history>>

Tick ==
    /\ \A d \in Devices :
          /\ Len(writes[d]) < MaxWrites
          /\ "slowWrite" \in Faults \/ writes[d] = <<>> \/ asked[d].age + 1 < RetryWindow
    /\ pauses' = [d \in Devices |-> Aged(pauses[d])]
    /\ asked' = [d \in Devices |->
                   [asked[d] EXCEPT !.age = IF @ < RetryWindow THEN @ + 1 ELSE @]]
    /\ UNCHANGED <<ruleVars, writes, worldVars, opened>>

--------------------------------------------------------------------------------
Next ==
    \/ \E r \in Rules : UpsertRule(r)
    \/ \E gone \in SUBSET Rules : DropRules(gone)
    \/ RunMeters
    \/ \E d \in Devices : \/ Land(d) \/ ReplyOk(d) \/ Dropped(d)
                          \/ Refused(d) \/ ReplyLost(d)
                          \/ RosterCatchesUp(d) \/ ReadRoster(d)
                          \/ MissingFromRoster(d) \/ HandFree(d)
    \/ SignOut \/ SignIn \/ Restart \/ Tick

Spec == Init /\ [][Next]_vars

(* The poll comes round on a timer, a failure in it never stops the next one, *)
(* and a roster it reads is gone through before another replaces it: what is  *)
(* owed under the rules that hold, again and again, is not left for ever.     *)
(* (Plain RunMeters would not do: some other set of rules can always be found *)
(* holding, so it could be called fair only by changing that.)  The clock     *)
(* advances.  A device whose write the router keeps being offered takes one   *)
(* in the end, and a roster that can be read is read again and again: strong, *)
(* because each attempt may fail first.                                       *)
Fairness ==
    /\ SF_vars(RunMeters /\ UNCHANGED holding) /\ SF_vars(Tick)
    /\ \A d \in Devices : /\ SF_vars(Land(d)) /\ SF_vars(ReplyOk(d))
                          /\ SF_vars(ReadRoster(d)) /\ WF_vars(RosterCatchesUp(d))

FairSpec == Spec /\ Fairness

--------------------------------------------------------------------------------
(* Properties.                                                              *)

\* Every variable keeps its shape: a record's age never leaves the retry window
\* it is compared with, and a rule that is gone holds nothing.
TypeOK ==
    /\ rules \subseteq Rules /\ auto \subseteq rules /\ holding \subseteq rules
    /\ pauses \in [Devices -> DevicePauseRecord]
    /\ writes \in [Devices -> Seq(Write)]
    /\ router \in [Devices -> {"free", "blocked"}]
    /\ behind \in [Devices -> Seq({"free", "blocked"})]
    /\ roster \in [Devices -> {"unasked", "free", "blocked"}]
    /\ signedIn \in BOOLEAN
    /\ asked \in [Devices -> Asked]
    /\ opened \subseteq Devices

\* What a device's record and the write it has out say of each other while the
\* world errs only in ways the recorder absorbs.  One write is out at a time, the
\* record says which it is and has not stalled on it, no rule holds a device being
\* released, and a block seen on the roster stays seen until something opens it.
InStep(d) ==
    LET p   == pauses[d]
        out == writes[d] # <<>>
        fresh(kind) == p.attempted = kind /\ p.age = asked[d].age /\ p.age < RetryWindow
    IN  /\ out => Len(writes[d]) = 1 /\ d \in Routable
        /\ out /\ Blocks(d) => p.state = "pending" /\ fresh("pause")
        /\ out /\ ~Blocks(d) =>
              /\ ~Held(d)
              /\ p.state = "none" \/ (p.state \in {"applied", "pending"} /\ fresh("release"))
              /\ Head(writes[d]).landed => router[d] = "free"
        /\ router[d] = "blocked" =>
              /\ d \in Routable
              /\ p.state \in {"applied", "pending"}
              /\ behind[d] = <<>> \/ (behind[d] = <<"free">> /\ roster[d] # "blocked")
              /\ p.state = "applied" /\ p.confirmed => behind[d] = <<>> /\ roster[d] # "free"

RecordInStep == \A d \in Devices : InStep(d)

\* A device the router blocks has a record that can still lead to its release:
\* "applied", or a "pending" that releasesOwed takes up once it has stalled.  The
\* failed release of sendMeterPause keeps "applied" for this reason alone.
BlockIsRemembered ==
    \A d \in Devices : router[d] = "blocked" => pauses[d].state \in {"applied", "pending"}

\* A device that no rule holds any more, and none takes hold of again, ends up
\* free at the router while the account stays connected: settleDeviceBlocks is
\* the whole release path, however the hold ended.
EventuallyFree ==
    \A d \in Devices :
        <>[](~Held(d) /\ signedIn) => <>[](router[d] = "free")

\* A device an enforcing rule goes on holding is found blocked again and again,
\* or a person has overruled the block: no refused, dropped or lost write ends
\* the asking (pausesOwed repeats until the roster has shown the block).
EventuallyBlocked ==
    \A d \in Devices :
        d \in Routable =>
            (<>[](Enforced(d) /\ signedIn)
                => []<>(router[d] = "blocked" \/ pauses[d].overridden))

\* A device is recorded as released by hand only if something did open it since:
\* a person, or a release whose answer never came.  A roster that has yet to show
\* a block must never be read as a person having opened it (releasedByHand).
OverrideNeedsAnOpening ==
    [][\A d \in Devices :
          pauses'[d].overridden /\ ~pauses[d].overridden => d \in opened]_vars

\* The same write is not asked for twice inside one retry window: the poll scans
\* every 200 ms and only a change of mind may write sooner (dueNow, noteAttempt).
\* A device without a router id is sent nothing, and its failure is not stamped.
RetrySpacing ==
    [][\A d \in Routable :
          asked'[d].age = 0 /\ asked'[d].kind = asked[d].kind
            => asked[d].age \in {0, RetryWindow}]_vars

\* A person's release is not argued with while the rules it overruled still hold:
\* only the device being let go of ends an override (clearSettledOverrides).
HandReleaseStands ==
    [][\A d \in Devices :
          pauses[d].overridden /\ ~pauses'[d].overridden => ~DeviceHeld(holding', d)]_vars

================================================================================
