------------------------------ MODULE DevicePause ------------------------------
(***************************************************************************)
(* core/devicePause.ts: what the router was last told about a device, and  *)
(* what is owed to it now.  The module is pure: each operator is one       *)
(* function of the file (or one of the note* methods the stores build on   *)
(* it), over a record per device.                                          *)
(*                                                                         *)
(* Two abstractions, both explained in the README.  A device that has no   *)
(* record reads exactly as Blank does in every function of the file, so    *)
(* the map is a total function and dropping a record is writing Blank.     *)
(* checkedMs is only ever compared with the clock, so a record carries its *)
(* age instead, counted up to the retry window and no further.             *)
(***************************************************************************)
EXTENDS Naturals

CONSTANTS
    Devices,      \* client keys
    Rules,        \* identities of metering rules (ruleKey)
    DeviceOf,     \* DeviceOf[r] is the one device rule r names
    RetryWindow   \* PAUSE_RETRY_MS, in ticks of the clock

ASSUME RuleNamesADevice == DeviceOf \in [Rules -> Devices]
ASSUME RetryWindowIsPositive == RetryWindow \in Nat \ {0}

PauseStates == {"none", "pending", "applied", "failed"}
WriteKinds  == {"pause", "release"}

DevicePauseRecord ==
    [state      : PauseStates,
     attempted  : WriteKinds \cup {"never"},
     age        : 0 .. RetryWindow,
     confirmed  : BOOLEAN,          \* confirmedMs is set
     overridden : BOOLEAN]

Blank == [state |-> "none", attempted |-> "never", age |-> RetryWindow,
          confirmed |-> FALSE, overridden |-> FALSE]

--------------------------------------------------------------------------------
(* Reading the rules.  `holding' is the set of rules for which               *)
(* ruleHoldsDevice is true, `auto' those with autoPause on.                  *)

DevicesOf(rs)          == {DeviceOf[r] : r \in rs}
DeviceHeld(holding, d) == d \in DevicesOf(holding)
DevicesOwedPause(holding, auto) == DevicesOf(holding \cap auto)

--------------------------------------------------------------------------------
(* What is owed.                                                            *)

Stalled(p) == p.age >= RetryWindow
DueNow(p, kind) == p.attempted # kind \/ Stalled(p)

\* [mutant] An override is not looked at: the person is overruled at once.
PausesOwedOverridesIgnored(pauses, holding, auto) ==
    {d \in DevicesOwedPause(holding, auto) :
        LET p == pauses[d]
        IN  ~(p.state = "applied" /\ p.confirmed) /\ DueNow(p, "pause")}

\* [mutant] "applied" is taken for landed: nothing asks after a dropped write.
PausesOwedOnceApplied(pauses, holding, auto) ==
    {d \in DevicesOwedPause(holding, auto) :
        LET p == pauses[d]
        IN  ~p.overridden /\ p.state # "applied" /\ DueNow(p, "pause")}

\* A block is asked for until it has been seen; a person's release is not argued
\* with while the rules it overruled still hold.
PausesOwed(pauses, holding, auto) ==
    {d \in DevicesOwedPause(holding, auto) :
        LET p == pauses[d]
        IN  /\ ~p.overridden
            /\ ~(p.state = "applied" /\ p.confirmed)
            /\ DueNow(p, "pause")}

\* [mutant] A "pending" that never came back is nobody's to release.
ReleasesOwedAppliedOnly(pauses, holding) ==
    {d \in Devices : /\ pauses[d].state = "applied"
                     /\ ~DeviceHeld(holding, d)
                     /\ DueNow(pauses[d], "release")}

\* [mutant] A release that was asked for once is not asked for again.
ReleasesOwedOnce(pauses, holding) ==
    {d \in Devices : /\ pauses[d].state = "applied"
                     /\ ~DeviceHeld(holding, d)
                     /\ pauses[d].attempted # "release"}

\* The whole release path: a block, or a write that may have been one, that no
\* rule holds any more.
ReleasesOwed(pauses, holding) ==
    {d \in Devices :
        LET p == pauses[d]
        IN  /\ p.state = "applied" \/ (p.state = "pending" /\ Stalled(p))
            /\ ~DeviceHeld(holding, d)
            /\ DueNow(p, "release")}

(* What the roster says: "blocked", "free", or "unasked" for a key the poll  *)
(* did not carry.                                                            *)

BlocksLanded(pauses, roster) ==
    {d \in Devices : /\ pauses[d].state = "applied"
                     /\ ~pauses[d].confirmed
                     /\ roster[d] = "blocked"}

\* [mutant] A block the roster has yet to show is read as one a person opened.
ReleasedByHandUnseen(pauses, roster) ==
    {d \in Devices : pauses[d].state = "applied" /\ roster[d] = "free"}

\* Only a block the roster was seen to carry can have been opened by hand.
ReleasedByHand(pauses, roster) ==
    {d \in Devices : /\ pauses[d].state = "applied"
                     /\ pauses[d].confirmed
                     /\ roster[d] = "free"}

--------------------------------------------------------------------------------
(* How a record moves.                                                      *)

NoteAttempt(p, kind) ==
    [p EXCEPT !.attempted = kind, !.age = 0, !.overridden = FALSE]

\* [mutant] The outcome forgets which write it is the outcome of.
NotePauseStateUnstamped(p, state) ==
    [state |-> state, attempted |-> "never", age |-> 0,
     confirmed |-> p.confirmed /\ p.state = "applied" /\ state = "applied",
     overridden |-> FALSE]

\* The confirmation lasts as long as the block it confirms: applied to applied.
NotePauseState(p, state) ==
    [p EXCEPT !.state      = state,
              !.age        = 0,
              !.confirmed  = p.confirmed /\ p.state = "applied" /\ state = "applied",
              !.overridden = FALSE]

NoteBlockLanded(p) == [p EXCEPT !.confirmed = TRUE]

NoteReleasedByHand ==
    [state |-> "none", attempted |-> "release", age |-> 0,
     confirmed |-> FALSE, overridden |-> TRUE]

ClearSettledOverrides(pauses, holding) ==
    [d \in Devices |->
        IF DeviceHeld(holding, d) THEN pauses[d]
        ELSE [pauses[d] EXCEPT !.overridden = FALSE]]

ForgetSettled(pauses, rules) ==
    [d \in Devices |->
        IF pauses[d].state = "none" /\ d \notin DevicesOf(rules)
        THEN Blank ELSE pauses[d]]

\* MeterStore.notePause: a note that moves a record also drops the settled ones.
Noted(before, after, rules) ==
    IF after = before THEN before ELSE ForgetSettled(after, rules)

\* A tick of the clock, as a record feels it.
Aged(p) == [p EXCEPT !.age = IF p.age < RetryWindow THEN p.age + 1 ELSE RetryWindow]

================================================================================
