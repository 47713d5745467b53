------------------------------- MODULE DataMeter -------------------------------
(***************************************************************************)
(* The recorder's metering of each device by the device's own rule:        *)
(* MeterStore over core/dataMeter.ts, fed by the usage odometer, with the  *)
(* requests that edit rules and records and a process that may be killed   *)
(* between any two of them.                                                *)
(*                                                                         *)
(* Rules and counters are each kept twice, in memory and on disk, and the  *)
(* two files are written at different times: counters every minute, rules  *)
(* when something happens to them and otherwise every CounterFlush.  A     *)
(* write of the rules may fail, which the code swallows.  Rules a group    *)
(* keeps for its members are not in this module.                           *)
(***************************************************************************)
EXTENDS MeterRule

CONSTANTS
    Devices,
    Terms,          \* the rule terms a person may ask for
    CounterFlush,   \* COUNTER_FLUSH_MS
    Merging,        \* whether a person may join two identities
    MaxAdvance,     \* bytes between two polls
    MaxBytes,       \* bound on a counter
    MaxTime,        \* bound on the clock
    MaxEdits,       \* bound on requests
    MaxCrashes      \* bound on kills

ASSUME TermsAreAsked   == Terms \subseteq {t \in RuleTerms :
                              t.allocation > 0 \/ t.countdown # None \/ t.schedule # None}
ASSUME FlushesWait     == CounterFlush \in Nat
ASSUME NoneIsNoDevice  == None \notin Devices
ASSUME MergingIsChosen == Merging \in BOOLEAN
ASSUME AdvanceIsBytes  == MaxAdvance \in Nat

VARIABLES
    now,
    counter,       \* counter[d]: the odometer's lifetime of d, None without a bucket
    counterDisk,   \* as last snapshotted
    rules,         \* rules[d]: d's own rule, or None
    rulesDisk,     \* as last persisted
    written,       \* countersWrittenMs; None since boot
    alias,         \* alias[d]: the identity d answers to
    polled,        \* nothing has happened since the last poll
    edits, crashes \* how many, for the bounds

vars == <<now, counter, counterDisk, rules, rulesDisk, written, alias, polled, edits, crashes>>

Init ==
    /\ now = 0
    /\ counter = [d \in Devices |-> None]
    /\ counterDisk = [d \in Devices |-> None]
    /\ rules = [d \in Devices |-> None]
    /\ rulesDisk = [d \in Devices |-> None]
    /\ written = None
    /\ alias = [d \in Devices |-> d]
    /\ polled = FALSE
    /\ edits = 0 /\ crashes = 0

Metered(d) == rules[d] # None
Ruled      == {d \in Devices : Metered(d)}

--------------------------------------------------------------------------------
(* The files.                                                                  *)

OnDisk(rs) == [d \in Devices |-> IF rs[d] = None THEN None ELSE Stored(rs[d])]

\* persist: a write that fails leaves the file as it was.
Persist == rulesDisk' \in {OnDisk(rules'), rulesDisk}

SnapshotTotals ==
    /\ counterDisk # counter
    /\ counterDisk' = counter
    /\ UNCHANGED <<now, counter, rules, rulesDisk, written, alias, polled, edits, crashes>>

\* The process is killed and starts again from its files.
Crash ==
    /\ crashes < MaxCrashes
    /\ crashes' = crashes + 1
    /\ counter' = counterDisk
    /\ rules' = [d \in Devices |->
                   IF rulesDisk[d] = None THEN None ELSE RestoredRule(rulesDisk[d])]
    /\ written' = None
    /\ polled' = FALSE
    /\ UNCHANGED <<now, counterDisk, rulesDisk, alias, edits>>

Tick ==
    /\ now < MaxTime
    /\ now' = now + 1
    /\ polled' = FALSE
    /\ UNCHANGED <<counter, counterDisk, rules, rulesDisk, written, alias, edits, crashes>>

--------------------------------------------------------------------------------
(* A poll.  roster[d] is None for a device the router does not list, else what *)
(* its counter has moved since the last poll.                                  *)

Rosters == [Devices -> OrNone(0 .. MaxAdvance)]

\* A bucket is made at 0, and its first reading is only a baseline.
Folded(d, roster) ==
    CASE roster[d] = None \/ alias[d] # d -> counter[d]
      [] counter[d] = None                -> 0
      [] OTHER                            -> counter[d] + roster[d]

Advance(d, roster) ==
    IF counter[d] = None \/ Folded(d, roster) = counter[d] THEN 0 ELSE roster[d]

Sent(r, bytes) == IF r = None THEN None ELSE [r EXCEPT !.sent = @ + bytes]

Claimants(d) == {e \in Devices : alias[e] = d /\ Metered(e)}

\* [mutant] The rule set first stands.
StandingOldest(d) == {e \in Claimants(d) :
                        \A f \in Claimants(d) : rules[e].updated <= rules[f].updated}

\* Where two rules land on one identity the one set last stands; on a tie,
\* whichever the store lists first.
Standing(d) == {e \in Claimants(d) :
                  \A f \in Claimants(d) : rules[e].updated >= rules[f].updated}

Resolutions == {from \in [Devices -> OrNone(Devices)] :
                  \A d \in Devices : IF Claimants(d) = {} THEN from[d] = None
                                     ELSE from[d] \in Standing(d)}

Resolved(from, roster) ==
    [d \in Devices |-> IF from[d] = None THEN None
                       ELSE Sent(rules[from[d]], Advance(d, roster))]

Observed(rs, counters) ==
    [d \in Devices |->
       IF rs[d] = None THEN None
       ELSE LET rolled == Rolled(rs[d], counters[d], now)
            IN  Evaluated(rolled, UsageBytes(rolled), now)]

Announces(rs, counters) ==
    \E d \in Devices :
        /\ rs[d] # None
        /\ LET rolled == Rolled(rs[d], counters[d], now)
           IN  Transits(rolled, UsageBytes(rolled), now)

\* An announcement is written at once; counters that moved wait for the flush.
WriteDue(rs, counters) ==
    \/ Announces(rs, counters)
    \/ /\ \E d \in Devices : rs[d] # None
       /\ written = None \/ now - written >= CounterFlush

\* pollClients and runMeters: fold the counters, move rules onto the identities
\* they answer to, then observe.
Poll ==
    \E roster \in Rosters, from \in Resolutions :
        LET counters == [d \in Devices |-> Folded(d, roster)]
            resolved == Resolved(from, roster)
            onDisk   == [d \in Devices |-> Sent(rulesDisk[d], Advance(alias[d], roster))]
            moved    == \E d \in Devices : from[d] \notin {d, None} \/ (Metered(d) /\ from[d] = None)
            due      == WriteDue(resolved, counters)
        IN  /\ \A d \in Devices : counters[d] \in OrNone(0 .. MaxBytes)
            /\ counter' = counters
            /\ rules' = Observed(resolved, counters)
            /\ rulesDisk' \in {onDisk}
                              \cup (IF moved THEN {OnDisk(resolved)} ELSE {})
                              \cup (IF due THEN {OnDisk(rules')} ELSE {})
            /\ written' = IF due THEN now ELSE written
            /\ polled' = TRUE
            /\ UNCHANGED <<now, counterDisk, alias, edits, crashes>>

--------------------------------------------------------------------------------
(* Requests, each on an identity the odometer still lists.                     *)

Request(d) ==
    /\ alias[d] = d
    /\ edits < MaxEdits
    /\ edits' = edits + 1
    /\ polled' = FALSE
    /\ UNCHANGED <<now, written, crashes>>

\* upsertMeterFrom and MeterStore.upsert.
SetRule(d, terms) ==
    /\ Request(d)
    /\ rules' = [rules EXCEPT ![d] =
                   IF Metered(d) THEN Upserted(@, terms, now, UsageBytes(@))
                   ELSE CreatedRule(terms, IF counter[d] = None THEN 0 ELSE counter[d], now)]
    /\ Persist
    /\ UNCHANGED <<counter, counterDisk, alias>>

\* What the odometer holds that the rule has not read yet, as after a start.
Unread(d) ==
    IF counter[d] # None /\ counter[d] > rules[d].observed
    THEN counter[d] - rules[d].observed ELSE 0

RestartedRule(d) == [RestartedCycle(rules[d], now) EXCEPT !.sent = Unread(d)]

\* meters/reset: the cycle restarts from the counter as the rule last saw it.
RestartRule(d) ==
    /\ Request(d)
    /\ Metered(d)
    /\ rules' = [rules EXCEPT ![d] = RestartedRule(d)]
    /\ Persist
    /\ UNCHANGED <<counter, counterDisk, alias>>

\* totals/reset: the month's total is zeroed by its own anchor, the lifetime the
\* rules read stands, and the odometer is snapshotted.
ResetTotals(d) ==
    /\ Request(d)
    /\ counter[d] # None
    /\ counterDisk' = counter
    /\ IF Metered(d)
       THEN rules' = [rules EXCEPT ![d] = RestartedRule(d)] /\ Persist
       ELSE UNCHANGED <<rules, rulesDisk>>
    /\ UNCHANGED <<counter, alias>>

\* DELETE meters.
RemoveRule(d) ==
    /\ Request(d)
    /\ Metered(d)
    /\ rules' = [rules EXCEPT ![d] = None]
    /\ Persist
    /\ UNCHANGED <<counter, counterDisk, alias>>

\* DELETE totals of one device: its record goes and takes its rule with it.
DeleteRecord(d) ==
    /\ Request(d)
    /\ counter[d] # None
    /\ counter' = [counter EXCEPT ![d] = None]
    /\ counterDisk' = counter'
    /\ rules' = [rules EXCEPT ![d] = None]
    /\ IF Metered(d) THEN Persist ELSE UNCHANGED rulesDisk
    /\ UNCHANGED alias

\* DELETE totals of every device.
ClearRecords ==
    /\ \E d \in Devices : Request(d)
    /\ counter' = [d \in Devices |-> None]
    /\ counterDisk' = counter'
    /\ rules' = [d \in Devices |-> None]
    /\ Persist
    /\ UNCHANGED alias

\* totals/merge: one identity's bucket is folded into another's.  The odometer
\* is snapshotted; rules follow on the next poll.
Merge(from, to) ==
    /\ Merging
    /\ Request(to)
    /\ from # to
    /\ counter[from] # None /\ counter[to] # None
    /\ counter[from] + counter[to] <= MaxBytes
    /\ counter' = [counter EXCEPT ![to] = @ + counter[from], ![from] = None]
    /\ counterDisk' = counter'
    /\ alias' = [d \in Devices |-> IF alias[d] = from THEN to ELSE alias[d]]
    /\ UNCHANGED <<rules, rulesDisk>>

Next ==
    \/ Poll \/ Tick \/ SnapshotTotals \/ Crash \/ ClearRecords
    \/ \E d \in Devices :
          \/ \E terms \in Terms : SetRule(d, terms)
          \/ RestartRule(d) \/ ResetTotals(d) \/ RemoveRule(d) \/ DeleteRecord(d)
    \/ \E from, to \in Devices : Merge(from, to)

Spec == Init /\ [][Next]_vars

--------------------------------------------------------------------------------
(* What must hold.                                                             *)

\* Every variable keeps the shape the stores give it.
TypeOK ==
    /\ now \in Nat /\ edits \in Nat /\ crashes \in Nat
    /\ written \in OrNone(Nat)
    /\ counter \in [Devices -> OrNone(Nat)]
    /\ counterDisk \in [Devices -> OrNone(Nat)]
    /\ rules \in [Devices -> OrNone(MeterRules)]
    /\ rulesDisk \in [Devices -> OrNone(MeterRules)]
    /\ alias \in [Devices -> Devices]
    /\ polled \in BOOLEAN

\* A rule never charges a byte its device did not send in the cycle, over edits,
\* rolls, restarts, failed writes, and files saved at different times
\* (usageBytes, core/dataMeter.ts).
NeverOvercharged ==
    \A d \in Ruled : UsageBytes(rules[d]) <= rules[d].sent

\* Until a process is killed, a rule charges every byte of its cycle: a roll, an
\* edit or a restart forgets none (evaluateMeters, upsertRule).
CountsEveryByte ==
    crashes = 0 => \A d \in Ruled : UsageBytes(rules[d]) = rules[d].sent

\* After a poll a device over its allowance, out of time or in shut hours is
\* held, whatever became of the latches before (evaluateMeters).
HeldWhenDue ==
    polled => \A d \in Ruled :
        LET r == rules[d] IN
        (\/ 0 < r.terms.allocation /\ r.terms.allocation <= UsageBytes(r)
         \/ r.terms.countdown # None /\ r.countdownStart + r.terms.countdown <= now
         \/ r.terms.schedule # None /\ BlockedAt(r.terms.schedule, now))
        => RuleHoldsDevice(r)

\* A latch is never held against a device that has not earned it: an allowance
\* was truly sent in the cycle that still runs, and a countdown truly ran out
\* (ruleHoldsDevice, core/dataMeter.ts).
HeldOnlyWhenDue ==
    \A d \in Ruled :
        LET r == rules[d] IN
        /\ r.acted /\ r.terms.allocation > 0 => r.sent >= r.terms.allocation
        /\ r.countdownActed => /\ r.terms.countdown # None
                               /\ r.countdownStart + r.terms.countdown <= now

\* After a poll no rule lives by a boundary that has passed: its cycle is the one
\* now falls in, and its window says what its timetable says.
BoundariesAreCurrent ==
    polled => \A d \in Ruled :
        LET r == rules[d] IN
        /\ r.periodEnd = PeriodEnd(r.terms.cycle, now)
        /\ r.windowBlocked <=> (r.terms.schedule # None /\ BlockedAt(r.terms.schedule, now))

\* After a poll every announcement still standing is younger than its minute.
AnnouncementsRetire ==
    polled => \A d \in Ruled :
        rules[d].reachedAt # None => now - rules[d].reachedAt < AnnounceHold

\* A one-off allowance is opened again by a person and never by a poll, whatever
\* its end was written as.
OnceNeverRolls ==
    [][\A d \in Devices :
          Metered(d) /\ rules[d].terms.cycle = "once" /\ Poll /\ alias[d] = d
             /\ Metered(d)'
          => rules'[d].anchor = rules[d].anchor]_vars

\* A poll moves every rule onto the identity its device answers to now, and of
\* two that meet there the one set last stands (resolveRuleKeys).
StandingTermsFollow ==
    [][Poll => \A d \in Ruled :
          /\ rules'[alias[d]] # None
          /\ rules'[alias[d]].updated >= rules[d].updated
          /\ alias[d] # d => rules'[d] = None]_vars

\* After a poll no rule is held by an allowance it does not have: "No allowance
\* is not an allowance of nothing" (allocationSpent, core/dataMeter.ts).
NoAllowanceIsNeverSpent ==
    polled => \A d \in Ruled : rules[d].terms.allocation = 0 => ~rules[d].acted
================================================================================
