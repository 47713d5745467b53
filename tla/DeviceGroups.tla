------------------------------ MODULE DeviceGroups ------------------------------
(* Rules set over several devices at once: core/deviceGroup.ts, DeviceGroupStore *)
(* and the recorder's runMeters and requests, down to the episodes that their    *)
(* announcements open and close in the alert log.                                *)
(*                                                                               *)
(* rules[<<g, d>>] is the rule the group g keeps for d, rules[<<None, d>>] d's   *)
(* own: ruleKey.  A stored rule is a MeterRule with `pooled`, sharedAllowance.   *)
(* `stranded` and `split` are not the program's: the open episodes whose stamp   *)
(* was taken away unannounced, and the groups one member of which was started    *)
(* over alone.                                                                   *)
EXTENDS MeterRule, FiniteSets, Functions

CONSTANTS
    Groups, Devices,
    GroupTerms, OwnTerms,   \* the terms a person may ask for
    Merging,                \* whether a person may join two identities
    MaxBytes, MaxTime, MaxEdits   \* bounds

(* A stored rule and a stored group, as far as None is neither.                  *)
RuleNames    == {"terms", "anchor", "observed", "periodEnd", "acted", "countdownStart",
                 "countdownActed", "windowEnd", "windowBlocked", "reachedAt", "updated",
                 "sent", "pooled"}
StoredRules  == [RuleNames -> RuleTerms \cup Int \cup BOOLEAN \cup {None}]
StoredGroups == [members : SUBSET Devices, terms : GroupTerms, pooled : BOOLEAN]

GroupsAssumption ==
    /\ None \notin Groups \cup Devices /\ Groups \cap Devices = {}
    /\ None \notin StoredRules \cup StoredGroups \cup Int
    /\ {DayLength, AnnounceHold} \subseteq Nat \ {0}
    /\ GroupTerms \cup OwnTerms \subseteq RuleTerms
    /\ \A terms \in GroupTerms : terms.countdown # None => terms.cycle = "once"
    /\ {MaxBytes, MaxTime, MaxEdits} \subseteq Nat /\ Merging \in BOOLEAN

VARIABLES
    groups,         \* groups[g]: [members, terms, pooled], or None
    rules,
    counter,        \* counter[d]: the odometer's lifetime of d, None without a bucket
    alias,          \* alias[d]: the identity d answers to
    open,           \* the subjects with an open episode in the alert log
    stranded, split,
    polled,         \* nothing has happened since the last poll
    now, edits

vars == <<groups, rules, counter, alias, open, stranded, split, polled, now, edits>>

Slots  == (Groups \cup {None}) \X Devices
NoRule == [s \in Slots |-> None]
Held(rs)     == { s \in Slots : rs[s] # None }
InGroup(rs, g) == { s \in Held(rs) : s[1] = g }

WithPooled(r, pooled) ==
    [f \in DOMAIN r \cup {"pooled"} |-> IF f = "pooled" THEN pooled ELSE r[f]]

AnnouncesAsGroup(s, r) == s[1] # None /\ (r.pooled \/ r.terms.countdown # None)
Subject(s, r)   == IF AnnouncesAsGroup(s, r) THEN s[1] ELSE s[2]
Announcing(rs)  == { s \in Held(rs) : rs[s].reachedAt # None }
Subjects(rs, S) == { Subject(s, rs[s]) : s \in S }

(* sharedUsageByGroup and chargedBytes.                                          *)
Total(usage) == FoldFunction(+, 0, usage)
SharedUsage(rs, g) ==
    Total([s \in { o \in InGroup(rs, g) : rs[o].pooled } |-> UsageBytes(rs[s])])

(* [mutant] A member of a pooled allowance is charged its own bytes.             *)
ChargedOwn(rs, s) == UsageBytes(rs[s])

Charged(rs, s) ==
    IF s[1] # None /\ rs[s].pooled THEN SharedUsage(rs, s[1]) ELSE UsageBytes(rs[s])

Counter(d) == IF counter[d] = None THEN 0 ELSE counter[d]

(* One table by a name: what TLC has compared, it has computed once and whole.   *)
Whole(table) == { t \in {table} : t = t }

--------------------------------------------------------------------------------
(* projectGroupRules.                                                            *)

CarriesTerms(r, group) == r.terms = group.terms /\ r.pooled = group.pooled

(* groupClock: a member already running this duration names the clock.           *)
Running(rs, gs, g) == { s \in InGroup(rs, g) : rs[s].terms.countdown = gs[g].terms.countdown }
GroupClock(rs, gs, g) ==
    IF Running(rs, gs, g) = {} THEN now
    ELSE rs[CHOOSE s \in Running(rs, gs, g) : TRUE].countdownStart

OnClock(r, clock, acted) ==
    IF r.terms.countdown = None THEN r
    ELSE [r EXCEPT !.countdownStart = clock, !.countdownActed = acted]

Joined(s, group, clock) ==
    OnClock(WithPooled(CreatedRule(group.terms, Counter(s[2]), now), group.pooled), clock, FALSE)

(* [mutant] A timer beside edited terms starts over.                             *)
EditedAnew(rs, s, group, clock) ==
    LET edited == WithPooled(Upserted(rs[s], group.terms, now, Charged(rs, s)), group.pooled)
    IN  [edited EXCEPT !.reachedAt = IF Subject(s, edited) = Subject(s, rs[s]) THEN @ ELSE None]

(* An edit moves the subject of the announcement or keeps its stamp, and a timer *)
(* still on its old clock keeps its latch.                                       *)
Edited(rs, s, group, clock) ==
    LET edited == WithPooled(Upserted(rs[s], group.terms, now, Charged(rs, s)), group.pooled)
    IN  OnClock([edited EXCEPT !.reachedAt = IF Subject(s, edited) = Subject(s, rs[s]) THEN @ ELSE None],
                clock, clock = rs[s].countdownStart /\ rs[s].countdownActed)

(* One rule per group per member, and each device's own beside them.             *)
Projected(rs, gs) ==
    [s \in Slots |->
        IF s[1] = None THEN rs[s]
        ELSE IF gs[s[1]] = None \/ s[2] \notin gs[s[1]].members THEN None
        ELSE IF rs[s] = None THEN Joined(s, gs[s[1]], GroupClock(rs, gs, s[1]))
        ELSE IF CarriesTerms(rs[s], gs[s[1]]) THEN rs[s]
        ELSE Edited(rs, s, gs[s[1]], GroupClock(rs, gs, s[1]))]

--------------------------------------------------------------------------------
(* The episodes.                                                                 *)

(* retireMeterAlert: one member leaving a shared announcement retires nothing    *)
(* while another still announces.                                                *)
Retires(before, after, s) ==
    /\ before[s].reachedAt # None
    /\ AnnouncesAsGroup(s, before[s]) =>
          { o \in InGroup(after, s[1]) : o # s /\ after[o].reachedAt # None } = {}

Retired(opened, before, after, going) ==
    opened \ Subjects(before, { s \in going : Retires(before, after, s) })

(* What project reports: the rules that went, and those with another subject.    *)
Went(before, after) ==
    { s \in Held(before) : after[s] = None \/ Subject(s, after[s]) # Subject(s, before[s]) }

Reconciled(opened, before, after) == Retired(opened, before, after, Went(before, after))

--------------------------------------------------------------------------------
(* runMeters.                                                                    *)

(* resolveRuleKeys: where two rules meet the one set last stands.                *)
Claimants(s) == { o \in Held(rules) : o[1] = s[1] /\ alias[o[2]] = s[2] }
Resolved ==
    [s \in Slots |->
        IF Claimants(s) = {} THEN None
        ELSE rules[CHOOSE o \in Claimants(s) :
                      \A p \in Claimants(s) : rules[o].updated >= rules[p].updated]]

(* resolveGroupMembers.                                                          *)
MembersNow(members) == { alias[d] : d \in members }

ResolvedGroups ==
    [g \in Groups |-> IF groups[g] = None THEN None
                      ELSE [groups[g] EXCEPT !.members = MembersNow(@)]]

Turned(rs, counters) ==
    [s \in Slots |-> IF rs[s] = None THEN None ELSE Rolled(rs[s], counters[s[2]], now)]

(* evaluateMeters: every cycle is turned before any allowance is tested.         *)
ChargedAtPoll(rs, turned, s) == Charged(turned, s)

(* Announcements are recorded in the order of the rules, so a subject reached by *)
(* one rule and expired by another may end open or closed.                       *)
Recorded(opened, reached, expired) ==
    { (opened \cup reached) \ (expired \ kept) : kept \in SUBSET (reached \cap expired) }

Counters(moving) ==
    [d \in Devices |-> IF alias[d] # d THEN None
                       ELSE IF d \notin moving THEN counter[d]
                       ELSE IF counter[d] = None THEN 0 ELSE counter[d] + 1]

Poll(moving) ==
    /\ \A d \in moving : alias[d] = d /\ Counter(d) < MaxBytes
    /\ counter' = Counters(moving)
    /\ groups' = ResolvedGroups
    /\ \E resolved \in Whole(Resolved) :
       \E projected \in Whole(Projected(resolved, ResolvedGroups)) :
       \E turned \in Whole(Turned(projected, Counters(moving))) :
       \E charged \in Whole([s \in Held(turned) |-> ChargedAtPoll(projected, turned, s)]) :
          LET reached == { s \in Held(turned) : Reaches(turned[s], charged[s], now) }
              expired == { s \in Held(turned) : Expires(turned[s], charged[s], now) }
              lost    == Subjects(rules, Announcing(rules)) \ Subjects(resolved, Announcing(resolved))
          IN  /\ rules' = [s \in Slots |-> IF turned[s] = None THEN None
                                            ELSE Evaluated(turned[s], charged[s], now)]
              /\ open' \in Recorded(Reconciled(open, resolved, projected),
                                    Subjects(turned, reached), Subjects(turned, expired))
              /\ stranded' = (stranded \cup lost) \cap open'
    /\ polled' = TRUE
    /\ UNCHANGED <<alias, split, now, edits>>

Tick ==
    /\ now < MaxTime
    /\ now' = now + 1 /\ polled' = FALSE
    /\ UNCHANGED <<groups, rules, counter, alias, open, stranded, split, edits>>

--------------------------------------------------------------------------------
(* Requests.                                                                     *)

Request ==
    /\ edits < MaxEdits
    /\ edits' = edits + 1 /\ polled' = FALSE
    /\ UNCHANGED now

Listed(d) == alias[d] = d

(* POST groups: the members carry their rules at once.                           *)
WriteGroup(g, members, terms, pooled) ==
    LET gs == [groups EXCEPT ![g] = [members |-> members, terms |-> terms, pooled |-> pooled]]
    IN  /\ Request
        /\ members # {} /\ \A d \in members : Listed(d)
        /\ groups' = gs
        /\ rules' \in Whole(Projected(rules, gs))
        /\ open' = Reconciled(open, rules, rules')
        /\ stranded' = stranded \cap open'
        /\ UNCHANGED <<counter, alias, split>>

(* standDownGroup.                                                               *)
DeleteGroup(g) ==
    /\ Request
    /\ groups[g] # None
    /\ groups' = [groups EXCEPT ![g] = None]
    /\ rules' = [s \in Slots |-> IF s[1] = g THEN None ELSE rules[s]]
    /\ open' = Retired(open, rules, rules', InGroup(rules, g))
    /\ stranded' = stranded \cap open'
    /\ split' = split \ {g}
    /\ UNCHANGED <<counter, alias>>

(* removeMember: a group left with no members goes with the last.                *)
Left(d) ==
    [g \in Groups |->
        IF groups[g] = None THEN None
        ELSE IF groups[g].members \subseteq {d} THEN None
        ELSE [groups[g] EXCEPT !.members = @ \ {d}]]

OfDevice(rs, d) == { s \in Held(rs) : s[2] = d }
Without(S) == [s \in Slots |-> IF s \in S THEN None ELSE rules[s]]

(* The device's rules go, and each one's announcement is retired.                *)
Unmeters(going) ==
    /\ rules' = Without(going)
    /\ open' = Retired(open, rules, rules', going)
    /\ stranded' = stranded \cap open'
    /\ UNCHANGED <<alias, split>>

(* DELETE meters, of the own rule or of the device outright.                     *)
DeleteOwn(d) ==
    /\ Request
    /\ rules[<<None, d>>] # None
    /\ Unmeters({<<None, d>>})
    /\ UNCHANGED <<groups, counter>>

DeleteMeters(d) ==
    /\ Request
    /\ OfDevice(rules, d) # {}
    /\ groups' = IF OfDevice(rules, d) = {<<None, d>>} THEN groups ELSE Left(d)
    /\ Unmeters(OfDevice(rules, d))
    /\ UNCHANGED counter

(* DELETE totals of a device.                                                    *)
DeleteRecord(d) ==
    /\ Request
    /\ counter[d] # None
    /\ counter' = [counter EXCEPT ![d] = None]
    /\ groups' = Left(d)
    /\ Unmeters(OfDevice(rules, d))

(* DELETE totals of all: standDownAllMeterRules.                                 *)
ClearRecords ==
    /\ Request
    /\ counter' = [d \in Devices |-> None]
    /\ groups' = [g \in Groups |-> None]
    /\ split' = {}
    /\ rules' = NoRule
    /\ open' = Retired(open, rules, NoRule, Held(rules))
    /\ stranded' = stranded \cap open'
    /\ UNCHANGED alias

(* POST meters.                                                                  *)
WriteOwn(d, terms) ==
    LET s == <<None, d>>
    IN  /\ Request
        /\ Listed(d)
        /\ rules' = [rules EXCEPT ![s] =
                        IF @ = None THEN WithPooled(CreatedRule(terms, Counter(d), now), FALSE)
                        ELSE Upserted(@, terms, now, UsageBytes(@))]
        /\ UNCHANGED <<groups, counter, alias, open, stranded, split>>

(* meters/reset and totals/reset: the stamps go, and no episode is closed.       *)
Restart(going) ==
    /\ Request
    /\ going # {}
    /\ rules' = [s \in Slots |-> IF s \in going THEN RestartedCycle(rules[s], now) ELSE rules[s]]
    /\ stranded' = (stranded \cup Subjects(rules, going \cap Announcing(rules))) \cap open
    /\ UNCHANGED <<groups, counter, alias, open>>

RestartGroup(g)   == Restart(InGroup(rules, g)) /\ split' = split \ {g}
RestartOwn(d)     == Restart({<<None, d>>} \cap Held(rules)) /\ UNCHANGED split
ResetTotals(d)    ==
    /\ counter[d] # None
    /\ Restart(OfDevice(rules, d))
    /\ split' = split \cup { g \in Groups : rules[<<g, d>>] # None }

(* totals/merge: rules and members follow on the next poll.                      *)
Merge(from, to) ==
    /\ Merging
    /\ Request
    /\ from # to /\ Listed(to) /\ counter[from] # None /\ counter[to] # None
    /\ counter[from] + counter[to] <= MaxBytes
    /\ counter' = [counter EXCEPT ![to] = @ + counter[from], ![from] = None]
    /\ alias' = [d \in Devices |-> IF alias[d] = from THEN to ELSE alias[d]]
    /\ UNCHANGED <<groups, rules, open, stranded, split>>

Init ==
    /\ groups = [g \in Groups |-> None] /\ rules = NoRule
    /\ counter = [d \in Devices |-> None] /\ alias = [d \in Devices |-> d]
    /\ open = {} /\ stranded = {} /\ split = {}
    /\ polled = FALSE /\ now = 0 /\ edits = 0

Next ==
    \/ Tick \/ ClearRecords
    \/ \E moving \in SUBSET Devices : Poll(moving)
    \/ \E g \in Groups : DeleteGroup(g) \/ RestartGroup(g)
    \/ \E g \in Groups, members \in SUBSET Devices, terms \in GroupTerms, pooled \in BOOLEAN :
          WriteGroup(g, members, terms, pooled)
    \/ \E d \in Devices :
          \/ DeleteOwn(d) \/ DeleteMeters(d) \/ DeleteRecord(d) \/ RestartOwn(d) \/ ResetTotals(d)
          \/ \E terms \in OwnTerms : WriteOwn(d, terms)
    \/ \E from, to \in Devices : Merge(from, to)

Spec == Init /\ [][Next]_vars

--------------------------------------------------------------------------------
(* Groups name devices and every rule is a metering rule (DeviceGroup,           *)
(* MeterRule).                                                                   *)
TypeOK ==
    /\ \A g \in Groups : groups[g] # None =>
          groups[g].members \in (SUBSET Devices) \ {{}} /\ groups[g].terms \in GroupTerms
    /\ \A s \in Held(rules) : [f \in DOMAIN rules[s] \ {"pooled"} |-> rules[s][f]] \in MeterRules
    /\ open \subseteq Groups \cup Devices /\ stranded \subseteq open

(* After a poll the groups' rules are one for each group and member, on the      *)
(* terms the group now has, whatever was edited, deleted or merged since the     *)
(* last (resolveGroupMembers, resolveRuleKeys, projectGroupRules).               *)
RulesFollowGroups ==
    polled => \A g \in Groups :
        IF groups[g] = None THEN InGroup(rules, g) = {}
        ELSE /\ InGroup(rules, g) = {g} \X groups[g].members
             /\ \A d \in groups[g].members :
                   Listed(d) /\ CarriesTerms(rules[<<g, d>>], groups[g])

(* After a poll a pooled allowance that is spent holds every member of the       *)
(* group, those who joined it afterwards included (evaluateMeters,               *)
(* chargedBytes).                                                                *)
PooledHoldsAll ==
    polled => \A s \in Held(rules) :
        s[1] # None /\ rules[s].pooled /\ 0 < rules[s].terms.allocation
            /\ SharedUsage(rules, s[1]) >= rules[s].terms.allocation
        => rules[s].acted

(* A poll latches an allowance only if, as the poll leaves them, the bytes       *)
(* charged to it are spent: never off a member's usage in a cycle that is over   *)
(* (evaluateMeters rolls every rule before it tests any).                        *)
LatchesAreEarned ==
    [][\A s \in Slots :
          polled' /\ rules'[s] # None /\ rules'[s].acted /\ (rules[s] = None \/ ~rules[s].acted)
          /\ (\A d \in Devices : alias[d] = d)
          => Charged(rules', s) >= rules'[s].terms.allocation]_vars

(* All members of a group count one sitting down, from one start, whoever joined *)
(* and whatever was edited since (groupClock).                                   *)
OneClock(g) ==
    \A s, o \in InGroup(rules, g) : rules[s].countdownStart = rules[o].countdownStart
GroupsShareAClock == \A g \in Groups \ split : OneClock(g)

(* The same, of groups in which one member was started over too.                 *)
GroupsAlwaysShareAClock == \A g \in Groups : OneClock(g)

(* A sitting that has run out is not handed back by an edit of the terms beside  *)
(* the timer (projectGroupRules).                                                *)
SpentTimersStaySpent ==
    [][\A s \in Held(rules) :
          groups' # groups /\ s[1] \notin split \cup {None} /\ rules[s].countdownActed /\ rules'[s] # None
          /\ rules'[s].terms.countdown = rules[s].terms.countdown
          => rules'[s].countdownActed]_vars

(* After a poll every data-limit episode still open belongs to a rule that is    *)
(* still announcing, so each closes within its minute: no edit, departure or     *)
(* deletion leaves one open for ever (retireMeterAlert, standDownGroup).         *)
EpisodesHaveAnnouncers(episodes) ==
    polled => episodes \subseteq Subjects(rules, Announcing(rules))
EpisodesEnd == EpisodesHaveAnnouncers(open \ stranded)

(* The same of all of them, those whose rule was started over or moved to        *)
(* another identity meanwhile included.                                          *)
EveryEpisodeEnds == EpisodesHaveAnnouncers(open)
================================================================================
