----------------------------- MODULE ExtensionTick -----------------------------
(* What a tick of the extension tells people: the alerts it writes down, the     *)
(* reports of outages that ended, the badge on the toolbar and the notifications *)
(* (drain in extension/entrypoints/background.ts, drainOnce in                   *)
(* extension/lib/collector.ts).                                                  *)
(*                                                                               *)
(* The worker holds nothing between ticks and may be ended at any wait, so the   *)
(* engine is seeded from the episodes left open, and the badge from what the     *)
(* last tick left in storage.  A change of the badge's setting repaints it       *)
(* beside the ticks.  The router's alerts go the way of the dish's and are left  *)
(* out, as is what ages out of the stores.                                       *)
EXTENDS Naturals, FiniteSets

CONSTANTS
    DishKeys,                   \* what the dish reports of itself
    None,
    MaxTicks, MaxRepaints       \* bounds

TickAssumption == None \notin Nat

VARIABLES
    episode,        \* ALERTS: when the open episode of an alert began, or None
    ended,          \* ALERTS: the episodes closed, [alert, start, end]
    reports,        \* REPORTS, keyed by alert and start
    lastActive,     \* LAST_ACTIVE_KEY
    mode,           \* BADGE_MODE_KEY
    badge,          \* the alerts the badge counts
    runs,           \* the ticks under way
    repaints,       \* the repaints under way
    ticks,          \* how many ticks there have been
    news,           \* history: what changed the episodes, not yet announced, switched
                    \* off, seen on the page or cut short
    stale,          \* history: what was announced and was no news
    unwritten,      \* history: the outages whose report was cut short
    muddled         \* history: a badge painted blind, cut short or beside another

stores  == <<episode, ended, reports, lastActive, mode>>
work    == <<runs, repaints, ticks>>
history == <<news, stale, unwritten, muddled>>
vars    == <<stores, badge, work, history>>

DishAlerts == {"dish"} \X DishKeys
Silence    == <<"system", "dishUnreachable">>
Outage     == <<"system", "starlinkOutage">>
Alerts     == DishAlerts \cup {Silence, Outage}
Modes      == {"all", "faults", "off"}

OpenAlerts == { a \in Alerts : episode[a] # None }
NoEpisodes == [a \in Alerts |-> None]

--------------------------------------------------------------------------------
(* A tick polls, reads the open episodes and hands the engine both.              *)

(* singleFlight.                                                                 *)
MayRun == runs = {}

Run(stage, seen) ==
    [at |-> ticks + 1, stage |-> stage, seen |-> seen, open |-> NoEpisodes,
     left |-> {}, active |-> {}, shown |-> {}]

(* The dish's own alerts or its silence, and the samples, or that there are none.*)
Sightings == [dish : {None} \cup SUBSET DishKeys, outage : BOOLEAN \cup {None}]

Begin ==
    /\ MayRun /\ ticks < MaxTicks
    /\ ticks' = ticks + 1
    /\ \E seen \in Sightings : runs' = runs \cup {Run("polled", seen)}
    /\ UNCHANGED <<stores, badge, repaints, history>>

(* The store does not open: a tick with nothing active, and nothing to announce. *)
BeginBlind ==
    /\ MayRun /\ ticks < MaxTicks
    /\ ticks' = ticks + 1
    /\ runs' = runs \cup {Run("judged", None)}
    /\ muddled' = TRUE
    /\ UNCHANGED <<stores, badge, repaints, news, stale, unwritten>>

Becomes(r, next) == runs' = (runs \ {r}) \cup {next}

(* [mutant] A worker that wakes with no memory.                                  *)
SeedNothing == {}

(* What the engine is made from.                                                 *)
Seed == OpenAlerts

(* AlertEngine.update: what is firing after this tick's readings.                *)
Firing(before, seen) ==
    (IF seen.dish = None THEN (before \cap DishAlerts) \cup {Silence} ELSE {"dish"} \X seen.dish)
    \cup (IF seen.outage = None THEN before \cap {Outage}
          ELSE IF seen.outage THEN {Outage} ELSE {})

Crossed(before, after, at) ==
    { [kind |-> "fired", alert |-> a, at |-> at] : a \in after \ before }
    \cup { [kind |-> "cleared", alert |-> a, at |-> at] : a \in before \ after }

ReadOpen(r) ==
    /\ r.stage = "polled"
    /\ LET after == Firing(Seed, r.seen) IN
       Becomes(r, [r EXCEPT !.stage = "seeded", !.open = episode, !.active = after,
                            !.left = Crossed(Seed, after, r.at)])
    /\ UNCHANGED <<stores, badge, repaints, ticks, history>>

(* applyAlertTransitions, over episodesForTransitions: an opening of what is     *)
(* open and a closing of what is not are passed over.                            *)
Changes(r) == { t \in r.left : (episode[t.alert] = None) = (t.kind = "fired") }

Record(r) ==
    /\ r.stage = "seeded"
    /\ episode' = [a \in Alerts |->
                     IF [kind |-> "fired", alert |-> a, at |-> r.at] \in Changes(r) THEN r.at
                     ELSE IF [kind |-> "cleared", alert |-> a, at |-> r.at] \in Changes(r) THEN None
                     ELSE episode[a]]
    /\ ended' = ended \cup { [alert |-> t.alert, start |-> episode[t.alert], end |-> t.at] :
                               t \in { t \in Changes(r) : t.kind = "cleared" } }
    /\ news' = news \cup Changes(r)
    /\ Becomes(r, [r EXCEPT !.stage = "recorded"])
    /\ UNCHANGED <<reports, lastActive, mode, badge, repaints, ticks,
                   stale, unwritten, muddled>>

--------------------------------------------------------------------------------
(* recordOutageReports.                                                          *)

(* The copy read before the transitions were applied.                            *)
EpisodesBefore(r) == r.open

Due(r) == { [alert |-> t.alert, start |-> EpisodesBefore(r)[t.alert], end |-> t.at] :
              t \in { t \in r.left : /\ t.kind = "cleared" /\ t.alert \in {Silence, Outage}
                                     /\ EpisodesBefore(r)[t.alert] # None } }

(* putReport: the first under an id stands.                                      *)
Kept(new) == { p \in new : ~\E q \in reports : q.alert = p.alert /\ q.start = p.start }

(* One after another, the dish's first; one that fails ends the writing.         *)
Report(r) ==
    /\ r.stage = "recorded"
    /\ \E new \in SUBSET Due(r) :
          /\ (\E p \in new : p.alert = Outage) => new = Due(r)
          /\ reports' = reports \cup Kept(new)
          /\ unwritten' = unwritten \cup (Due(r) \ new)
    /\ Becomes(r, [r EXCEPT !.stage = "judged"])
    /\ UNCHANGED <<episode, ended, lastActive, mode, badge, repaints, ticks,
                   news, stale, muddled>>

--------------------------------------------------------------------------------
(* The badge.                                                                    *)

Painters == { r \in runs : r.stage \in {"painting", "painted"} } \cup repaints

(* badgeAlerts.                                                                  *)
BadgeAlerts(active, how) ==
    IF how = "off" THEN {}
    ELSE (active \ {Outage}) \ (IF how = "faults" THEN {Silence} ELSE {})

(* The standing set.                                                             *)
Paints(r) == r.active

(* rememberActive, and updateBadge begins.                                       *)
Remember(r) ==
    /\ r.stage = "judged"
    /\ lastActive' = r.active
    /\ Becomes(r, [r EXCEPT !.stage = "painting", !.active = Paints(r)])
    /\ muddled' = (Painters # {} \/ r.seen = None)
    /\ UNCHANGED <<episode, ended, reports, mode, badge, repaints, ticks,
                   news, stale, unwritten>>

(* updateBadge: the setting is read, and then the badge set.                     *)
ReadMode(r) ==
    /\ r.stage = "painting"
    /\ Becomes(r, [r EXCEPT !.stage = "painted", !.shown = BadgeAlerts(r.active, mode)])
    /\ UNCHANGED <<stores, badge, repaints, ticks, history>>

SetBadge(r) ==
    /\ r.stage = "painted"
    /\ badge' = r.shown
    /\ Becomes(r, [r EXCEPT !.stage = "announcing"])
    /\ UNCHANGED <<stores, repaints, ticks, history>>

(* The setting changes, and wakes the worker to repaint from storage.            *)
SetMode(how) ==
    /\ how # mode /\ Cardinality(repaints) < MaxRepaints
    /\ mode' = how
    /\ repaints' = repaints \cup {[for |-> how, stage |-> "asked", active |-> {}, shown |-> {}]}
    /\ muddled' = (muddled \/ Painters # {})
    /\ UNCHANGED <<episode, ended, reports, lastActive, badge, runs, ticks,
                   news, stale, unwritten>>

(* repaintBadge: the last tick's set, the setting, and the badge.                *)
Repaint(p) ==
    /\ repaints' = (repaints \ {p}) \cup
          (CASE p.stage = "asked"    -> {[p EXCEPT !.stage = "painting", !.active = lastActive]}
             [] p.stage = "painting" -> {[p EXCEPT !.stage = "painted",
                                                   !.shown = BadgeAlerts(p.active, mode)]}
             [] p.stage = "painted"  -> {})
    /\ badge' = IF p.stage = "painted" THEN p.shown ELSE badge
    /\ UNCHANGED <<stores, runs, ticks, history>>

--------------------------------------------------------------------------------
(* announceAlerts: switched off it says nothing, and with the dashboard in front *)
(* the page does.                                                                *)
Announce(r) ==
    /\ r.stage = "announcing"
    /\ \/ /\ r.left # {}
          /\ Becomes(r, [r EXCEPT !.stage = "posting"]) /\ UNCHANGED news
       \/ runs' = runs \ {r} /\ news' = news \ r.left
    /\ UNCHANGED <<stores, badge, repaints, ticks, stale, unwritten, muddled>>

(* postNotification, whether the browser takes it or not.  The throttle, made    *)
(* anew each time, has nothing to hold back in one tick.                         *)
Post(r) ==
    LET t == CHOOSE t \in r.left : TRUE IN
    /\ r.stage = "posting"
    /\ news' = news \ {t} /\ stale' = stale \cup ({t} \ news)
    /\ IF r.left = {t} THEN runs' = runs \ {r} ELSE Becomes(r, [r EXCEPT !.left = @ \ {t}])
    /\ UNCHANGED <<stores, badge, repaints, ticks, unwritten, muddled>>

--------------------------------------------------------------------------------
OnRecord(r) == r.stage \notin {"polled", "seeded"}
Owing       == UNION { r.left : r \in { r \in runs : OnRecord(r) } }
Unreported  == UNION { Due(r) : r \in { r \in runs : r.stage = "recorded" } }

Lost(gone) ==
    /\ news' = news \ UNION { r.left : r \in { r \in gone : OnRecord(r) } }
    /\ unwritten' = unwritten \cup UNION { Due(r) : r \in { r \in gone : r.stage = "recorded" } }
    /\ UNCHANGED stale

(* The tick rejects: reading the episodes, or the meters' own stores.            *)
TickFails(r) ==
    /\ r.stage \in {"polled", "seeded", "judged"} /\ r.seen # None
    /\ runs' = runs \ {r}
    /\ Lost({r}) /\ muddled' = TRUE
    /\ UNCHANGED <<stores, badge, repaints, ticks>>

(* The browser ends the worker.                                                  *)
Teardown ==
    /\ runs # {} \/ repaints # {}
    /\ runs' = {} /\ repaints' = {}
    /\ Lost(runs) /\ muddled' = TRUE
    /\ UNCHANGED <<stores, badge, ticks>>

Init ==
    /\ episode = NoEpisodes /\ ended = {} /\ reports = {} /\ lastActive = {}
    /\ mode = "all"
    /\ badge = {} /\ runs = {} /\ repaints = {} /\ ticks = 0
    /\ news = {} /\ stale = {} /\ unwritten = {} /\ muddled = FALSE

Next ==
    \/ Begin \/ BeginBlind \/ Teardown
    \/ \E how \in Modes : SetMode(how)
    \/ \E p \in repaints : Repaint(p)
    \/ \E r \in runs :
          \/ ReadOpen(r) \/ Record(r) \/ Report(r) \/ TickFails(r)
          \/ Remember(r) \/ ReadMode(r) \/ SetBadge(r) \/ Announce(r)
          \/ Post(r)

Spec == Init /\ [][Next]_vars

--------------------------------------------------------------------------------
(* Every opening and closing on record is announced, and once, unless it was     *)
(* switched off, seen on the page or cut short; and nothing else is: an alert    *)
(* that goes on over a teardown is not told again (recordAlerts).                *)
AnnouncedFromTheRecord == stale = {} /\ news = Owing

(* An outage that has ended has its report, of that outage, unless its writing   *)
(* was cut short (recordOutageReports).                                          *)
EndedOutagesAreReported ==
    { e \in ended : e.alert \in {Silence, Outage} } = reports \cup unwritten \cup Unreported

(* At rest the badge counts what is open, as it is set to count now, unless it   *)
(* was painted blind, cut short or by two at once (updateBadge, repaintBadge).   *)
BadgeCountsTheOpen ==
    runs = {} /\ repaints = {} /\ ~muddled => badge = BadgeAlerts(OpenAlerts, mode)

(* background.ts: the badge "clears the instant they do", and no sooner.         *)
BadgeIsTrueAtRest == runs = {} /\ repaints = {} => badge = BadgeAlerts(OpenAlerts, mode)
================================================================================
