--------------------------------- MODULE Stores ---------------------------------
(* What the hosts keep of the dish and its devices: the samples (DrainCursor in  *)
(* the extension, RecordedMinutes in the recorder, two readers of one ring), the *)
(* alert episodes, the groups' rules, the odometers, the extension's tick.  They *)
(* share no state but the dish, so a behaviour is of one of them: `part` says    *)
(* which, and the others stand still.                                            *)
EXTENDS Naturals

CONSTANTS
    None,
    RingSize, Phases, Jitter, MinuteLen, YearLen,       \* as in SampleRing, DrainCursor
    PollPhases, ViewLen, Tearing, MaxAwait,             \* as in RecordedMinutes
    DishFlags, RouterFlags, Latched, Retention,         \* as in AlertEpisodes
    DishReports,                                        \* DishKeys of ExtensionTick
    Groups, Devices, GroupTerms, OwnTerms, DayLength, AnnounceHold, Merging,    \* as in DeviceGroups
    Identities, Macs, MacOf, HashOf, MaxGap, Rate, MonthLen, MonthsKept, Returning, Hosts,
                                                                         \* as in UsageTotals
    \* bounds
    MaxSeconds, MaxBoots, MaxRecorded, MaxKills, MaxHours, MaxRestarts, MaxTicks, MaxRepaints,
    MaxBytes, MaxDays, MaxEdits, MaxLife, MaxRolls

VARIABLES
    part,
    now, boot, count, first, astray,
    cursor, minutes, months, raw, worker, taken, twice, missed, lost, peak,
    up, reply, kills, open, lastWritten, held, file, archive, snapshot, late, spoiled, doubled, lags,
    firing, presence, episode, closed, todo, cycle, hour, restarts,
    word, said, silent, torn, heard,
    groups, rules, odometer, alias, episodes, stranded, split, polled, day, edits,
    told, ended, reports, lastActive, mode, badge, runs, repaints, ticks,
    news, stale, unwritten, muddled,
    host, totals, totalsFile, counts, highest, sent, again, sentBefore, logged, rolls, requests, starts

dish       == <<now, boot, count, first, astray>>
drainVars  == <<cursor, minutes, months, raw, worker, taken, twice, missed, lost, peak>>
minuteVars == <<up, reply, kills, open, lastWritten, held, file, archive, snapshot, late, spoiled,
                doubled, lags>>
alertVars  == <<firing, presence, episode, closed, todo, cycle, hour, restarts,
                word, said, silent, torn, heard>>
groupVars  == <<groups, rules, odometer, alias, episodes, stranded, split, polled, day, edits>>
tickVars   == <<told, ended, reports, lastActive, mode, badge, runs, repaints, ticks,
                news, stale, unwritten, muddled>>
totalVars  == <<host, totals, totalsFile, counts, highest, sent, again, sentBefore, logged, rolls,
                requests, starts>>
storesVars == <<part, dish, drainVars, minuteVars, alertVars, groupVars, tickVars, totalVars>>

Drain   == INSTANCE DrainCursor WITH MaxTime <- MaxSeconds
Minutes == INSTANCE RecordedMinutes WITH
               Phases <- PollPhases, MaxTime <- MaxRecorded
Alerts  == INSTANCE AlertEpisodes WITH
               DishKeys <- DishFlags, RouterKeys <- RouterFlags, MaxTime <- MaxHours, now <- hour
Ticks   == INSTANCE ExtensionTick WITH DishKeys <- DishReports, episode <- told
Grouped == INSTANCE DeviceGroups WITH
               MaxTime <- MaxDays, counter <- odometer, open <- episodes, now <- day
Totals  == INSTANCE UsageTotals WITH
               Ids <- Identities, MaxTime <- MaxRolls, disk <- totalsFile, counter <- counts,
               before <- sentBefore, rows <- logged, clock <- rolls

ASSUME InstancesSuit ==
    /\ Drain!DrainAssumption /\ Minutes!RecorderAssumption /\ Alerts!AlertsAssumption
    /\ Grouped!GroupsAssumption /\ Ticks!TickAssumption /\ Totals!TotalsAssumption

StoresInit ==
    Drain!Init /\ Minutes!Init /\ Alerts!Init /\ Grouped!Init /\ Ticks!Init /\ Totals!Init

StoresNext ==
    \/ /\ part = "drain" /\ Drain!Next
       /\ UNCHANGED <<minuteVars, alertVars, groupVars, tickVars, totalVars>>
    \/ /\ part = "minutes" /\ Minutes!Next
       /\ UNCHANGED <<drainVars, alertVars, groupVars, tickVars, totalVars>>
    \/ /\ UNCHANGED <<dish, drainVars, minuteVars>>
       /\ \/ part = "alerts" /\ Alerts!Next /\ UNCHANGED <<groupVars, tickVars, totalVars>>
          \/ part = "groups" /\ Grouped!Next /\ UNCHANGED <<alertVars, tickVars, totalVars>>
          \/ part = "tick" /\ Ticks!Next /\ UNCHANGED <<alertVars, groupVars, totalVars>>
          \/ part = "totals" /\ Totals!Next /\ UNCHANGED <<alertVars, groupVars, tickVars>>

Parts == {"drain", "minutes", "alerts", "groups", "tick", "totals"}

StoresSpec == part \in Parts /\ StoresInit /\ [][UNCHANGED part /\ StoresNext]_storesVars

--------------------------------------------------------------------------------
(* DrainCursor: no sample is added by two drains and none in reach is left out, *)
(* but those whose place an earlier boot had passed and those that a slip of    *)
(* the clock carried across the line (planDrain, selectFreshSamples); with the  *)
(* same exception the raw series holds a sample once, and none the minutes do   *)
(* not (commit, putSamples); and every sample added is in one minute's row or   *)
(* one month's (commit, compactEnergy).                                         *)
DrainIsExact ==
    part = "drain" =>
        /\ Drain!StraysOnlyBySlips /\ Drain!SkipsOnlyBelowAnEarlierBoot
        /\ Drain!RawSeriesIsOneHertz /\ Drain!EverySampleOnFile

(* RecordedMinutes: a sample that the polls' stamps keep in one minute is summed *)
(* once, however polls overlap and wherever a kill falls (historian.mts poll,   *)
(* EnergyStore.compact), and held once by the window the charts are drawn from  *)
(* unless a slip of the clock carried it across the line (TelemetryAccumulator);*)
(* the files lose nothing but what comes too late for its month's row or is     *)
(* swallowed by a torn line, and a poll brings every finished minute its ring   *)
(* has of such samples.                                                         *)
MinutesAreKept ==
    /\ [](part = "minutes" => Minutes!CountedOnce /\ Minutes!SeriesHoldsOnce)
    /\ Minutes!ErasesOnlyTheLate /\ Minutes!BackfillIsLossless

(* AlertEpisodes: the open episodes are what the devices last said, over their  *)
(* silences and the host's restarts, a router's silence is judged by the dish's *)
(* word (AlertEngine.update), and the episodes of one alert follow one another  *)
(* (nonOverlapping).                                                            *)
EpisodesFollowDevices ==
    part = "alerts" =>
        /\ Alerts!EpisodesFollowDevices /\ Alerts!RouterIsJudgedByTheDish
        /\ Alerts!EpisodesAreApart

(* ExtensionTick: what a tick tells people is what it wrote down, over teardowns*)
(* and repaints: each opening and closing of an episode is announced once, each *)
(* outage that ended has its report, and the badge at rest counts what is open  *)
(* (recordAlerts, recordOutageReports, updateBadge, announceAlerts).            *)
TellsWhatIsOnRecord ==
    part = "tick" =>
        /\ Ticks!AnnouncedFromTheRecord /\ Ticks!EndedOutagesAreReported
        /\ Ticks!BadgeCountsTheOpen

(* DeviceGroups: after a poll there is one rule for each group and member, on   *)
(* the group's terms (resolveGroupMembers, resolveRuleKeys, projectGroupRules), *)
(* a pooled allowance that is spent holds every member, those who joined it     *)
(* since included (evaluateMeters, chargedBytes), and a data-limit episode left *)
(* open belongs to a rule still announcing (retireMeterAlert, standDownGroup).  *)
GroupsGovern ==
    part = "groups" =>
        /\ Grouped!RulesFollowGroups /\ Grouped!PooledHoldsAll /\ Grouped!EpisodesEnd

(* UsageTotals: but for what the ceiling lets a stale reply repeat, no byte is   *)
(* in two odometers or twice in one and a month holds no byte of another         *)
(* (observe, advance, reanchor, merge), and unless an identity reports whose     *)
(* bucket's survivor is gone a snapshot restores what was saved (toSnapshot,     *)
(* loadSnapshot).                                                                *)
OdometersAreExact ==
    part = "totals" =>
        /\ Totals!CountsNoByteTwice /\ Totals!MonthHoldsItsOwn /\ Totals!MonthsAreApart
        /\ "stray" \notin Returning => Totals!RestoreResumes

(* DeviceGroups: the members count one sitting from one start, one that has run *)
(* out is not handed back by an edit beside it (groupClock), and no member is   *)
(* latched by bytes that are not charged to it (evaluateMeters).                *)
GroupsShareAClock ==
    /\ [](part = "groups" => Grouped!GroupsShareAClock)
    /\ Grouped!SpentTimersStaySpent /\ Grouped!LatchesAreEarned
================================================================================
