# Dishylink in TLA+

Dishylink monitors a Starlink dish and router from a desktop app (Electron), a
browser extension, or a container, over one set of modules in `core/`. It also
*acts*: a device that has used up its allowance, whose timer has run out or whose
timetable is shut is blocked at the router, through the person's Starlink account.
This directory specifies that program in TLA+: modules translated from the
TypeScript, TLC configurations that check them on small instances, and theorems
about them checked by TLAPS.

`PROJECT.json` holds the tables: components, runs, mutants, the map from every
definition to the lines it models, findings, hazards and theorems.

To check a run: `tlc -workers 2 -config BlockEnforcement.cfg MCBlockEnforcement.tla`.
To check proofs: `tlapm BlockEnforcement_proofs.tla`.

## The system

| Part | State it keeps | Operations | Code | Modules |
|---|---|---|---|---|
| Device blocks | one record per device: what the router was last told, when, and whether the roster has shown it | decide what is owed; note a write, its outcome, a landing, a release by hand | `core/devicePause.ts`, `collector/meterStore.mts` | DevicePause |
| Enforcement, recorder | the records and rules (`meters.json`), the last roster, writes in flight | poll, settle blocks, rule routes, restart | `collector/historian.mts` | BlockEnforcement |
| Enforcement, extension | the records and rules (IndexedDB) | a tick every 30 s, rule requests, worker teardown | `extension/lib/meterEnforcement.ts`, `apiRouter.ts` | ExtensionEnforcement |
| Metering rules | cycles, counters, latches, announcements | fold readings, roll, reach, edit, restart | `core/dataMeter.ts`, `core/schedule.ts` | MeterRule, DataMeter |
| Device groups | members and terms | project terms onto a rule per member, follow identities | `core/deviceGroup.ts`, `collector/groupStore.mts` | DeviceGroups |
| Usage totals | odometer per device, aliases | fold polls, re-anchor, merge, reset, snapshot, seed | `core/clientTotals.ts` | UsageTotals |
| Account session | cookie, cached token, refresh in flight, ids | connect, disconnect, refresh, heal | `cloud/starlinkCloudHandler.ts` | CloudSession |
| Extension's session | stored mark, the worker's copy, the cookie rule | read, connect, disconnect, teardown | `extension/lib/cloudHandler.ts` | ExtensionSession |
| Changes to the router | the queue of client updates | build, queue, send, retry, heal, give up | `cloud/starlinkCloudHandler.ts`, `core/router*Update.ts` | AtomicUpdates, CloudUpdates |
| Requests across addresses | which address answered last; a pool per address | race reads, walk writes, learn, forget | `cloud/resilientFetch.ts` | AddressWalk |
| The way to the router | the origin that served | try origins in turn, remember | `core/routerEndpoint.ts` | RouterOrigins |
| Telemetry, extension | cursor into the dish's ring, minutes, months, raw series | plan a drain, commit, compact | `core/drain.ts`, `core/telemetry.ts`, `extension/lib/*` | SampleRing, DrainCursor |
| Telemetry, recorder | open minutes, the log and the archive, the sample window | poll, flush, compact, snapshot, start | `collector/historian.mts`, `energyStore.mts` | SampleRing, RecordedMinutes |
| Latency figures | histograms of minutes and months | add, fold, read a percentile | `core/latencyBuckets.ts`, `latencySummary.ts` | LatencyFigures |
| Alerts | active alerts, episodes on disk | raise, hold, clear, seed | `core/alertEngine.ts`, `collector/alertStore.mts` | AlertEpisodes |
| Outages | samples, reports, rows of the log | notice, date, report, assign | `core/postmortem.ts`, `historian.mts`, `OutageLog.tsx` | OutageReports |
| The extension's tick | episodes, reports, badge, notifications | record, report, repaint, announce | `extension/entrypoints/background.ts`, `lib/collector.ts` | ExtensionTick |
| Announcements, desktop | what page and recorder each show and fire | poll, chime, notify | `useDeviceAlerts.ts`, `electron/main.ts` | AlertAnnouncements |
| Live readout | the figure beside the tray icon | report, poll, repaint | `electron/main.ts`, `historian.mts` | LiveReadout |
| Login window | its jar, an attempt under way | try a cookie, adopt, retry, close | `electron/cloud.ts` | SignIn |
| Page's account answers | snapshot, request, retry | load, reload, invalidate | `useCloudAccount.ts` | CloudStore |
| Page's router | source, roster, configuration, series | poll, fall back, refresh, tail | `useRouterNetwork.ts` | RouterSources, DeviceSeries |
| Speed test | phase, streams, counts | run, send chunks, watch, abort | `src/lib/speedTest.ts` and its panel | SpeedTest |
| Data directory | a pidfile | claim, reclaim, release | `collector/historian.mts`, `collectorLock.mts` | DataDirLock |

The parts meet in one place most of all. A poll of the router gives counters to the
usage totals, whose odometer is what the rules measure; the rules say which devices
are held; enforcement compares that with the device records and sends what is owed
through the account; the router obeys, and its roster, read by the next polls, says
so some seconds later. A person with the Starlink app works on the same router.
The hard behaviours are there: replies that never come, a roster that lags, a
restart with a write in flight, a person who disagrees, edits between any two
polls; and, in the extension, a tick that holds copies of two stores across
network calls, in a worker the browser may end at any wait. Around it every host
keeps a record of a dish that counts, reboots and counts again, from reads that
overlap, in processes that die between two writes; and a page shows it, over
panels that close with a request out.

What makes each part correct, in short:

- *Blocks*: a device no rule holds ends up free, one an enforcing rule holds ends up
  blocked unless a person overruled it, a block is never lost sight of, a person's
  release is never imagined and never overruled, and the account is not asked for the
  same write again inside a minute.
- *Rules and groups*: a cycle charges each byte once, a latch belongs to the cycle
  that set it, an announcement is made once and retired once, whatever restarts;
  a group is one rule per member on its terms, and its members share one clock.
- *Usage totals*: a byte is counted once under whatever identity, in one month.
- *Account*: what is remembered is of the account that is stored; changes apply as
  if one at a time, and every one is answered; a call fails only where no edge serves.
- *Telemetry*: a sample is stored once, over reboots, gaps and kills; nothing in
  reach is left out; figures are those of the readings.
- *Alerts and outages*: the open episodes are what the devices last said, each is
  told once, and an outage has its report, dated from its start, on its own row.
- *Page*: what is watched is answered, by this session; either source serves; every
  sample is drawn once; nothing outlives its panel.
- *Data directory*: one writer, and no start kept out by a crash.

## How the modules are put together

Three modules stand alone (`BlockEnforcement`, `ExtensionEnforcement`, `DataMeter`);
the others are put together by what they are about:

| Module | Parts |
|---|---|
| `Account` | `updates` (CloudUpdates), `session` (CloudSession), `walk` (AddressWalk), `worker` (ExtensionSession) |
| `Stores` | `drain` (DrainCursor), `minutes` (RecordedMinutes), `alerts` (AlertEpisodes), `groups` (DeviceGroups), `totals` (UsageTotals), `tick` (ExtensionTick) |
| `Desktop` | `claims` (DataDirLock), `readout` (LiveReadout), `alerts` (AlertAnnouncements), `login` (SignIn), `store` (CloudStore), `router` (RouterOrigins), `sources` (RouterSources), `series` (DeviceSeries), `outages` (OutageReports), `figures` (LatencyFigures), `speed` (SpeedTest) |

Their parts share no state (or, in `Stores`, only the dish), and a variable `part`,
fixed at the start, says which of them a behaviour is of. It is a sum of state spaces
and not a product: each part is checked exactly as a run of its own would, and each
property is of the part it names. Where parts do depend on each other, each has the
other as an outcome any step may have: a change to the router may find its session
lapsed, a session's refresh may fail, a call may find no edge, enforcement is given any
set of rules that hold, rules are given any odometer that grows.

An `MC` module (`MCAccount`, `MCStores`, `MCDesktop` and those of the three) gives the
constants their values and trims what tells nothing apart; the theorems are about the
modules it extends, for every value.

The composition that does share state is inside the modules: `BlockEnforcement` and
`ExtensionEnforcement` extend `DevicePause`; `DataMeter` and `DeviceGroups` extend
`MeterRule`, and the second adds the alert log; `DrainCursor` and `RecordedMinutes`
extend `SampleRing`. `CloudUpdates` implements `AtomicUpdates`, which is the
abstract specification the account keeps for its two kinds of change.

## What is modelled: enforcement

### DevicePause

`core/devicePause.ts` as pure operators, one per function, with the note methods of
`MeterStore` that the enforcement builds on them. It has no variables; both
enforcement modules extend it, as both hosts import the file. Two abstractions:

- A device with no record reads, in every function of the file, exactly like the
  record `Blank` (state none, nothing attempted, not confirmed, not overridden), so
  the map is total and forgetting a record is writing `Blank`.
- `checkedMs` is only compared with the clock (`now - checkedMs >= retryMs`). A
  record carries its age, which `Aged` counts up to `RetryWindow` and no further.

A rule is its identity. `holding` is the set for which `ruleHoldsDevice` is true and
`auto` the set that enforces; a rule in the first and not the second only watches.

### BlockEnforcement (run on `MCBlockEnforcement`)

The recorder. An action is one run-to-completion turn of its event loop, or one step
of the world it does not control.

| Actions | Code |
|---|---|
| `UpsertRule`, `DropRules` | the rule routes: `upsertMeterFrom`, `remove*`, `clear`, and what a projection drops. They touch rules only |
| `RunMeters` | `pollClients` after its await: `runMeters` and `settleDeviceBlocks`, whole. Roster noted, rules evaluated (any set may hold: `nowHolding`), settled overrides cleared, every owed write stamped and sent |
| `Land`, `Dropped`, `Refused`, `ReplyOk`, `ReplyLost` | the write in the account's queue, in order; the two halves of `sendMeterPause` after its await |
| `RosterCatchesUp`, `ReadRoster`, `MissingFromRoster` | the router's own roster moving on; `getClientReadings` replacing `blockedByClientKey` |
| `HandFree`, `SignOut`, `SignIn`, `Restart`, `Tick` | a person, the account, the process, the clock |

`writes[d]` is the account's queue as one device sees it. `behind[d]` are states of
the router its roster has yet to move past; `roster[d]` is what the recorder last
read. The roster is read for one device at a time, which is more behaviour than
reading it whole. `asked` and `opened` are history variables, read by properties and
by nothing that models code, except that `asked` bounds `Tick` (below).

*Faults* is the set of things that may go wrong. `BenignFaults` are the ones the code
was written to absorb; without the rest, two assumptions hold that the code relies on
and nowhere states: a write does not outlive its retry window (`slowWrite` lifts it)
and a write does not reach the router before the roster has shown the last one
(`staleRoster` lifts it). The run `all_faults` lifts every assumption.

*Bounds.* `MaxWrites`: the clock stands while a device has that many writes out, and
a rule does not take hold then; `MaxBehind`: how many changes the roster may have yet
to show. Both are 2, one more than the benign faults can reach. `RetryWindow` is 2
ticks, the least for which an age is neither new nor stale. One device: the code
treats devices one by one, in every function, and shares nothing between them but
the account's queue, whose order across devices only delays; the theorems hold for
any number. Two rules on it in `enforcement`, so that one may let go while the other
holds or only watches; one in `all_faults`, where the state space is large.

*Fairness* (`Fairness`). `setInterval` and `nonOverlapping` bring the poll round
whatever the last one did, and a roster read is gone through before the next replaces
it: strong fairness of `RunMeters /\ UNCHANGED holding`. (Plain `RunMeters` would be
fair vacuously: another holding set can always be chosen.) The clock ticks. A write
the router keeps being offered lands in the end and is answered in the end: strong,
because it may be refused, dropped or lost any number of times first. Nothing is
assumed of people, of the account or of restarts.

*Properties.* `RecordInStep` says what record, write, router and roster know of each
other, and is the inductive invariant. `BlockIsRemembered`: a device the router
blocks has a record that can still lead to its release. `EventuallyFree` and
`EventuallyBlocked`: the two promises of `settleDeviceBlocks`. `RetrySpacing`: the
same write is not asked for twice in one window. `OverrideNeedsAnOpening`: the
program records a release by hand only where something opened the device.
`HandReleaseStands`: an override ends only with the hold.

### ExtensionEnforcement (run on `MCExtensionEnforcement`)

The extension decides with the same functions, and lives differently: a tick
(`drain` through `singleFlight`) reads rules and records (`BeginTick`), waits for each
write in turn (`Send`, `Land`, the replies), then writes back the rules (`WriteRules`)
and the records (`WritePauses`). A request is a read (`ReadForEdit`) and a write
(`WriteEdit`). `Teardown` is the browser ending the worker: whatever a tick or a
request held is gone. `router` and `shown` are as above, the roster one change late
at most.

*Bounds.* One device with two rules, `RetryWindow` 2. The clock moves between ticks
only: a tick is over well before the next alarm. In the run `extension`, requests do
not overlap a tick, account replies to a *pause* are not lost, and a teardown comes
before a pause of its tick lands; each of these is a fault of `FaultKinds` that
breaks a promise (see the findings and the last section), and the run shows that
without them the promises hold.

*Fairness.* The alarm comes round, the poll succeeds with an account found signed in
again and again, and a write lands and is answered in the end. Teardowns are any in
number and not for ever: the model says that from some point on only teardowns that
lose nothing happen. That is what Chrome does for a worker with work in flight; under
teardowns timed to cut every useful tick short, nothing could be enforced. That the
account is *found* signed in is more than that it is: a worker woken anew finds it so
only once a page of the dashboard has read the account (`worker_forgets`), so
`EventuallyFree` and `EventuallyBlocked` of the extension rest on one that does.

Left out: the projection of groups and the announcements; a write that reaches the
router after the worker that sent it is gone; two requests at once (which lose each
other's edit the way a tick loses one).

## What is modelled: rules and devices

### MeterRule and DataMeter (run on `MCDataMeter`)

What decides that a rule holds. `MeterRule` is `core/dataMeter.ts` as pure operators
over one rule, and the timetable of `core/schedule.ts`; `DataMeter` is the recorder
round it: `MeterStore`, the usage odometer as far as rules read it, the requests, and
the two files.

| Operator or action | Code |
|---|---|
| `Rolled`, `Evaluated` | the two passes of `evaluateMeters`: fold the reading, turn the window and the cycle over; then test, latch, announce, retire |
| `CreatedRule`, `Upserted`, `RestartedCycle` | `createRule`, `upsertRule`, `restartCycle` |
| `Stored`, `RestoredRule` | what JSON does to `Infinity`, and `restoredRule` undoing it |
| `Poll` | `pollClients` and `runMeters`: odometer folded, `resolve`, `observe`, and the writes either makes |
| `SetRule`, `RestartRule`, `RemoveRule` | the routes under `/api/clients/meters` |
| `ResetTotals`, `DeleteRecord`, `ClearRecords`, `Merge` | the routes under `/api/clients/totals` |
| `SnapshotTotals`, `Crash`, `Tick` | the minute's snapshot of the odometer; a kill and a start from the files; the clock |

`counter` and `rules` are memory, `counterDisk` and `rulesDisk` the files. The
odometer is written every minute and after most requests, rules at once when
something is announced or edited and otherwise every `CounterFlush`; the two are
never written together, so a start may pair rules and counters that never stood side
by side. A write of the rules may fail, and the code goes on (`Persist`).
`countersWrittenMs` is 0 at a start, which is any amount of time ago: `None`.

Abstractions. Download and upload are one counter. A cycle is `daily` or `once`: the
others are `daily` with other boundaries. A timetable says which ticks of a day are
shut; weekdays and dates would make the day longer. A rule carries `sent`, which the
program does not have: the bytes the odometer counted for the device since the
cycle opened, kept beside the rule in both copies so that what a kill forgets is
still counted as sent. Left out: `autoPause` (whether a held device is blocked is
the enforcement's question), `windowActed` (read by nothing that decides),
`periodStartMs` and the cap on a countdown. Requests name an identity that is not
merged away; a device that reports under a merged id adds to its survivor, which
is a larger reading of the survivor.

*Bounds.* `meter_bytes`: one device (rules share nothing), three terms, at most 2
bytes and 4 ticks of a 3-tick day, so that a cycle rolls, an allowance is reached,
edited away from and reached again, with 2 requests and one kill. `meter_clock`: two
devices, symmetric, that may be merged; 3 ticks, 3 requests, one kill; bytes stand
still, since the other run is about them. `CounterFlush` is 2 ticks, so that polls
both do and do not write.

*Properties.* `NeverOvercharged`: what a rule charges was sent in its cycle.
`CountsEveryByte`: nothing sent goes uncharged, until a kill. `HeldWhenDue` and
`HeldOnlyWhenDue`: a rule holds its device when, and its latches only when, one of
its measures has run out. `BoundariesAreCurrent`: after a poll no rule lives by a
boundary that has passed. `AnnouncementsRetire` and `StandingTermsFollow` as their
comments say.

### DeviceGroups (part `groups` of `Stores`)

Rules set over several devices at once, down to the alert log: groups written,
deleted, left and restarted, the projection of their terms onto one rule per member
(`projectGroupRules`), a device's own rule beside them, identities that merge under
them (`resolveGroupMembers`, `resolveRuleKeys`), pooled allowances and the clock the
members share, and the episodes announcements open and close. After a poll there is
one rule for each group and member on the group's terms, a pooled allowance that is
spent holds every member, those who joined since included, and a data-limit episode
left open belongs to a rule still announcing (`GroupsGovern`); members count one
sitting from one start, a sitting that has run out is not handed back by an edit
beside it, and no member is latched by bytes not charged to it (`GroupsShareAClock`).
One group, two devices, two group terms (an allowance by the day, a sitting of one
tick with an allowance that does not renew), own terms of one; 1 byte a device,
2 ticks of a 2-tick day, 3 edits: joining, leaving and editing fit between any two
polls. `split` and `stranded` exempt what the code does let happen (see "Seen while
modelling").

### UsageTotals (part `totals` of `Stores`)

The whole of `ClientTotalsCore` that keeps state: `observe` with counters that reset
or are reissued, gaps and plausibility (`advance`, `reanchor`), months, identities
adopted by hash or address, merged by a person, reset, removed, compacted; the
snapshot, a start from it, and the seed from recorded history. `host`, fixed at the
start, is the program the core runs in: which identities it comes to see, whether it
seeds at every start (the recorder does, the extension never), and how far its
behaviours go. The run has four, because their product would be out of reach: two
identities on one address under requests; the same under a restart that seeds; three
identities with a router's hash on two addresses, without traffic; and one identity
about which a reply may be stale. A poll is `Polled`: the roster noted, then one
`Reading` after another. What the router says (`Replies`) is what its counters stand at
or, of one device, any figure it has stood at before (`Late`; `highest` remembers how
high), which is the reading the ceiling in `advance` was written for. The core takes such
a figure for a counter that restarted, and the next true one for growth: both differences are
charged, as far as the ceiling believes them. `again` is that allowance (`Believed`,
`Repeated`), and what may be charged is the bytes carried and it (`Chargeable`).
`OdometersAreExact`: no byte is in two odometers or twice in one but what the ceiling lets
stale replies repeat, a month holds no byte of another, a closed month and the running one
share none, and a snapshot restores what was saved. That a stale reply adds nothing at all
is false ("Seen while modelling").
A gap of more than one tick is longer than `MAX_GAP_MS` here and a month has two
ticks, so both limits are crossed in the two ticks there are. `Returning` says which
superseded identities a router may list again; `"stray"` is one merged into a bucket that
was dropped since. A snapshot read back keys that one anew, so the last of the four is
said of a world without it, as the run's is. Buckets that hold bytes twice by what the code does
(`doubt`: a seed's, and those of merged ids still reporting) are left out of the first two.

## What is modelled: telemetry and alerts

### SampleRing, DrainCursor, RecordedMinutes (parts `drain` and `minutes` of `Stores`)

`SampleRing` is the dish: a second at a time it writes a sample, may reboot (its
counter starts over, and may come to pass where it stood), and keeps the last
`RingSize`. A sample is its place in the dish's life, `[boot, k]`, which the program
never sees; it sees a window of the ring, a counter, and the stamps it computes. A
reply is pinned to the clock when it is read, at any of `Phases` of the dish's second
(quarter seconds, 0 to 3), so that two stamps of one sample differ by up to
three quarters: more than the half second `selectFreshSamples` allows. The samples such
a slip carries across the line of half a second are `Astray`, of the window and of
the reply the cursor's newest stamp came from (`Slip`); where the counter is trusted there
are none.

`DrainCursor` is the extension: `ReadWindow`, `Commit` (rows and cursor in one
transaction), `PutSamples`, `CompactEnergy` on its own alarm, `Teardown` anywhere.
`DrainIsExact`: a sample is added by two drains, or left out by one that judges by stamps,
only if it went astray (`StraysOnlyBySlips`); one in the reach of a drain that trusts its
counter is left out only if an earlier boot had passed its place
(`SkipsOnlyBelowAnEarlierBoot`); the raw series holds a sample once but for those astray,
and none the minutes do not; and while nothing was added twice the samples taken are as many as the
minutes' rows and the months' count together (`EverySampleOnFile`). That raw rows are
pruned at an age is left out.

`RecordedMinutes` is the recorder: a poll has the dish's answer (`Fetch`), awaits the
router's log, and only then stamps what it holds (`Poll`), up to `MaxAwait` later, while
the dish goes on; it may be cut anywhere by a kill (`PollCut`). Open
minute buckets, the log appended to, `Compact` into the archive (`CompactionCut`),
`Snapshot` and `Start`. A kill may leave half a line (`Tearing`). `lags` remembers how late
polls stamped; a sample is `Astride` if two of those lags put it in two minutes.
`MinutesAreKept`: a sample is summed once unless it is astride, and held once by the window
the charts are drawn from unless it went astray; the files lose nothing but what comes too
late for its month's row or is swallowed by a torn line; after a poll every sample of a
finished minute the ring still has is on record, unless it is astride.

Bounds: a ring of 3, minutes of 2, years of 4 (one month each), one reboot: the ring
wraps, a minute straddles two polls, a year turns over within it. The drain goes to 4 seconds
at three phases, so that slips are on either side of half a second. The recorder goes to 5
seconds with two kills, of which the second may fall on the recovery from the first; its
lags are 0 and the second that the router's log may take, twice what is allowed.

### LatencyFigures (part `figures` of `Desktop`)

Readings folded into a minute's histogram, old minutes into their month, percentiles
interpolated back off any mixture. Checked against a reference that counts the
readings: `FiguresAreOfTheReadings` says that none is lost, that no edge of a bin lies
between a percentile and the reading of that rank, and that a higher percentile is no
lower. `AddSource` is the fold of the stores, which keep the extremes; what is served is
read off `mergeBuckets`, which adds up counts, sums and bins and leaves minimum and maximum
empty (`MergeBuckets`). Fractions are exact. Three edges, values on, between and beyond them and 0 (no
reading), 3 readings over 3 minutes.

### AlertEpisodes (part `alerts` of `Stores`)

The engine (`AlertEngine.update`), the polls of dish and router that may overlap and
fail (`HearDish`, `HearRouter`), the episodes written from their transitions
(`Record`), retention, and a restart that seeds from the open ones.
`EpisodesFollowDevices`: between polls the open episodes are what each device said
when it last answered; a router's silence is judged by the dish's word; the episodes
of one alert follow one another.

### OutageReports (part `outages` of `Desktop`)

A dish that drops seconds; polls that judge the run of drops (`isStarlinkOutage`),
ingest samples, date the outage (`outageStartMs`), write the report as it ends; and
the row of the dish's own log that shows it (`assignReports`). The dish dates its log by a
clock of its own, an outage at most `MaxStray` off (`Strays`), each by itself (`Datings`): a property of
the rows is said of every dating. The recorder never reads those dates. `OutagesAreTold`:
an outage that outlasts a run and two polls has its report, dated from its first second, and
its own row shows it, unless another outage or report is so near that the dates may take
the one for the other (`IsApart`); no report is on two rows, no row has two, and each
overlapping pair is passed over only for one at least as near (`NearestOwns`). Polls may be further apart than a run is long
(`POLL_MS` is 5 s against a run of 8, and one failed poll makes it 10): then two outages
may be so near each other that no poll has to find them apart, and the first clause is
said of one that stands apart from the others (`StandsAlone`, which holds of every outage
where `MaxGap` is at most `RunLen`). The code sorts the overlapping pairs and takes them in
turn; `Assigned` says the same of the set: a pair is taken unless a sooner one of those
taken has its report or its row. A run of 2, polls at most 2 apart, 8 seconds, dates up to 2 off, as far as
the tolerance: two outages with a gap shorter and longer than a run.

### ExtensionTick (part `tick` of `Stores`)

One tick in its waits: `Begin` (or `BeginBlind`, where the store does not open),
`ReadOpen`, `Record`, `Report`, `Remember`, `ReadMode`, `SetBadge`, `Announce`, `Post`;
a repaint beside it; a teardown at any point. `TellsWhatIsOnRecord`: each opening and
closing on record is announced once and nothing else is, each outage that ended has
its report, and at rest the badge counts what is open. Three ticks: open, go on, end.

### AlertAnnouncements, LiveReadout (parts `alerts`, `readout` of `Desktop`)

`AlertAnnouncements`: the page chimes while its window is in front, the main process
notifies while it is not; both poll the device at their own time. A page that opens has no
audio context until the first gesture, and the sound has a switch (`audible`, `Touch`): a
chime that cannot sound is not noted either, while the main process holds its banner
back for the window in front all the same. `AnnouncedOnce`: what both have heard of was
announced at most once, and once unless the window it is left to cannot sound, unless
window, sound or preference changed between, the throttle held it back, or the device
fell silent over it.

`LiveReadout`: the open window asks the dish each second (`PageAsks`), one poll at a time,
reports what it reads (`Report`) and gives a poll up after `StatusMs` (`PageGivesUp`); the
recorder polls while no window reports, the tray paints. `ReadoutIsTrue`: off, the recorder
is not asked and nothing is painted; on, no figure is older than the limit, a dish that
answers is asked by page and recorder both for a second at most, the one in which the one
takes over from the other, and the handover shows no zero. A dish that is silent
under an open window is asked by both for as long as it is silent ("Seen while
modelling"). The limits are those of the program, 6, 4 and 4 s.

## What is modelled: the account and the page

### AtomicUpdates, CloudUpdates (part `updates` of `Account`)

`AtomicUpdates` is the promise: a change touches the one setting it names, between the
asking and the answer; changes to queued settings are carried out and answered in the
order asked; done is answered only of what was carried out (except of a change that
severs its own answer). `CloudUpdates` is what does it: `updateClient` and
`updateRouterConfig` build a write of a whole block from what was read (`Prepare`),
send it to address after address (`Send`, `Lost`), renew a lapsed session once
(`Lapsed`), build anew when the gateway misses the router (`Missing`, `Resume`), give
up at deadlines (`Deadline`). `Arrive` is the router taking it, answered or not.

The refinement is `Promise == INSTANCE AtomicUpdates WITH Unconfirmed <- Severing`, the
other variables under their own names, and `KeepsThePromise == Promise!Spec`: checked
as a property of the run and proved (below) under what it needs: only client settings
share a block (`OwnBlocks`), no write outlives its answer (`~Late`) and nothing but the
program writes. Two requests, four settings, two addresses: two client settings in one
block, one persistent, one severing.

`EveryChangeIsAnswered` is checked under weak fairness of each request's next step: the
deadlines are timers, and fire.

### CloudSession (part `session` of `Account`)

The cookie, the token minted from it, one refresh shared by reads, the refresh of its
own a change brings; connect, disconnect, tokens that lapse, sign-ins that end, at the
grain of an await. `CachesAreTheAccounts`: what is remembered is of the account that
is stored, unless a call begun under another came back after the change. `ChangesEnd`:
a change ends beside a read that hangs for ever. `OneLapseHeals`: a token that lapses
under a call is renewed and the call made again. Two calls at once: two reads (which
share a refresh), or a read and a change; three at once run apart (1.38 M states).

*Fairness*: weak, of a change's steps only; nothing is assumed of reads.

### ExtensionSession (part `worker` of `Account`)

The extension stores only a mark that it is connected; the cookie is the browser's,
copied into the worker's memory and appended to its requests by a session rule. The
browser carries out what is asked of its stores, cookies and rules in order and answers
later, between which other requests and a teardown fall. `ConnectedIsServed`: once a
connection has been answered, a read begun since is answered under it, whatever else
was under way and however often the worker was torn down. Two requests, one sign-in,
one teardown; with three requests and two sign-ins it holds as well (3.8 M states).

### AddressWalk (part `walk` of `Account`)

`resilientFetch`: a read races every address, a write walks them; pools are shared and
destroyed when condemned; the address that served goes first. `RememberedServedLast`
and `AnsweredWhereAnEdgeServes`: where an edge serves throughout, a call its caller did
not give up fails only if the name did not resolve, silent edges spent the walk, or a
neighbour destroyed its pool. Two edges, of which one always serves; three edges with
two silent attempts run apart (1.05 M states).

### RouterOrigins, RouterSources, DeviceSeries (parts `router`, `sources`, `series` of `Desktop`)

`RouterOrigins`: a laptop that moves between two networks and an address set by hand;
a call dials only its own candidates, and fails only if none of them answered all the
while. `RouterSources`: `useRouterNetwork`'s two sources, the misses that make it fall
back, the two reads through the account, a panel that opens and closes, a client that
cannot be loaded (`LoadFails`); an effect closed in its first poll sets its timers all the
same (`TimersSet`). `EitherSourceServes` is liveness under fairness of timers and requests,
for a client that loads.
`DeviceSeries`: the series seeded once and tailed; `SeriesIsWhole`: every sample of a
device is drawn once up to where the tail has got.

### CloudStore, SignIn, SpeedTest (parts `store`, `login`, `speed` of `Desktop`)

`CloudStore`: one shared answer, its components, retries and the host's session, whose
changes the page hears of later. `WatchedIsAnswered`: an answer is written only if it
was given under the session the page knows of or a later one, and a component that
waits is answered. `SignIn`: the login window tries its jar on every cookie and load,
one attempt at a time, while the site is still minting; `GoodSessionIsTaken`.
`SpeedTest`: runs, phases, streams of chunks, a panel closed at any moment;
`RunsEndWithTheirPanel`: only the open panel's run loads the link and is shown, a byte
is counted once over chunks that end, fail or are cut, and every run ends though its
requests hang.

### DataDirLock (part `claims` of `Desktop`)

`claimDataDir` and `releaseDataDir`, at the grain of one system call on the pidfile,
which is what other processes interleave with. A process is a pid, dies anywhere
(`Die`) and may come back with the same pid. The lock remembers its maker, because a
write through a descriptor reaches the file that was opened even when another has
taken its name since. `MaxAttempts` is 5 in the code and 2 in the run (one
failure and one success; more attempts repeat the same states). Three pids: an owner,
a claimant, and a dead one whose lock is left.

`Overlap` says whether one recorder may start while another is claiming. The code's
comments claim a single owner without saying so; the property holds exactly while
starts do not overlap, which is how the run has it. `CrashNeverWedges` is checked under
weak fairness of each process's next step: a process runs on until it is killed.

## Runs

| Run | Shows | States |
|---|---|---|
| `enforcement` | the recorder's six properties under the faults it was built for | 16,364 |
| `all_faults` | `EventuallyBlocked` under every fault of the model | 87,176 |
| `extension` | the extension's three properties | 32,471 |
| `meter_bytes` | allowances: charged once, in full, latched when due and only then | 1,168,951 |
| `meter_clock` | countdowns, timetables, announcements and merges: nothing outlives its end | 356,137 |
| `stores` | samples, minutes, episodes, totals, groups, ticks: nothing recorded is counted twice, dropped or left open | 1,789,121 |
| `account` | the account's calls: the promise of `AtomicUpdates` kept, every change answered, nothing of another account remembered | 338,289 |
| `desktop` | what runs around the recorder and on the page: one owner, one announcement, either source, every sample once | 316,701 |
| `lost_reply` | violation of `EventuallyFree` | |
| `extension_erased_edit` | violation of `TickKeepsEdits` | |
| `session_returns` | violation of `DisconnectedStays` | |
| `worker_forgets` | violation of `EachRequestIsServed` | |

Every property of a passing run has a mutant: an operator marked `[mutant]` beside
the one it changes, a plausible slip in that code, under which the property fails.

*Bounds.* Each is named in its module and given in its configuration (those of
`UsageTotals` that differ by host, in `MCStores`). They are chosen so that the whole course of the hazard fits
and once more over: a cycle that is spent, edited and spent again; a ring that wraps, is
read, and is read again after a reboot; a call that fails over and is retried while its
neighbour forgets. Time, bytes and requests only ever grow in the program; the models
stop at the bound (`CHECK_DEADLOCK FALSE`), and liveness is checked only in modules
where nothing that must happen is stopped by one. Larger instances were run apart,
and hold: three account calls at once (1.38 M states), `AddressWalk` with three edges
and two silent attempts (1.05 M), `ExtensionSession` with three requests (3.8 M),
`OutageReports` to 9 seconds (135,441), `RouterSources` with two openings (182,450),
`LatencyFigures` with 4 readings (86,155), `DeviceSeries` with 4 samples (69,880).

## Findings

Each is a place where the code does not do what a comment or document says, and a run
shows how.

1. **A pause that landed and whose answer was lost is never released**
   (`lost_reply`). The record says `failed`. While the rule holds, the next attempt
   repairs it. If the rule lets go first, `releasesOwed` looks only at `applied` and
   a stalled `pending`: the device stays blocked with nothing to free it. The comment
   on `releasesOwed` resolves this same doubt towards releasing, for a write cut off
   by a restart; a write cut off by a timeout goes the other way. The same state is
   reached when a *repeat* of a landed pause is refused (`refusedRepeat`), when a
   signed-out scan records `failed` over a block (`signOut`, `historian.mts`
   1402-1405), and, from the other side, when a release is accepted and dropped
   (`droppedRelease`): the record then says `none`.
2. **A tick of the extension undoes an edit made while it waits** (`extension_erased_edit`).
3. **A disconnected account comes back** (`session_returns`). A refresh under way at
   the disconnect stores the cookie it brings afterwards.
4. **A worker woken anew takes the account for not connected** (`worker_forgets`). Only
   reads of the account reload the session; a change is refused and a tick records
   "No Starlink account connected" until a page reads it.

## Seen while modelling, without a run

Each of these is something a definition of the modules says and the model breaks. The
constants or definitions in brackets reproduce it; none is a property of a run.

*Enforcement.*
- An old block can confirm a new one: `blocksLanded` takes any `blocked` reading as
  this write having landed. With the roster more than one change behind, the reading
  can be of the block before, and the release after it is then read as a person's
  [`staleRoster` in `Faults`: `OverrideNeedsAnOpening`; `devicePause.ts` 185, 201-202].
- Two recorders can own one directory: a pidfile just made is empty until it is
  written, and an empty one reads as pid 0 and is removed as stale; more generally the
  reading and the removal are two system calls [`Overlap = TRUE`: `SingleOwner`;
  `historian.mts` 1975-1976, 2002]. `readFileSync` in `claimDataDir` is not guarded: a
  lock removed between the two calls ends the start with ENOENT.
- A device with no router id is recorded `failed` without being stamped
  (`historian.mts` 749-754), so each 200 ms poll notes it again and writes
  `meters.json` each time, which `noteAttempt` exists to prevent (`meterStore.mts`
  207-209).
- In the extension a worker ended after a pause landed and before line 119 leaves a
  block without a record [`lateTeardown`].

*Rules and groups.*
- A rule is charged for another bucket when two are joined: `merge` adds the lifetimes
  and moves the month's anchor, and no rule's [`Merging = TRUE`: `NeverOvercharged`;
  `clientTotals.ts` 694, against `dataMeter.ts` 585-587].
- A spent allowance that is taken away goes on holding: editing a rule down to a
  timetable leaves `actedThisCycle` [`NoAllowanceIsNeverSpent`; `dataMeter.ts` 738,
  against 353-355].
- `meters/reset` and `totals/reset` clear an announcement's stamp without closing its
  episode, and a kill between `meters.json` and the alerts file does the same
  [`EveryEpisodeEnds`]; `totals/reset` of one member starts its clock alone
  [`GroupsAlwaysShareAClock`; `dataMeter.ts` 288-290]; a device's own rule and a
  group's per-member rule share one episode key.
- After a kill the odometer resumes from a snapshot that may lie below a rule's stored
  anchor; until it passes the anchor again the rule charges nothing, which is why
  `CountsEveryByte` stops at a kill. `restartCycle` anchors on the counter as the rule
  last read it: a restart requested before the first poll after a start charges the
  new cycle with what lies between.
- `historian.mts` 1686-1688 speaks of a counter that "has gone back to nothing" on
  `totals/reset`; the lifetime the rules read stands, only the month's anchor moves.
- `RuleDialog` and `MeterForm` remove a device's rule and then save the group; the errors
  are swallowed (`useDataMeter.ts` 241-245), so a refused second request loses the rule
  in a dialog that closes as if saved. The guard for the host's own device refuses
  releases as well as pauses.

*Usage totals.*
- A seed laid beside a known device, and the reports of an identity merged away, count
  bytes twice [`CountsNoByteTwiceAtAll`; `clientTotals.ts` 113]; the seed runs on every
  start and may leave a bucket nothing answers to.
- A stale reply that the link could have carried is taken for a counter that restarted, and
  counted again; a figure from before a restart is taken for growth, with no ceiling
  [`StaleRepliesAddNothing`; `clientTotals.ts` 222-228, against 491-497].
- A merge of identities the router goes on listing does not take
  [`Returning = {"merged", "adopted"}`: `MergesTake`; `clientTotals.ts` 638]. A merged id
  whose survivor was removed is keyed anew on restore [`Returning` with `"stray"`: `RestoreResumes`].

*Telemetry.*
- After a reboot, samples below the place an earlier boot had been read up to are
  skipped [`SkipsNothing`; `drain.ts` 36-37, against `telemetry.ts` 421-424]. Where stamps
  decide, a reply that slips by more than half a second adds a sample twice or leaves one
  out [`NothingTwice`, `SkipsNothing`; `telemetry.ts` 446-448, against 421-424 and
  `drain.ts` 5-10].
- A sample by a minute's edge is filed in both minutes or in neither, as the polls' stamps
  move it over the edge; the wait for the router's log moves it further
  [`ReplacingIsIdempotent`; `historian.mts` 1503-1528, against 1544].
- At the turn of the year compaction folds minutes the charts still draw
  [`DrawableMinutesStay`, with `ViewLen` 6; `energyStore.mts` 55, against 9-12]. Minutes
  appended after their month was archived are dropped; a torn line swallows the next
  row; a dish that reboots within a minute replaces the minute's open bucket
  (against `historian.mts` 1088-1091).

*Alerts.*
- A restart forgets the dish's word, and a router that is bypassed is a fault until
  the dish answers [`TheDishsWordIsHeld`]. A failing flush loses the poll's remaining
  transitions while the engine has moved on.
- An outage shorter than a run and a poll, over when noticed, is dated from the stamp
  at its recovery [`DatedFromTheDrop`; `postmortem.ts` 78-79, 122-125].
- A short outage just before a long one may take the long one's report, by the dates the
  dish gives them [`NearestIsItsOwn`; `postmortem.ts` 271-299].
- With the window in front and the sound switched off, or before the first gesture, an
  alert is announced by nobody: the chime returns early and the banner is held back
  [`TheChimeIsHeard`; `alertSound.ts` 96 and `main.ts` 630, against 617-618].
- A repaint beside a tick leaves a stale badge, a tick whose store does not open blanks
  it [`BadgeIsTrueAtRest`]; a tick torn after recording loses its announcements.
- [`ClearsAreClears`, `AnnouncedWhateverTheFocus`] of `AlertAnnouncements`.

*Account.*
- Two settings of one mesh block undo each other [`Settings` with `mesh1`, `mesh2`:
  `ChangesKeepEachOther`; `routerConfigUpdate.ts` 60-61]; a write given up on may be
  carried out later [`Late = TRUE`]; edits of the official app between the read and the
  write are undone, which nothing in a read-modify-write can help.
- Overlapping refreshes can leave the older cookie stored; `forgetSession` does not drop
  `refreshInFlight`; a connect that fails leaves the refused cookie stored.
- In the extension a read that overlaps a disconnect puts the copy and the rule back
  until the next request, and the rule outlives the worker [`DisconnectedHoldsNothing`].
- A caller's own deadline condemns a host's pools, and a pool destroyed under a call is
  not among the failures that try another address [`FailsForItsOwnReasons`].

*Desktop and page.*
- Of a silent dish an open window has nothing to report, so the recorder asks it every
  second beside the page, which goes on asking [`NeverPolledTwiceASecond`; `main.ts`
  457-459, against 454-456].
- Opening a window paints a zero until its first reading (`LiveReadout`). A sign-in
  cancelled or refused may yet connect, and a window on a good session may be left
  untried after a fault with no load to come [`OnlyOkConnects`, `NobodyIsParked`]. `CloudStore` may go on showing what it knew
  of a session that was replaced [`DropsWhatItKnew`]. A tail read to its end by a panel that
  had closed is drawn twice [`DrawnOnce`]. The router goes on being polled by a panel
  that closed while it was first read [`PolledOnlyWhileOpen`; `useRouterNetwork.ts` 471-472], a
  client that failed to load is kept and never loaded again, so that the router is not
  reached until the page is loaded anew [`AnsweringServes`; 331-332 and 473-475], and a configuration can
  be the other source's [`ConfigNamesItsSource`, `ConfigComesHome`].
- `BypassSwitch`'s `assumed` state has no end once the account is lost while settling
  (against lines 3-5 of `BypassSection.tsx`); polled hooks carry no token, so that an
  older load may overwrite a newer until the next; `browserHost.mts` removes
  `historian.lock` unconditionally before starting the recorder (198-205).

## Proofs

All theorems hold for every value of the constants that meets the modules' ASSUMEs;
what a theorem needs beside those is in its statement. The assumptions on constants are that
`None` is no value it stands beside, that bounds and lengths are naturals, and what the
code's own constants satisfy (`1 < ReportStaleMs < StaleMs`; a retry window and a minute
are not empty).

### Enforcement

`BlockEnforcement_proofs`, under `Faults \subseteq BenignFaults` except the first:

- `TypeCorrect`: `Spec => []TypeOK`, under any faults.
- `StaysInStep`: `[]RecordInStep`; `BlocksAreRemembered`: `[]BlockIsRemembered`.
- `StaysInHistory`: `[]ActionInv`, and from it the three action properties:
  `OverridesComeFromOpenings` (`OverrideNeedsAnOpening`), `RetriesKeepTheirDistance`
  (`RetrySpacing`), `OverridesStandWhileHeld` (`HandReleaseStands`).

`BlockIsRemembered` is not inductive. That a refused pause may be recorded `failed`
is safe only because the router was not blocking the device already; that a release
answered may be recorded `none` is safe only because no newer pause overtook it; that
a free reading may close a record is safe only because a confirmed block's roster is
up to date. `InStep` gathers those facts for one device: at most one write is out;
the record says which, and its stamp is as old as the write and inside the window; no
rule holds a device while its release is out; a blocked router has an `applied` or
`pending` record; a confirmed block is what the roster shows. The inductive invariant
is `IInv == TypeOK /\ signedIn /\ RecordInStep`. The proof goes device by device: a
step touches one device's write or leaves all of them alone, except `RunMeters`, which
is proved per device by what the scan owes it (a pause, a release, nothing).

The action properties speak of what went before, which no state of the program holds:
`ActionInv` ties the history variables to it. The roster is
at most a block and its end behind the router (`RosterTrails`), and a block that was
seen is read as gone only by a roster that is level (`SeenBlockTrails`); a device that is
free though its record says blocked was opened by someone, or no roster to come can
show the block (`OpeningIsKnown`): so what is read as a person's release was one. The
record remembers the last write asked for as long as the window runs (`AskedIsNoted`),
and says nothing else of a device that is overridden (`OverrideRests`).

`ExtensionEnforcement_proofs`: `TypeCorrect`, under any faults, and
`BlocksAreRemembered` (`[]BlockIsRemembered`) under `Faults \cap RecordFaults = {}`: all
faults but the two no record survives, a worker torn down after a pause landed and
before it was stored, and a sign-out recorded over a block (both in "Seen while
modelling"). `BlockIsRemembered` is said of a worker at rest; a tick works on a copy
and stores it at its end, so the invariant says it of *both*: of the stored records,
unless the tick has blocked something since it read them; and of the tick's copy,
except for the device whose pause has landed and is not yet answered (`JustBlocked`,
of which there is one: a tick sends one write at a time, `WaitingIsOne`).

### Rules and groups

`DataMeter_proofs`, for any devices, terms, day
length, flush and bounds:

- `TypeCorrect`: `Spec => []TypeOK`.
- `ChargesOnlyWhatWasSent`, `LatchesAreEarned`: under `Merging = FALSE`,
  `Spec => []NeverOvercharged` and `Spec => []HeldOnlyWhenDue`. Neither is inductive:
  a kill replaces both the rule and the counter, by copies that need not match. What
  is kept (`Honest`, of a rule and a counter) is that the sent bytes cover the charge
  as the rule reads now *and as it would read from the counter as it stands*, and that
  its latches were earned. `HonestInv` says it of the rule in memory and of the one
  on disk, both against the counter in memory, and that the counter on disk lags the
  one in memory (`DiskBehind`), which is why falling back to it keeps both honest.
- `NoByteIsMissed`: under `Merging = FALSE`, `Spec => []CountsEveryByte`. The
  converse holds until a kill, and is exact there (`ExactInv`): a rule has read the
  counter as it stands, and what was sent is what lies between that and its anchor.
- `NoBoundaryIsMissed`: `Spec => []BoundariesAreCurrent`. The invariant (`Placed`) is
  that a rule's two ends were computed from its present terms at some past moment.
  That no boundary lies between that moment and now unless an end has passed rests
  on `SamePeriodEnd` (arithmetic of cycles) and `SegmentEndBounds` (the timetable's
  answer stands until the end of its stretch, by well-founded choice of the least).
  On disk it is said of the rule as it will be read back, with the `null` undone.
- `EveryDueRuleHolds` (`[]HeldWhenDue`) and `AnnouncementsEndInTime`
  (`[]AnnouncementsRetire`), with merges too: what a poll leaves each rule in
  (`Settled`) stands until the next request or second (`SettledInv`).
- `RulesFollowTheirDevice`: `Spec => StandingTermsFollow`, because an identity another
  answers to answers to itself (`AliasInv`), so that one lookup resolves.

`Stores_proofs`, part `groups`, over any groups, members, terms, edits and merges:

- `GroupsAlwaysGovern`: `StoresSpec => []GroupsGovern`.
- `GroupsKeepOneClock`: `StoresSpec => GroupsShareAClock`, its two action properties
  included.

`GroupInv` says of the table of rules that it is typed, that a group's rule belongs to
a group that is there and is on its terms (`Belongs`), that identities resolve at once,
that an open episode is announced by a rule or was stranded, that the clocks of a group
that was not split are one (`OneClockIn`), and after a poll that rules and members are
one to one (`Follows`) and a spent pool holds all (`HoldsAll`). A poll is five passes
over the table; each has its lemma saying what it leaves alone, and the poll is their
composition. `SharedUsage` is a sum over members, about which nothing is computed:
the passes after it change no field it reads.

### The stores

`Stores_proofs`:

- `TicksTellTheRecord`: `StoresSpec => []TellsWhatIsOnRecord`. `TickInv`: one tick runs
  at a time; what it holds was on record when it read it, and what it has left to tell
  is new; the starts of episodes lie apart; and whoever paints, paints what is there.
- `EpisodesAreTheDevices`: `StoresSpec => []EpisodesFollowDevices`. `EpisodeInv`: one
  poll at a time, whose transitions not yet written (`Pending`) account for every
  difference between the engine and the open episodes; and the engine's alerts are
  those of the last word heard, each scope but those a restart has torn (`AsHeard`).
- `DrainsAreExact`: `StoresSpec => []DrainIsExact`, for any phases of the replies. The
  cursor is a counter and a stamp, and a sample's place in the dish's life is what the
  program never sees: `CursorAt` says that what was taken of this boot lies below the counter,
  and below the newest stamp too, by the lag that stamp was given with, while the counter is an
  earlier boot's; `PeaksKnown` says how far each
  boot was read, and `Reading` and `Putting` what a window in hand still is. Of two stamps
  of one sample the difference is the slip, so a commit that repeats a sample or leaves
  one out does it to one the slip carried across the line (`CommitStrays`).
  `FilesInv` follows the count: a drain adds to the minutes' rows as many as it takes
  (`CommitIsFiled`), and compaction moves a year's minutes onto their months
  (`CompactionIsFiled`): a sum over the minutes, cut in two.
- `RecordOutlivesKills`: `StoresSpec => MinutesAreKept`, its invariants and its two action
  properties, for any lags. `MinuteInv` follows a sample from the ring to the archive: what
  is kept under a minute lies there by the lag of some poll so far (`LiesAt`), so a sample
  in two places has two lags that put it there, which is to be astride (`PlacesAgree`);
  later samples lie no earlier (`LaterLiesLater`). The file
  ends at `lastWritten`, which the running minute is past (`Running`); the archive
  holds past months only, and what the file still has of those is in it already, came
  too late, or was swallowed (`FileBesideArchive`); and what the ring still has of a
  minute the file has reached was found over in some poll and is on record, unless a lag puts
  it elsewhere (`FoundOver`, `Backfilled`). `SeriesKnows` is the window's own cursor, and the
  snapshot's. A kill, in a poll or a compaction, leaves a
  prefix of the lines: the invariant holds of every prefix, with or without a torn line.

`Odometers_proofs`, of the same specification:

- `OdometersAreAlwaysExact`: `StoresSpec => []OdometersAreExact`, for any identities,
  addresses and hosts. "No byte twice" is said of every set of identities at once: the
  odometers only they fed come to no more than they carried. That is not inductive,
  because a reading adds what the router's counter has gone up by since the bucket's
  last one. So `ChargedOnce` counts against what was carried both an odometer and what its
  next reading will bring (`Awaited`), and `MonthChargedOnce` does the same for the figures
  of the month. A byte carried then raises both sides; a reading moves what was awaited
  into the life; a stale one is a counter believed to go back and, later, up again, and the
  two beliefs come to no less than the one they replace (`BeliefsAddUp`, `DetoursAddUp`), so
  that `again` covers them (`BooksGoOn`, once each way); a merge joins two terms into one of which the identities are the union, so
  that a set has both or neither; an adoption or a removal only takes away. The same is
  said of the snapshot on disk, of which a start makes the running odometers again
  (`OdometerInv`). Filed, anchor and life stay in that order (`FiguresInOrder`), and while no
  stray identity reports every bucket stands where a snapshot puts it back (`InPlace`).

`SumTheorems` holds what these proofs need of sums over sets. The library's induction
theorems take an operator as a parameter, but the number at which a given set of numbers
first fails can be looked at, and that is enough (`CountingUp`, `SubsetInduction`): so
it is proved that a sum unfolds by any one of its terms, splits over sets that are apart,
adds term by term, grows with its terms and is a natural where they are. What is computed in
turn over a sequence (`Polled`, `Folded`) is a recursive function for that reason too.

### The account

`Account_proofs`:

- `PromiseKept` and `AccountKeepsItsPromise`: `KeepsThePromise`, of `CloudUpdates` alone and
  of the account that contains it, for any settings, values, addresses and
  number of requests, under `Parameters`: the module's own assumption, `OwnBlocks` (a
  setting that shares a block is queued), `~Late`, and that `None` is no request or
  answer (`NoneApart`). Every step maps to a step of `AtomicUpdates` or a stutter. What
  makes it so is `UpdatesInv`: a request past its queue is the head of the line (`InLine`),
  the block it has read is still what the router holds but for its own setting
  (`BlocksCurrent`), it wants what it was asked (`RequestsStand`) and nothing strays
  (`NoStray`). `Arrive` writes a whole block and the promise lets it change one
  setting: `BlocksCurrent` is why those agree, and the queue is why it stands.
- `PinsServedLast`: `AccountSpec => []RememberedServedLast`. What a call is at is open
  (`PoolsAreOpen`): a pool destroyed under it is marked torn, so an address whose last
  attempt failed was forgotten with its pool.
- `OneServingEdgeIsEnough`: under `Steady # {}`, `AccountSpec =>
  Walk!AnsweredWhereAnEdgeServes`. The invariant (`HuntInv`) is that an edge that
  serves throughout is, until the call is over, among those it is at or has left to
  try, unless a neighbour tore it or the walk was spent on silence.
- `CachesFollowTheAccount`: `AccountSpec => []CachesAreTheAccounts`. A call carries a
  cookie over its waits, so the invariant says of each call not begun before the last
  change of account (`old`) that what it carries is the stored account's, and that
  those who share a refresh wait for one that is under way (`SharersFollow`).
- `LapsesHeal`: under `MaxUpsets <= 1` (Starlink lets one token lapse or ends one sign-in;
  `withFreshCookie` tries once more, so two are one too many), `AccountSpec =>
  Session!OneLapseHeals`. `LapseInv`: who tries again does so after the upset, so the
  token it is brought is taken; and a refresh is turned down only of a sign-in that ended.
- `ConnectionIsServed`: `AccountSpec => []Worker!ConnectedIsServed`. The browser
  carries out what is asked of it in the order asked. So a connection is answered only
  after what was asked before it: a read begun since finds the mark, the cookie and the
  rule of that connection whatever is still under way (`SureIsServed`), because what
  would undo them stands behind it in the line (`ConnectsInTurn`), and until the next
  sign-in nothing in the line is of another session (`SessionStandsStill`).

### The desktop and the page

`Desktop_proofs`:

- `HandoverIsSeamless`: `DesktopSpec => []ReadoutIsTrue`. `ReadoutInv`: a live figure
  that has grown as old as a window may be silent has a poll under way to replace it
  or a tick due that asks for one (`Relieved`): why the second limit must exceed the
  first by more than nothing, and the first one tick. A second that page and recorder both
  asked ends, of a dish that answers, with the page's answer reported, and the tick of the next finds the
  window reporting (`AskedByOne`).
- `NobodyIsToldTwice`: `DesktopSpec => []AnnouncedOnce`. For an onset over which
  neither window, sound nor preference changed, the count is a function of who has heard of
  it and whether the page can sound (`PlainCount`).
- `AnswersAreOfTheSession`: `DesktopSpec => Store!AnswersAreOfThisSession`: an answer out
  is of the session the page knows of or a later one, since an announcement abandons
  the request.
- `RouterIsReached`: `DesktopSpec => []ReachedWhereItAnswers`. `OnItsWay`: what a call
  has left to try is its own, and every origin that answered all along is among it.
- `EverySampleOnce`: `DesktopSpec => []SeriesIsWhole`. What a standing panel has asked
  for begins where the series ends (`StandingAsks`), until a tail is read to its end
  by a panel that closed (`torn`).
- `LinkIsLeftAlone`: `DesktopSpec => []Speed!NothingOutlivesItsPanel`. `RunInItsPlace`:
  every run but the panel's current one has been aborted or is over, and shows nothing.
- `EveryByteIsCountedOnce`: `DesktopSpec => []Speed!EveryByteOnce`. What a run has counted
  and what its chunks have in flight come to what it moved: a balance, kept by each step
  of a chunk (one term of a sum changes, by what the count changes).
- `OutagesAreAlwaysTold`: `DesktopSpec => []OutagesAreTold`, for any run, gap and tolerance, and
  however the dish dates its log within it.
  `OutageInv`: an episode is open just when the run of drops judged last is an outage
  (`EpisodeIsOpen`), its stamp lies in that run and no later than a run and two gaps after
  its first second (`StampedInTime`), and a long outage that is over has a report that starts
  where it does (`Told`). So its pair is no further apart than the dates stray, and no other outage or
  report that stands apart from it is as near. That there is an assignment at all (`Assigned` chooses a set by what is in it)
  follows by taking the pairs in their order, which is strict, out of a finite set
  (`EachInItsTurn`).
- `FiguresAreAlwaysOfTheReadings`: `DesktopSpec => []FiguresAreOfTheReadings`, for any edges,
  readings and percentiles. `FiguresInv`: the archive's row and the minutes, folded, tell of
  all that was heard (`Tells`: how many, their sum, their extremes, how many in each bin).
  A reading added and a minute folded away keep it, since a fold may be cut anywhere. A
  percentile then falls in the bin where the reading of its rank lies, and stays between
  that bin's edges; over a higher rank, in the same bin or a later one.
- `LockTypeCorrect`, under any overlap; `OwnerIsNamed` and `OneOwner` (`[]SingleOwner`)
  under `~Overlap`, of the lock's own `Spec`: one process claims at a time (`OneClaim`)
  and the pidfile names the owner (`LockNamesTheOwner`). Without `~Overlap` the last
  is false ("Seen while modelling").

### Only model-checked

- Every liveness property, which is beyond this prover: `EventuallyBlocked`,
  `EveryChangeIsAnswered`, `ChangesEnd`, `CrashNeverWedges`, `EitherSourceServes`,
  `GoodSessionIsTaken`, `EveryRunEnds`, `EventuallyFree`, `WatchedIsAnswered`. With `LapsesHeal`, `OneServingEdgeIsEnough` and
  `ConnectionIsServed` these are all that is left of `CallsAreAnswered`.

Every safety invariant and action property of the passing runs is stated by a theorem; the
assumptions some need (benign faults, no merges, `~Overlap`, `Parameters`, `MaxUpsets`)
are those the runs have, and where the code breaks without one the last section says so.
`RECURSIVE` is not used; what recursive functions compute is proved of these functions, one
by one, and no general induction over data is claimed.

## Plan

What is left, in this order:

1. `BlockEnforcement` over `DataMeter`: its arbitrary `holding` is an abstraction of
   the rules' own; show that what the rules do is a step of it.
2. The extension's own projection of groups, over stores read and written with waits
   between.

## Not modelled

Decoding and framing (gRPC-web, protobuf), rate and energy arithmetic, rendering and
charts, the sky scene, windows and tray, notifications' wording, translations, the
landing site, build and release scripts: conversions and I/O with no state that
outlives a call, or presentation. They are most of the repository's lines. The routes
of `historian.mts`, `apiRouter.ts` and the account handler that only read, the stores
that are a list appended to or rewritten whole and cut at an age, and the container's
host, which serves the same handlers, have no order of steps to check. The pollers of
the page of the shape `AlertAnnouncements` and `RouterSources` already have are not
modelled again.

The failed write of `meters.json` (swallowed at `meterStore.mts` 125) is in `DataMeter`
for the rules; `BlockEnforcement` keeps one copy of the blocks for memory and disk. A
failing snapshot of the odometer is not modelled. Rejected pairs, the self-traffic
row and the listings of usage totals are left out. A month is the only archive of
minutes, one to a year. Of the account's routes, the read-only ones are one read each,
and the dish's configuration is a router setting that is not retried.
