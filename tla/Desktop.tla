-------------------------------- MODULE Desktop --------------------------------
(* The desktop app around the recorder: the recorder's claim of its     *)
(* directory (DataDirLock), the readout beside the tray icon (LiveReadout), who  *)
(* announces an alert (AlertAnnouncements), the login window (SignIn), the       *)
(* page's view of the account (CloudStore) and of the router (RouterSources,     *)
(* DeviceSeries), the way there (RouterOrigins), and what the dashboard shows of *)
(* outages (OutageReports), latency (LatencyFigures) and speed (SpeedTest).      *)
(* They share no state: `part` says which one a behaviour is of.                 *)
EXTENDS DataDirLock

CONSTANTS
    StaleMs, ReportStaleMs, StatusMs,               \* as in LiveReadout
    Watchers,                                       \* as in CloudStore
    Networks, IPv4, SetAddress, RouterCallers,      \* as in RouterOrigins
    RunLen, Tolerance, MaxStray, MaxGap,            \* as in OutageReports
    BinEdges, Readable, Quantiles,                  \* as in LatencyFigures
    Streams,                                        \* as in SpeedTest
    \* bounds
    MaxEras, MaxReloads, MaxWindows, MaxUpsets, MaxPanels, MaxEdits, MaxSamples, MaxMounts,
    MaxTime, MaxReadings, MaxMinutes, MaxRuns, MaxBytes

VARIABLES
    part,
    on, paneWindow, dish, since, sample, painted, ticking, tickDue, polling, pollDue,
    out, askDue, waiting, asked, both, steady,
    replies, faulty, told, online, shown, firing, window, audible, wanted, posted,
    chimed, times, plain,
    snapshot, loaded, flight, late, retry, watcher, era, connected, noted, reached,
    reloads,
    network, configured, answers, preferred, run,
    jar, loading, windows, login, verdict, adopt, upsets, session,
    lan, account, version, loads, mounts, active, effect, answering, ever, misses, reachable,
    source, requested, roster, config, display, viaAccount, reads,
    recorded, series, last, opened, showing, tail, torn,
    second, sky, stage, judgedAt, ingestedAt, samples, judged, stamped, written,
    minutes, month, heard,
    panel, current, readout, phase, aborted, over, asking, inFlight, counted, moved

readoutVars == <<on, paneWindow, dish, since, sample, painted, ticking, tickDue, polling,
                 pollDue, out, askDue, waiting, asked, both, steady>>
alertVars   == <<replies, faulty, told, online, shown, firing, window, audible, wanted,
                 posted, chimed, times, plain>>
storeVars   == <<snapshot, loaded, flight, late, retry, watcher, era, connected, noted,
                 reached, reloads>>
originVars  == <<network, configured, answers, preferred, run>>
loginVars   == <<jar, loading, windows, login, verdict, adopt, upsets, session>>
sourceVars  == <<lan, account, version, loads, mounts, active, effect, answering, ever, misses,
                 reachable, source, requested, roster, config, display, viaAccount, reads>>
seriesVars  == <<recorded, series, last, opened, showing, tail, torn>>
outageVars  == <<second, sky, stage, judgedAt, ingestedAt, samples, judged, stamped, written>>
figureVars  == <<minutes, month, heard>>
speedVars   == <<panel, current, readout, phase, aborted, over, asking, inFlight, counted, moved>>

officeVars    == <<vars, readoutVars, alertVars, loginVars>>
pageVars      == <<storeVars, originVars, sourceVars, seriesVars>>
dashboardVars == <<outageVars, figureVars, speedVars>>
desktopVars   == <<part, officeVars, pageVars, dashboardVars>>

Readout == INSTANCE LiveReadout WITH window <- paneWindow, shown <- painted

None   == NoPid
Alerts == INSTANCE AlertAnnouncements WITH answers <- replies

Store  == INSTANCE CloudStore
Router == INSTANCE RouterOrigins WITH Callers <- RouterCallers
Login  == INSTANCE SignIn WITH window <- login

Sources == INSTANCE RouterSources WITH MaxMounts <- MaxPanels, shown <- display

Series == INSTANCE DeviceSeries WITH mounts <- opened, active <- showing, effect <- tail

Outages == INSTANCE OutageReports WITH now <- second, open <- stamped, reports <- written

Figures == INSTANCE LatencyFigures WITH Edges <- BinEdges, Values <- Readable, Percents <- Quantiles

Speed == INSTANCE SpeedTest WITH shown <- readout

ASSUME InstancesSuit ==
    /\ Readout!ReadoutAssumption /\ Store!StoreAssumption /\ Router!OriginsAssumption
    /\ Series!SeriesAssumption
    /\ Outages!ReportsAssumption /\ Figures!FiguresAssumption /\ Speed!SpeedAssumption

Parts == {"claims", "readout", "alerts", "login", "store", "router", "sources", "series",
          "outages", "figures", "speed"}

DesktopInit ==
    /\ part \in Parts
    /\ Init /\ Readout!Init /\ Alerts!Init /\ Store!Init /\ Router!Init
    /\ Login!Init /\ Sources!Init /\ Series!Init
    /\ Outages!Init /\ Figures!Init /\ Speed!Init

OfficeNext ==
    /\ UNCHANGED <<pageVars, dashboardVars>>
    /\ \/ part = "claims" /\ Next /\ UNCHANGED <<readoutVars, alertVars, loginVars>>
       \/ part = "readout" /\ Readout!Next /\ UNCHANGED <<vars, alertVars, loginVars>>
       \/ part = "alerts" /\ Alerts!Next /\ UNCHANGED <<vars, readoutVars, loginVars>>
       \/ part = "login" /\ Login!Next /\ UNCHANGED <<vars, readoutVars, alertVars>>

PageNext ==
    /\ UNCHANGED <<officeVars, dashboardVars>>
    /\ \/ part = "store" /\ Store!Next /\ UNCHANGED <<originVars, sourceVars, seriesVars>>
       \/ part = "router" /\ Router!Next /\ UNCHANGED <<storeVars, sourceVars, seriesVars>>
       \/ part = "sources" /\ Sources!Next /\ UNCHANGED <<storeVars, originVars, seriesVars>>
       \/ part = "series" /\ Series!Next /\ UNCHANGED <<storeVars, originVars, sourceVars>>

DashboardNext ==
    /\ UNCHANGED <<officeVars, pageVars>>
    /\ \/ part = "outages" /\ Outages!Next /\ UNCHANGED <<figureVars, speedVars>>
       \/ part = "figures" /\ Figures!Next /\ UNCHANGED <<outageVars, speedVars>>
       \/ part = "speed" /\ Speed!Next /\ UNCHANGED <<outageVars, figureVars>>

DesktopNext == UNCHANGED part /\ (OfficeNext \/ PageNext \/ DashboardNext)

(* No step that must be taken is enabled in a part that stands still.            *)
DesktopFairness ==
    /\ \A p \in Pids : WF_vars(Step(p))
    /\ Store!Fairness /\ Login!Fairness /\ Sources!Fairness /\ Speed!Fairness

DesktopSpec == DesktopInit /\ [][DesktopNext]_desktopVars /\ DesktopFairness

--------------------------------------------------------------------------------
(* LiveReadout: what is painted is wanted and fresh, a dish that answers is not  *)
(* asked by page and recorder both for longer than they take to hand over, and   *)
(* they do so without a zero (electron/main.ts, useDishTelemetry).               *)
ReadoutIsTrue == part = "readout" => Readout!ReadoutIsCurrent /\ Readout!HandoverShowsNoZero

(* AlertAnnouncements: what both have heard of was announced once, or, left to a *)
(* window that cannot sound, not at all (useDeviceAlerts,                        *)
(* startAlertNotifications, playAlertSound).                                     *)
AnnouncedOnce == part = "alerts" => Alerts!AnnouncedOnce

(* CloudStore: a component that looks is answered (scheduleRetry), and by what   *)
(* was asked under the session the page knows of (createCloudStore).             *)
WatchedIsAnswered == Store!AnswersAreOfThisSession /\ Store!WatchedIsAnswered

(* RouterOrigins: a call dials only its own candidates and fails only if none of *)
(* them answered all the while (createRouterOrigins).                            *)
ReachedWhereItAnswers == part = "router" => Router!ReachedWhereItAnswers

(* SignIn: a good session in the window's jar is taken, however early it was     *)
(* tried (openLoginWindow).                                                      *)
GoodSessionIsTaken == Login!GoodSessionIsTaken

(* RouterSources: the router or the account serves the panel, whichever answers  *)
(* (useRouterNetwork).                                                           *)
EitherSourceServes == Sources!EitherSourceServes

(* DeviceSeries: every sample of a device is drawn, and once                     *)
(* (fetchPersistedClientHistory, tailSamples).                                   *)
SeriesIsWhole == part = "series" => Series!SeriesIsWhole

(* OutageReports: an outage that outlasts a run and two polls has its report,    *)
(* dated from its first second, once its end has been judged, and, however the   *)
(* dish's dates stray, on its own row of the log where no other may be meant; a  *)
(* report is on no two rows and a row has no two (isStarlinkOutage,              *)
(* outageStartMs, assignReports).                                                *)
OutagesAreTold == part = "outages" => Outages!LongOutagesAreTold /\ Outages!NearestOwns

(* LatencyFigures: minutes folded into their month lose no reading, and a        *)
(* percentile read off any mixture of the two is in the bin of the reading of    *)
(* that rank (addReading, foldMinutesToMonths, percentile).                      *)
FiguresAreOfTheReadings == part = "figures" => Figures!FiguresAreOfTheReadings

(* SpeedTest: a run loads the link while the panel that started it is open and   *)
(* shows it, counts a byte once, and comes to its end (runSpeedTest, sendChunk,  *)
(* stopWatcher).                                                                 *)
RunsEndWithTheirPanel ==
    /\ [](Speed!NothingOutlivesItsPanel /\ Speed!EveryByteOnce)
    /\ Speed!EveryRunEnds
================================================================================
