------------------------------ MODULE LiveReadout ------------------------------
(* The throughput beside the tray icon: electron/main.ts, fed by the open window *)
(* (src/App.tsx), which asks the dish for itself (useDishTelemetry), and, while   *)
(* none reports, by the recorder's own poll of the dish                          *)
(* (setLiveThroughputEnabled in collector/historian.mts).                        *)
(*                                                                               *)
(* Time is in seconds, the period of every timer here.  A timer that is due, and *)
(* the answer of a dish that answers, come before the second is over; what was   *)
(* asked of it while it was silent may hang on.                                  *)
EXTENDS Naturals

CONSTANTS
    StaleMs,            \* THROUGHPUT_STALE_MS, in seconds
    ReportStaleMs,      \* RENDERER_REPORT_STALE_MS, in seconds
    StatusMs            \* after which the page gives up a poll, in seconds

VARIABLES
    on,                 \* preferences().menuBarThroughput
    window,             \* "none", "open", or "quiet": its timers are throttled, or
                        \* not started yet
    dish,               \* "answers" or "silent"
    since,              \* seconds since lastRendererReportMs, as far as it matters
    sample,             \* latestThroughput: [kind, age]
    shown,              \* what is painted: "off", "zero" or "live"
    ticking, tickDue,   \* throughputStaleTimer
    polling, pollDue,   \* liveThroughputTimer
    out,                \* polls of the recorder under way
    askDue,             \* the page's timer is due
    waiting,            \* seconds of the page's poll under way, or 0
    asked,              \* the page has asked this second, and the dish not turned since
    both,               \* seconds in a row that both asked a dish that answers
    steady              \* a reading came while it was on, and nothing has happened since
                        \* that should end it

timers == <<ticking, tickDue, polling, pollDue>>
page   == <<askDue, waiting, asked>>
vars == <<on, window, dish, since, sample, shown, timers, out, page, both, steady>>

(* THROUGHPUT_STALE_MS is kept above RENDERER_REPORT_STALE_MS so that a handoff  *)
(* does not flash zero, and that is more than a period of the timers.            *)
ReadoutAssumption ==
    /\ StaleMs \in Nat /\ ReportStaleMs \in Nat /\ 1 < ReportStaleMs /\ ReportStaleMs < StaleMs
    /\ StatusMs \in Nat \ {0}

(* [mutant] A window is believed only in the very second it reports.             *)
JustReported == since = 0

(* throughputTick: windowReporting.                                              *)
Reporting == since < ReportStaleMs
Live      == [kind |-> "live", age |-> 0]
Blank     == [kind |-> "blank", age |-> 0]

Fresh(reading) == reading.kind = "live" /\ reading.age < StaleMs

(* applyMenuBarThroughput.                                                       *)
Paint(wanted, reading) ==
    /\ shown' = CASE ~wanted -> "off" [] wanted /\ Fresh(reading) -> "live" [] OTHER -> "zero"

(* setLiveThroughputEnabled: it asks at once when it is switched on.             *)
Enable(enabled) ==
    /\ polling' = enabled
    /\ out' = IF enabled /\ ~polling THEN out + 1 ELSE out
    /\ pollDue' = (pollDue /\ enabled)

--------------------------------------------------------------------------------

ThroughputTick ==
    /\ tickDue /\ tickDue' = FALSE
    /\ Enable(~Reporting)
    /\ Paint(on, sample)
    /\ UNCHANGED <<on, window, dish, since, sample, ticking, page, both, steady>>

StoppedToo == Enable(FALSE)

(* updateThroughputWatchdog, and a repaint: the preference is set from the tray  *)
(* or from the window.                                                           *)
Switch ==
    /\ on' = ~on
    /\ ticking' = on' /\ tickDue' = FALSE
    /\ IF ~on' THEN StoppedToo ELSE UNCHANGED <<polling, pollDue, out>>
    /\ Paint(on', sample) /\ steady' = FALSE
    /\ UNCHANGED <<window, dish, since, sample, page, both>>

(* report-throughput: noted even while the readout is off.                       *)
Reported(reading) ==
    /\ since' = 0
    /\ sample' = IF on THEN reading ELSE sample
    /\ IF on THEN Paint(on, sample') ELSE UNCHANGED shown
    /\ steady' = on

(* pollStatus, which never overlaps itself.                                      *)
PageAsks ==
    /\ askDue /\ askDue' = FALSE
    /\ IF waiting = 0 THEN waiting' = 1 /\ asked' = TRUE ELSE UNCHANGED <<waiting, asked>>
    /\ UNCHANGED <<on, window, dish, since, sample, shown, timers, out, both, steady>>

(* Its answer, which the page reports.                                           *)
Report ==
    /\ waiting > 0 /\ waiting' = 0 /\ dish = "answers"
    /\ Reported(Live)
    /\ UNCHANGED <<on, window, dish, timers, out, askDue, asked, both>>

PageGivesUp ==
    /\ waiting > StatusMs /\ waiting' = 0
    /\ UNCHANGED <<on, window, dish, since, sample, shown, timers, out, askDue, asked, both,
                   steady>>

(* The page reports as it mounts, before it has read anything.                   *)
Open ==
    /\ window = "none" /\ window' = "open" /\ askDue' = TRUE
    /\ since' = 0
    /\ sample' = IF on THEN Blank ELSE sample
    /\ shown' = IF on THEN "zero" ELSE shown
    /\ steady' = FALSE
    /\ UNCHANGED <<on, dish, timers, out, waiting, asked, both>>

Throttle ==
    /\ window \in {"open", "quiet"}
    /\ window' = IF window = "open" THEN "quiet" ELSE "open"
    /\ UNCHANGED <<on, dish, since, sample, shown, timers, out, page, both, steady>>

Close ==
    /\ window # "none" /\ window' = "none"
    /\ askDue' = FALSE /\ waiting' = 0 /\ asked' = FALSE
    /\ since' = ReportStaleMs /\ both' = 0
    /\ UNCHANGED <<on, dish, sample, shown, timers, out, steady>>

(* pollLiveThroughput.                                                           *)
Poll ==
    /\ pollDue /\ pollDue' = FALSE /\ out' = out + 1
    /\ UNCHANGED <<on, window, dish, since, sample, shown, ticking, tickDue, polling,
                   page, both, steady>>

(* Its answer, which startMenuBarThroughput drops while a window reports.        *)
Polled ==
    /\ out > 0 /\ out' = out - 1 /\ dish = "answers"
    /\ IF Reporting THEN UNCHANGED <<sample, shown, steady>>
       ELSE sample' = Live /\ Paint(on, Live) /\ steady' = on
    /\ UNCHANGED <<on, window, dish, since, timers, page, both>>

PollFails ==
    /\ out > 0 /\ out' = out - 1 /\ dish = "silent"
    /\ UNCHANGED <<on, window, dish, since, sample, shown, timers, page, both, steady>>

DishTurns ==
    /\ dish' = IF dish = "answers" THEN "silent" ELSE "answers"
    /\ steady' = FALSE /\ asked' = FALSE /\ both' = 0
    /\ UNCHANGED <<on, window, since, sample, shown, timers, out, askDue, waiting>>

Aged(age, top) == IF age < top THEN age + 1 ELSE top

(* A poll of a silent dish outlives its second; three at once are enough of the  *)
(* recorder's, and the page gives its one up in time.                            *)
Second ==
    /\ ~tickDue /\ ~pollDue
    /\ ~(askDue /\ window = "open") /\ waiting <= StatusMs
    /\ dish = "answers" => out = 0 /\ ~(asked /\ waiting > 0)
    /\ dish = "silent" => out < 3
    /\ tickDue' = ticking /\ pollDue' = polling
    /\ askDue' = (window # "none")
    /\ waiting' = IF waiting > 0 THEN waiting + 1 ELSE 0
    /\ asked' = FALSE
    /\ since' = Aged(since, ReportStaleMs)
    /\ sample' = [sample EXCEPT !.age = Aged(@, StaleMs)]
    /\ both' = IF polling /\ asked /\ dish = "answers" THEN Aged(both, 2) ELSE 0
    /\ UNCHANGED <<on, window, dish, shown, ticking, polling, out, steady>>

Init ==
    /\ on \in BOOLEAN
    /\ window = "none" /\ dish = "answers" /\ since = ReportStaleMs
    /\ sample = [kind |-> "none", age |-> StaleMs]
    /\ shown = IF on THEN "zero" ELSE "off"
    /\ ticking = on /\ tickDue = FALSE /\ polling = FALSE /\ pollDue = FALSE
    /\ out = 0 /\ askDue = FALSE /\ waiting = 0 /\ asked = FALSE /\ both = 0 /\ steady = FALSE

Next ==
    \/ ThroughputTick \/ Switch \/ PageAsks \/ Report \/ PageGivesUp \/ Open \/ Throttle \/ Close
    \/ Poll \/ Polled \/ PollFails \/ DishTurns \/ Second

Spec == Init /\ [][Next]_vars

--------------------------------------------------------------------------------
(* Off, nothing is painted or asked whatever straggles in; on, no figure is      *)
(* painted that is staler than the limit by more than the tick in hand           *)
(* (applyMenuBarThroughput: a stale sample reads as 0, not a frozen value); and  *)
(* of a dish that answers, page and recorder both ask for a second at most,      *)
(* whichever of them takes over (throughputTick).                                *)
ReadoutIsCurrent ==
    /\ ~on => shown = "off" /\ ~ticking /\ ~polling
    /\ on => ticking /\ shown # "off"
    /\ shown = "live" => sample.kind = "live" /\ (sample.age < StaleMs \/ tickDue)
    /\ both < 2

(* While the dish answers, a window that is closed or falls quiet hands over to  *)
(* the recorder, and one that wakes takes over from it, with the figure on all   *)
(* the while (THROUGHPUT_STALE_MS: a window-close handoff doesn't flash zero).   *)
HandoverShowsNoZero == steady => shown = "live"

(* throughputTick: "the dish is never polled twice a second".  Violated: of a    *)
(* dish that is silent under an open window nothing is reported, so that the     *)
(* recorder asks every second beside a page that goes on asking.                 *)
NeverPolledTwiceASecond == [][Second /\ dish = "silent" /\ ~Reporting => ~(polling /\ asked)]_vars
================================================================================
