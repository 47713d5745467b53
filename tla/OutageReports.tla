----------------------------- MODULE OutageReports -----------------------------
(* How an outage of the link is noticed, dated and told: the samples of each     *)
(* poll, the episode judged from them, the report written as it ends             *)
(* (pollAlerts, poll, recordAlertTransitions in collector/historian.mts,         *)
(* core/postmortem.ts) and the row of the dish's own log that shows it           *)
(* (assignReports, in components/alerts/OutageLog.tsx).                          *)
(*                                                                               *)
(* A sample is a second, dropped or not; figures and causes are left out.  The   *)
(* window of samples is longer than any behaviour here.  Seconds are those of    *)
(* the recorder, which stamps the samples as they come; the dish stamps its log  *)
(* by a clock of its own, so that an outage stands in it a little off: nothing   *)
(* the recorder does looks at the dish's dates, and the properties take any.     *)
EXTENDS Integers, Sequences, FiniteSets, SequencesExt

CONSTANTS
    RunLen,         \* OUTAGE_SAMPLE_RUN
    Tolerance,      \* MATCH_TOLERANCE_MS
    MaxStray,       \* how far apart the two clocks may date an outage
    MaxGap,         \* bound: how far apart two polls that succeed are
    MaxTime,        \* bound
    None

VARIABLES
    now,
    sky,            \* the seconds whose pings were all dropped
    stage,          \* what the poll does next: "judge" or "ingest"
    judgedAt, ingestedAt,
    samples,        \* latestSamples, up to this second
    judged,         \* history: the last sample an episode was judged from
    open,           \* when the open episode was stamped
    reports         \* the reports, in the order they were written

vars == <<now, sky, stage, judgedAt, ingestedAt, samples, judged, open, reports>>

ReportsAssumption ==
    /\ RunLen \in Nat \ {0} /\ Tolerance \in Nat /\ MaxGap \in Nat \ {0} /\ MaxTime \in Nat
    /\ None \notin Nat
    /\ MaxStray \in Nat /\ MaxStray <= Tolerance

Strays == -MaxStray..MaxStray

Apart(a, b) == IF a > b THEN a - b ELSE b - a

--------------------------------------------------------------------------------
(* core/postmortem.ts.                                                           *)

(* [mutant] Up to the first second that was not dropped, the stamp's own or not. *)
OutageStartLate(stamp, upTo) == stamp

(* outageStartMs: where the dropped samples up to the stamp begin.               *)
OutageStart(stamp, upTo) ==
    LET last == IF upTo < stamp THEN upTo ELSE stamp
    IN  IF last \notin sky THEN stamp
        ELSE CHOOSE s \in sky : s <= last /\ s - 1 \notin sky /\ s..last \subseteq sky

(* The outages that have ended, by the recorder's seconds.                       *)
Outages(t) ==
    { [start |-> ends[1], end |-> ends[2]] : ends \in
        { ab \in sky \X sky : /\ ab[1] <= ab[2] /\ ab[1]..ab[2] \subseteq sky
                              /\ ab[1] - 1 \notin sky /\ ab[2] + 1 \notin sky /\ ab[2] < t } }

(* The dish's log of them: how far ahead of the recorder it dates each.          *)
Datings == [Outages(judged) -> Strays]

Logged(e, dating) == [of |-> e, start |-> e.start + dating[e], end |-> e.end + dating[e]]
Log(dating)       == { Logged(e, dating) : e \in Outages(judged) }

Overlaps(r, e) == r.start <= e.end + Tolerance /\ e.start <= r.end + Tolerance

Distance(pair) == Apart(pair.report.start, pair.event.start)

(* assignReports: the pairs that overlap, nearest first, and the newest of equals.*)
Sooner(p, q) ==
    \/ Distance(p) < Distance(q)
    \/ /\ Distance(p) = Distance(q)
       /\ \/ p.report.id > q.report.id
          \/ p.report = q.report /\ p.event.of.start > q.event.of.start

Candidates(rs, es) == { p \in [report : rs, event : es] : Overlaps(p.report, p.event) }

(* A report goes to one event, and an event carries one report.                  *)
Taken(owned, p) == \E q \in owned : Sooner(q, p) /\ (q.report = p.report \/ q.event = p.event)

(* Each pair in its turn, unless one before it was given its report or its event.*)
Assigned(rs, es) ==
    CHOOSE owned \in SUBSET Candidates(rs, es) :
        \A p \in Candidates(rs, es) : p \in owned <=> ~Taken(owned, p)

--------------------------------------------------------------------------------
(* The recorder.                                                                 *)

Second(dropped) ==
    /\ now < MaxTime /\ now + 1 - judgedAt <= MaxGap /\ now + 1 - ingestedAt <= MaxGap
    /\ now' = now + 1
    /\ sky' = IF dropped THEN sky \cup {now + 1} ELSE sky
    /\ UNCHANGED <<stage, judgedAt, ingestedAt, samples, judged, open, reports>>

(* isStarlinkOutage.                                                             *)
IsOutage(upTo) == upTo >= RunLen /\ (upTo - RunLen + 1)..upTo \subseteq sky

Report ==
    [id |-> Len(reports) + 1, stamp |-> open, start |-> OutageStart(open, samples), end |-> now]

(* pollAlerts, from the samples the poll before brought, and the report of an    *)
(* episode it closes.                                                            *)
Judge ==
    /\ stage = "judge" /\ judgedAt < now
    /\ stage' = "ingest" /\ judgedAt' = now /\ judged' = samples
    /\ open' = IF ~IsOutage(samples) THEN None ELSE IF open = None THEN now ELSE open
    /\ reports' = IF open # None /\ ~IsOutage(samples) THEN Append(reports, Report) ELSE reports
    /\ UNCHANGED <<now, sky, ingestedAt, samples>>

(* getHistory, or its failure.                                                   *)
Ingest ==
    /\ stage = "ingest" /\ stage' = "judge"
    /\ \/ samples' = now /\ ingestedAt' = now
       \/ UNCHANGED <<samples, ingestedAt>>
    /\ UNCHANGED <<now, sky, judgedAt, judged, open, reports>>

Init ==
    /\ now = 0 /\ sky = {} /\ stage = "judge" /\ judgedAt = 0 /\ ingestedAt = 0
    /\ samples = 0 /\ judged = 0 /\ open = None /\ reports = <<>>

Next == (\E dropped \in BOOLEAN : Second(dropped)) \/ Judge \/ Ingest

Spec == Init /\ [][Next]_vars

--------------------------------------------------------------------------------
Owned(dating) == Assigned(ToSet(reports), Log(dating))

(* Before it and after it a poll finds no run of drops.                          *)
StandsAlone(e) ==
    \A s \in sky \ (e.start..e.end) :
        Apart(s, IF s < e.start THEN e.start ELSE e.end) + RunLen > MaxGap + 1

Long(e) == e.end - e.start + 1 >= RunLen + 2 * MaxGap - 1 /\ StandsAlone(e)

(* No other outage began, and no other report is dated, so near that the dish's  *)
(* dates may take the one for the other.                                         *)
IsApart(e) ==
    /\ \A f \in Outages(judged) : f # e => Apart(f.start, e.start) > 2 * MaxStray
    /\ \A r \in ToSet(reports) : r.start # e.start => Apart(r.start, e.start) > 2 * MaxStray

OnItsRow(e, dating) ==
    \E p \in Owned(dating) : p.event = Logged(e, dating) /\ p.report.start = e.start

(* An outage that outlasts a run and two polls is noticed before it ends, and    *)
(* once its end has been judged it has its report, dated from its first second,  *)
(* unless it is so near another that no poll has to find the two apart; and its  *)
(* own row of the log shows it, however the dish's dates stray, unless another   *)
(* may be meant (outageStartMs, assignReports, MATCH_TOLERANCE_MS).              *)
LongOutagesAreTold ==
    \A e \in Outages(judged) : Long(e) =>
        /\ \E r \in ToSet(reports) : r.start = e.start
        /\ IsApart(e) => \A dating \in Datings : OnItsRow(e, dating)

(* A report is shown by the event it started nearest to, or one that event would *)
(* have it behind; and no event shows two (assignReports).                       *)
NearestOwns ==
    \A dating \in Datings :
        /\ \A p, q \in Owned(dating) : p.report = q.report \/ p.event = q.event => p = q
        /\ \A r \in ToSet(reports), e \in Log(dating) : Overlaps(r, e) =>
              \E p \in Owned(dating) : /\ p.report = r \/ p.event = e
                                       /\ Distance(p) <= Distance([report |-> r, event |-> e])

(* The event starting nearest the drop is the one the report is of               *)
(* (assignReports).  Violated: by the dish's dates a short outage just before a  *)
(* long one may be nearer to the long one's report, and takes it.                *)
NearestIsItsOwn ==
    \A e \in Outages(judged), dating \in Datings : Long(e) => OnItsRow(e, dating)

(* OutageReport: startMs is "the first dropped sample of the run that raised" it.*)
DatedFromTheDrop == \A r \in ToSet(reports) : r.start \in sky
================================================================================
