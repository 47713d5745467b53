----------------------------- MODULE Desktop_proofs ----------------------------
(* What Desktop promises for all limits, networks, callers, panels, samples and  *)
(* runs: the readout beside the tray icon, who announces an alert, the page's    *)
(* view of the account, the way to the router, the series of a device, the speed *)
(* test and its bytes, the outages told, the latency figures and the lock of the *)
(* data directory.  The components share no state, so each has an inductive      *)
(* invariant of its own and its own step lemmas.                                 *)
EXTENDS Desktop, SumTheorems, Sequences, TLAPS

--------------------------------------------------------------------------------
(* The readout.  A reading that stays on has been followed, before it is staler  *)
(* than a window's silence, by a poll of the recorder that is due or out, or by  *)
(* the tick that asks for one.                                                   *)

Readings == [kind : {"none", "blank", "live"}, age : 0 .. StaleMs]

ReadoutType ==
    /\ on \in BOOLEAN /\ ticking \in BOOLEAN /\ tickDue \in BOOLEAN
    /\ polling \in BOOLEAN /\ pollDue \in BOOLEAN /\ steady \in BOOLEAN
    /\ dish \in {"answers", "silent"} /\ out \in Nat /\ since \in 0 .. ReportStaleMs
    /\ sample \in Readings /\ both \in 0 .. 1 /\ waiting \in Nat

(* What is switched off stands still, and polls are asked by the tick alone.     *)
FollowsTheSwitch ==
    /\ (on => ticking /\ painted # "off") /\ (~on => ~ticking /\ ~polling /\ painted = "off")
    /\ (tickDue => ticking)
    /\ (painted = "live" => sample.kind = "live" /\ (sample.age < StaleMs \/ tickDue))

(* What the page asks of a dish that answers it reports within the second, and a *)
(* recorder that polls beside a window that reports is stopped by the tick.      *)
AskedByOne ==
    /\ (asked => waiting = 1 \/ (waiting = 0 /\ since = 0))
    /\ (polling /\ Readout!Reporting /\ ~tickDue => since = 0)
    /\ (both = 1 => Readout!Reporting /\ (tickDue \/ ~polling))

Relieved ==
    steady =>
        /\ on /\ dish = "answers" /\ painted = "live" /\ sample.kind = "live"
        /\ sample.age <= ReportStaleMs
        /\ (Readout!Reporting => sample.age <= since)
        /\ (sample.age = ReportStaleMs => out > 0 \/ pollDue \/ (tickDue /\ ~polling))

ReadoutInv == ReadoutType /\ FollowsTheSwitch /\ AskedByOne /\ Relieved

LEMMA Staleness ==
    /\ StaleMs \in Nat /\ ReportStaleMs \in Nat /\ 1 < ReportStaleMs /\ ReportStaleMs < StaleMs
    /\ StatusMs \in Nat \ {0} /\ 0 \in 0 .. StaleMs /\ 0 \in 0 .. ReportStaleMs
  BY InstancesSuit DEF Readout!ReadoutAssumption

LEMMA ReadoutStarts == DesktopInit => ReadoutInv
  <1> SUFFICES ASSUME DesktopInit PROVE ReadoutInv
    OBVIOUS
  <1>1. /\ on \in BOOLEAN /\ dish = "answers" /\ since = ReportStaleMs
        /\ sample = [kind |-> "none", age |-> StaleMs] /\ painted = IF on THEN "zero" ELSE "off"
        /\ ticking = on /\ tickDue = FALSE /\ polling = FALSE /\ pollDue = FALSE
        /\ out = 0 /\ both = 0 /\ steady = FALSE /\ waiting = 0 /\ asked = FALSE
    BY DEF DesktopInit, Readout!Init
  <1>2. sample \in Readings
    BY <1>1, Staleness DEF Readings
  <1>3. ReadoutType
    <2>1. since \in 0 .. ReportStaleMs /\ both \in 0 .. 1 /\ out \in Nat /\ waiting \in Nat
      BY <1>1, Staleness
    <2>2. ticking \in BOOLEAN /\ tickDue \in BOOLEAN /\ polling \in BOOLEAN
          /\ pollDue \in BOOLEAN /\ steady \in BOOLEAN
      BY <1>1
    <2> QED  BY <1>1, <1>2, <2>1, <2>2 DEF ReadoutType
  <1>4. FollowsTheSwitch /\ AskedByOne /\ Relieved
    BY <1>1 DEF FollowsTheSwitch, AskedByOne, Relieved
  <1> QED  BY <1>3, <1>4 DEF ReadoutInv

(* The readings that come in, and when they are fresh.                           *)
LEMMA FreshIs ==
    ASSUME NEW r \in Readings
    PROVE  /\ Readout!Fresh(r) <=> (r.kind = "live" /\ r.age < StaleMs)
           /\ Readout!Live \in Readings /\ Readout!Live.kind = "live" /\ Readout!Live.age = 0
           /\ Readout!Fresh(Readout!Live)
           /\ Readout!Blank \in Readings /\ Readout!Blank.age = 0
  BY Staleness DEF Readings, Readout!Fresh, Readout!Live, Readout!Blank

LEMMA Ticks == ASSUME ReadoutInv, Readout!ThroughputTick PROVE ReadoutInv'
  <1> USE DEF ReadoutInv
  <1>1. /\ tickDue /\ tickDue' = FALSE
        /\ UNCHANGED <<on, dish, since, sample, ticking, waiting, asked, both, steady>>
        /\ polling' = ~Readout!Reporting
        /\ out' = IF ~Readout!Reporting /\ ~polling THEN out + 1 ELSE out
        /\ pollDue' = (pollDue /\ ~Readout!Reporting)
        /\ painted' = CASE ~on -> "off" [] on /\ Readout!Fresh(sample) -> "live" [] OTHER -> "zero"
    BY DEF Readout!ThroughputTick, Readout!Enable, Readout!Paint, Readout!page
  <1>2. Readout!Fresh(sample) <=> (sample.kind = "live" /\ sample.age < StaleMs)
    BY FreshIs DEF ReadoutType
  <1>3. Readout!Reporting' <=> Readout!Reporting
    BY <1>1 DEF Readout!Reporting
  <1>4. on /\ ticking
    BY <1>1 DEF FollowsTheSwitch, ReadoutType
  <1>5. painted' = IF Readout!Fresh(sample) THEN "live" ELSE "zero"
    BY <1>1, <1>4
  <1>6. ReadoutType'
    <2>1. polling' \in BOOLEAN /\ pollDue' \in BOOLEAN
      BY <1>1
    <2>2. out' \in Nat
      BY <1>1 DEF ReadoutType
    <2> QED  BY <1>1, <2>1, <2>2 DEF ReadoutType
  <1>7. FollowsTheSwitch'
    BY <1>1, <1>2, <1>4, <1>5 DEF FollowsTheSwitch
  <1>8. AskedByOne'
    BY <1>1, <1>3 DEF AskedByOne
  <1>9. Relieved'
    <2>1. sample.age \in Nat /\ out \in Nat /\ since \in Nat
      BY Staleness DEF ReadoutType, Readings
    <2>2. Readout!Reporting <=> since < ReportStaleMs
      BY DEF Readout!Reporting
    <2> QED  BY <1>1, <1>2, <1>3, <1>5, <2>1, <2>2, Staleness DEF Relieved, ReadoutType
  <1> QED  BY <1>6, <1>7, <1>8, <1>9

LEMMA Switches == ASSUME ReadoutInv, Readout!Switch PROVE ReadoutInv'
  <1> USE DEF ReadoutInv
  <1>1. /\ on' = ~on /\ ticking' = on' /\ tickDue' = FALSE /\ steady' = FALSE
        /\ UNCHANGED <<dish, since, sample, waiting, asked, both>>
        /\ (~on' => polling' = FALSE /\ out' = out /\ pollDue' \in BOOLEAN)
        /\ (on' => UNCHANGED <<polling, pollDue, out>>)
        /\ painted' = CASE ~on' -> "off" [] on' /\ Readout!Fresh(sample) -> "live" [] OTHER -> "zero"
    <2>1. /\ on' = ~on /\ ticking' = on' /\ tickDue' = FALSE /\ steady' = FALSE
          /\ UNCHANGED <<dish, since, sample, waiting, asked, both>>
          /\ painted' = CASE ~on' -> "off" [] on' /\ Readout!Fresh(sample) -> "live"
                          [] OTHER -> "zero"
      BY DEF Readout!Switch, Readout!Paint, Readout!page
    <2>2. ~on' => polling' = FALSE /\ out' = out /\ pollDue' \in BOOLEAN
      BY DEF Readout!Switch, Readout!Enable, Readout!StoppedToo
    <2>3. on' => UNCHANGED <<polling, pollDue, out>>
      BY DEF Readout!Switch
    <2> QED  BY <2>1, <2>2, <2>3
  <1>2. Readout!Fresh(sample) <=> (sample.kind = "live" /\ sample.age < StaleMs)
    BY FreshIs DEF ReadoutType
  <1>3. on' \in BOOLEAN /\ ticking' \in BOOLEAN
    BY <1>1 DEF ReadoutType
  <1>4. polling' = FALSE
    BY <1>1 DEF FollowsTheSwitch, ReadoutType
  <1>5. ReadoutType'
    BY <1>1, <1>3, <1>4 DEF ReadoutType
  <1>6. painted' = IF ~on' THEN "off" ELSE IF Readout!Fresh(sample) THEN "live" ELSE "zero"
    BY <1>1, <1>3
  <1>7. FollowsTheSwitch'
    BY <1>1, <1>2, <1>3, <1>4, <1>6 DEF FollowsTheSwitch
  <1>8. AskedByOne'
    BY <1>1, <1>4 DEF AskedByOne, Readout!Reporting
  <1> QED  BY <1>1, <1>5, <1>7, <1>8 DEF Relieved

(* A reading is taken up: one of the window's, or one of the recorder's while no *)
(* window reports.                                                               *)
LEMMA Taken ==
    ASSUME ReadoutInv, UNCHANGED <<on, dish, ticking, tickDue, polling, pollDue, asked, both>>,
           (waiting' = waiting /\ since' = since) \/ (waiting' = 0 /\ since' = 0),
           dish = "answers", out' \in Nat,
           since' = 0 \/ (since' = since /\ ~Readout!Reporting),
           sample' = IF on THEN Readout!Live ELSE sample,
           painted' = IF on THEN "live" ELSE painted, steady' = on
    PROVE  ReadoutInv'
  <1> USE DEF ReadoutInv
  <1>1. /\ Readout!Live \in Readings /\ Readout!Live.kind = "live" /\ Readout!Live.age = 0
    BY FreshIs DEF ReadoutType
  <1>2. ReadoutType'
    BY <1>1, Staleness DEF ReadoutType
  <1>3. FollowsTheSwitch'
    BY <1>1, Staleness DEF FollowsTheSwitch, ReadoutType
  <1>4. AskedByOne'
    BY Staleness DEF AskedByOne, ReadoutType, Readout!Reporting
  <1>5. Relieved'
    BY <1>1, Staleness DEF Relieved, ReadoutType, Readout!Reporting
  <1> QED  BY <1>2, <1>3, <1>4, <1>5

LEMMA Reports == ASSUME ReadoutInv, Readout!Report PROVE ReadoutInv'
  <1>1. /\ UNCHANGED <<on, dish, ticking, tickDue, polling, pollDue, asked, both, out>>
        /\ dish = "answers" /\ since' = 0 /\ waiting' = 0 /\ steady' = on
        /\ sample' = IF on THEN Readout!Live ELSE sample
        /\ painted' = IF on THEN (CASE ~on -> "off" [] on /\ Readout!Fresh(sample') -> "live"
                                    [] OTHER -> "zero")
                      ELSE painted
    BY DEF Readout!Report, Readout!Reported, Readout!Paint, Readout!timers
  <1>2. on => Readout!Fresh(sample')
    BY <1>1, FreshIs DEF ReadoutInv, ReadoutType
  <1>3. painted' = IF on THEN "live" ELSE painted
    BY <1>1, <1>2
  <1> QED  BY <1>1, <1>3, Taken DEF ReadoutInv, ReadoutType

LEMMA PollsAnswered == ASSUME ReadoutInv, Readout!Polled PROVE ReadoutInv'
  <1> USE DEF ReadoutInv
  <1>1. /\ UNCHANGED <<on, dish, since, ticking, tickDue, polling, pollDue, waiting, asked, both>>
        /\ dish = "answers" /\ out > 0 /\ out' = out - 1 /\ out' \in Nat
    BY DEF Readout!Polled, Readout!timers, Readout!page, ReadoutType
  <1>2. CASE Readout!Reporting
    <2>1. UNCHANGED <<sample, painted, steady>>
      BY <1>2 DEF Readout!Polled
    <2>2. sample.age \in Nat /\ since \in Nat
      BY Staleness DEF ReadoutType, Readings
    <2>3. Relieved'
      BY <1>1, <1>2, <2>1, <2>2, Staleness DEF Relieved, ReadoutType, Readout!Reporting
    <2> QED
      BY <1>1, <2>1, <2>3 DEF ReadoutType, FollowsTheSwitch, AskedByOne, Readout!Reporting
  <1>3. CASE ~Readout!Reporting
    <2>1. /\ sample' = Readout!Live /\ steady' = on
          /\ painted' = CASE ~on -> "off" [] on /\ Readout!Fresh(Readout!Live) -> "live"
                          [] OTHER -> "zero"
      BY <1>3 DEF Readout!Polled, Readout!Paint
    <2>2. /\ Readout!Live \in Readings /\ Readout!Live.kind = "live" /\ Readout!Live.age = 0
          /\ Readout!Fresh(Readout!Live)
      BY FreshIs DEF ReadoutType
    <2>3. painted' = IF on THEN "live" ELSE "off"
      BY <2>1, <2>2
    <2>4. CASE on
      <3>1. /\ sample' = (IF on THEN Readout!Live ELSE sample)
            /\ painted' = (IF on THEN "live" ELSE painted)
        BY <2>1, <2>3, <2>4
      <3>2. /\ since' = 0 \/ (since' = since /\ ~Readout!Reporting)
            /\ (waiting' = waiting /\ since' = since) \/ (waiting' = 0 /\ since' = 0)
        BY <1>1, <1>3
      <3> QED  BY <1>1, <2>1, <3>1, <3>2, Taken
    <2>5. CASE ~on
      <3>1. painted' = "off" /\ steady' = FALSE /\ sample' \in Readings
        BY <2>1, <2>2, <2>3, <2>5 DEF ReadoutType
      <3> QED  BY <1>1, <2>5, <3>1 DEF ReadoutType, FollowsTheSwitch, AskedByOne, Relieved,
                 Readout!Reporting
    <2> QED  BY <2>4, <2>5
  <1> QED  BY <1>2, <1>3

LEMMA WindowTurns ==
    ASSUME ReadoutInv, Readout!Open \/ Readout!Close \/ Readout!Throttle \/ Readout!DishTurns
    PROVE  ReadoutInv'
  <1> USE DEF ReadoutInv
  <1>1. CASE Readout!Open
    <2>1. /\ UNCHANGED <<on, dish, ticking, tickDue, polling, pollDue, out, waiting, asked, both>>
          /\ since' = 0 /\ steady' = FALSE
          /\ sample' = IF on THEN Readout!Blank ELSE sample
          /\ painted' = IF on THEN "zero" ELSE painted
      BY <1>1 DEF Readout!Open, Readout!timers
    <2>2. sample' \in Readings
      BY <2>1, FreshIs DEF ReadoutType
    <2>3. ReadoutType' /\ Relieved'
      BY <2>1, <2>2, Staleness DEF ReadoutType, Relieved
    <2>4. FollowsTheSwitch'
      BY <2>1 DEF FollowsTheSwitch, ReadoutType
    <2>5. AskedByOne'
      BY <2>1, Staleness DEF AskedByOne, Readout!Reporting
    <2> QED  BY <2>3, <2>4, <2>5
  <1>2. CASE Readout!Close
    <2>1. /\ UNCHANGED <<on, dish, sample, painted, ticking, tickDue, polling, pollDue, out, steady>>
          /\ since' = ReportStaleMs /\ both' = 0 /\ waiting' = 0 /\ asked' = FALSE
      BY <1>2 DEF Readout!Close, Readout!timers
    <2>2. ReadoutType' /\ FollowsTheSwitch'
      BY <2>1, Staleness DEF ReadoutType, FollowsTheSwitch
    <2>3. ~Readout!Reporting'
      BY <2>1, Staleness DEF Readout!Reporting
    <2> QED  BY <2>1, <2>2, <2>3 DEF AskedByOne, Relieved
  <1>3. CASE Readout!Throttle
    BY <1>3 DEF Readout!Throttle, Readout!timers, Readout!page, ReadoutType, FollowsTheSwitch,
       AskedByOne, Relieved, Readout!Reporting
  <1>4. CASE Readout!DishTurns
    <2>1. /\ UNCHANGED <<on, since, sample, painted, ticking, tickDue, polling, pollDue, out, waiting>>
          /\ dish' \in {"answers", "silent"} /\ steady' = FALSE /\ asked' = FALSE /\ both' = 0
      BY <1>4 DEF Readout!DishTurns, Readout!timers
    <2>2. ReadoutType'
      <3>1. both' \in 0 .. 1
        <4>1. 0 \in 0 .. 1 /\ both' = 0
          BY <2>1
        <4> QED  BY <4>1
      <3>2. sample' \in Readings
        BY <2>1 DEF ReadoutType
      <3>3. steady' \in BOOLEAN
        BY <2>1
      <3> QED  BY <2>1, <3>1, <3>2, <3>3 DEF ReadoutType
    <2>3. AskedByOne'
      BY <2>1 DEF AskedByOne, Readout!Reporting
    <2>4. FollowsTheSwitch' /\ Relieved'
      BY <2>1 DEF FollowsTheSwitch, Relieved
    <2> QED  BY <2>2, <2>3, <2>4
  <1> QED  BY <1>1, <1>2, <1>3, <1>4

LEMMA PollsGoOut == ASSUME ReadoutInv, Readout!Poll \/ Readout!PollFails PROVE ReadoutInv'
  <1> USE DEF ReadoutInv
  <1>1. /\ UNCHANGED <<on, dish, since, sample, painted, ticking, tickDue, polling, waiting, asked>>
        /\ UNCHANGED <<both, steady>>
        /\ pollDue' \in BOOLEAN /\ out' \in Nat
        /\ (out' > 0 \/ (pollDue' = pollDue /\ dish = "silent"))
    <2>1. CASE Readout!Poll
      <3>1. out' = out + 1 /\ out \in Nat /\ pollDue' = FALSE
        BY <2>1 DEF Readout!Poll, ReadoutType
      <3>2. out' \in Nat /\ out' > 0
        BY <3>1
      <3>3. pollDue' \in BOOLEAN
        BY <3>1
      <3> QED  BY <2>1, <3>2, <3>3 DEF Readout!Poll, Readout!page
    <2>2. CASE Readout!PollFails
      BY <2>2 DEF Readout!PollFails, Readout!timers, Readout!page, ReadoutType
    <2> QED  BY <2>1, <2>2
  <1>2. ReadoutType' /\ FollowsTheSwitch'
    BY <1>1 DEF ReadoutType, FollowsTheSwitch
  <1>3. AskedByOne'
    BY <1>1 DEF AskedByOne, Readout!Reporting
  <1>4. Relieved'
    BY <1>1 DEF Relieved, Readout!Reporting
  <1> QED  BY <1>2, <1>3, <1>4

(* The page's own poll.                                                          *)
LEMMA PageTurns == ASSUME ReadoutInv, Readout!PageAsks \/ Readout!PageGivesUp PROVE ReadoutInv'
  <1> USE DEF ReadoutInv
  <1>1. /\ UNCHANGED <<on, dish, since, sample, painted, ticking, tickDue, polling, pollDue, out>>
        /\ UNCHANGED <<both, steady>>
    BY DEF Readout!PageAsks, Readout!PageGivesUp, Readout!timers
  <1>2. waiting \in Nat /\ StatusMs \in Nat \ {0}
    BY Staleness DEF ReadoutType
  <1>3. waiting' \in Nat /\ (asked' => waiting' = 1 \/ (waiting' = 0 /\ since = 0))
    <2>1. CASE Readout!PageAsks
      BY <1>2, <2>1 DEF Readout!PageAsks, AskedByOne
    <2>2. CASE Readout!PageGivesUp
      BY <1>2, <2>2 DEF Readout!PageGivesUp, AskedByOne
    <2> QED  BY <2>1, <2>2
  <1> QED  BY <1>1, <1>3 DEF ReadoutType, FollowsTheSwitch, AskedByOne, Relieved, Readout!Reporting

LEMMA SecondPasses == ASSUME ReadoutInv, Readout!Second PROVE ReadoutInv'
  <1> USE DEF ReadoutInv
  <1> DEFINE K == ReportStaleMs
  <1>1. /\ UNCHANGED <<on, dish, painted, ticking, polling, out, steady>>
        /\ ~tickDue /\ ~pollDue /\ (dish = "answers" => out = 0)
        /\ tickDue' = ticking /\ pollDue' = polling
        /\ since' = (IF since < K THEN since + 1 ELSE K)
        /\ sample' = [sample EXCEPT !.age = Readout!Aged(sample.age, StaleMs)]
        /\ both' = IF polling /\ asked /\ dish = "answers" THEN Readout!Aged(both, 2) ELSE 0
        /\ asked' = FALSE /\ waiting' = (IF waiting > 0 THEN waiting + 1 ELSE 0)
        /\ (dish = "answers" /\ asked => ~(waiting > 0))
    BY DEF Readout!Second, Readout!Aged
  <1>2. /\ sample.age \in 0 .. StaleMs /\ since \in 0 .. K /\ both \in 0 .. 1 /\ waiting \in Nat
        /\ StaleMs \in Nat /\ K \in Nat /\ 1 < K /\ K < StaleMs
    BY Staleness DEF ReadoutType, Readings
  <1>3. /\ sample' \in Readings /\ sample'.kind = sample.kind
        /\ sample'.age = IF sample.age < StaleMs THEN sample.age + 1 ELSE StaleMs
    <2>1. (IF sample.age < StaleMs THEN sample.age + 1 ELSE StaleMs) \in 0 .. StaleMs
      BY <1>2
    <2> QED  BY <1>1, <2>1 DEF Readings, ReadoutType, Readout!Aged
  <1>4. /\ Readout!Reporting <=> since < K
        /\ Readout!Reporting' <=> since' < K
    BY DEF Readout!Reporting
  <1>5. both' \in 0 .. 1 /\ (both' = 1 => polling /\ since = 0)
    <2>1. CASE polling /\ asked /\ dish = "answers"
      <3>1. since = 0
        BY <1>1, <1>2, <2>1 DEF AskedByOne
      <3>2. both = 0
        BY <1>1, <1>2, <2>1 DEF AskedByOne
      <3> QED  BY <1>1, <2>1, <3>1, <3>2 DEF Readout!Aged
    <2>2. CASE ~(polling /\ asked /\ dish = "answers")
      BY <1>1, <2>2
    <2> QED  BY <2>1, <2>2
  <1>6. ReadoutType'
    BY <1>1, <1>2, <1>3, <1>5 DEF ReadoutType
  <1>7. FollowsTheSwitch'
    BY <1>1, <1>3 DEF FollowsTheSwitch, ReadoutType
  <1>8. AskedByOne'
    <2>1. polling => tickDue'
      BY <1>1 DEF FollowsTheSwitch, ReadoutType
    <2>2. polling /\ since < K => since = 0
      BY <1>1, <1>4 DEF AskedByOne
    <2> QED  BY <1>1, <1>2, <1>4, <1>5, <2>1, <2>2 DEF AskedByOne
  <1>9. ASSUME steady PROVE Relieved'
    <2>1. /\ on /\ ticking /\ out = 0 /\ painted = "live" /\ sample.kind = "live" /\ dish = "answers"
          /\ sample.age < K /\ (since < K => sample.age <= since)
      BY <1>1, <1>2, <1>4, <1>9 DEF Relieved, FollowsTheSwitch
    <2>2. sample'.age = sample.age + 1 /\ sample'.age <= K
      BY <1>2, <1>3, <2>1
    <2>3. tickDue' /\ (pollDue' \/ ~polling')
      BY <1>1, <2>1
    <2>4. since' < K => sample'.age <= since'
      BY <1>1, <1>2, <2>1, <2>2
    <2> QED  BY <1>1, <1>3, <1>4, <2>1, <2>2, <2>3, <2>4 DEF Relieved
  <1>10. Relieved'
    BY <1>1, <1>9 DEF Relieved
  <1> QED  BY <1>6, <1>7, <1>8, <1>10

LEMMA ReadoutSteps == ASSUME ReadoutInv, [DesktopNext]_desktopVars PROVE ReadoutInv'
  <1>1. CASE Readout!Next
    BY <1>1, Ticks, Switches, Reports, PageTurns, WindowTurns, PollsGoOut, PollsAnswered, SecondPasses
       DEF Readout!Next
  <1>2. CASE UNCHANGED readoutVars
    BY <1>2 DEF readoutVars, ReadoutInv, ReadoutType, FollowsTheSwitch, AskedByOne, Relieved,
       Readout!Reporting
  <1> QED
    BY <1>1, <1>2 DEF DesktopNext, OfficeNext, PageNext, DashboardNext, desktopVars, officeVars

(* For all limits that keep THROUGHPUT_STALE_MS above RENDERER_REPORT_STALE_MS:  *)
(* no figure staler than the first stands beside the tray icon, page and         *)
(* recorder both ask a dish that answers for no two seconds in a row, and a      *)
(* handoff never flashes zero (electron/main.ts, useDishTelemetry).              *)
THEOREM HandoverIsSeamless == DesktopSpec => []ReadoutIsTrue
  <1>1. DesktopInit => ReadoutInv
    BY ReadoutStarts
  <1>2. ReadoutInv /\ [DesktopNext]_desktopVars => ReadoutInv'
    BY ReadoutSteps
  <1>3. ReadoutInv => ReadoutIsTrue
    BY DEF ReadoutInv, ReadoutType, FollowsTheSwitch, Relieved, ReadoutIsTrue,
       Readout!ReadoutIsCurrent, Readout!HandoverShowsNoZero
  <1> QED  BY <1>1, <1>2, <1>3, PTL DEF DesktopSpec

--------------------------------------------------------------------------------
(* Who announces an alert.  While nothing has come between, the count follows    *)
(* from who has heard of it and where the window stands: the page announces in   *)
(* front of it if it can sound, the recorder behind it, and each for both.       *)

Onsets == Alerts!Alerts

AlertType ==
    /\ replies \in BOOLEAN /\ faulty \in BOOLEAN /\ wanted \in BOOLEAN
    /\ audible \in BOOLEAN
    /\ shown \in SUBSET Onsets /\ firing \in SUBSET Onsets
    /\ times \in [Onsets -> 0 .. 2] /\ plain \in [Onsets -> BOOLEAN]

PlainCount(x) ==
    /\ (x \notin shown /\ x \notin firing) => times[x] = 0
    /\ (x \in shown /\ x \notin firing /\ Alerts!Held(x)) =>
           times[x] = IF window = "front" /\ audible THEN 1 ELSE 0
    /\ (x \notin shown /\ x \in firing) =>
           times[x] = IF window # "front" /\ wanted THEN 1 ELSE 0
    /\ (x \in shown /\ x \in firing /\ (wanted \/ window = "front")) =>
           times[x] = IF window = "front" /\ ~audible THEN 0 ELSE 1

CountFollows(x) == plain[x] => PlainCount(x)

AlertInv == AlertType /\ \A x \in Onsets : CountFollows(x)

LEMMA AlertsStart == DesktopInit => AlertInv
  <1> SUFFICES ASSUME DesktopInit PROVE AlertInv
    OBVIOUS
  <1>1. /\ replies = TRUE /\ faulty = FALSE /\ wanted \in BOOLEAN /\ audible = FALSE
        /\ shown = {} /\ firing = {}
        /\ times = [x \in Onsets |-> 0] /\ plain = [x \in Onsets |-> TRUE]
    BY DEF DesktopInit, Alerts!Init, Onsets
  <1>2. times \in [Onsets -> 0 .. 2] /\ plain \in [Onsets -> BOOLEAN]
    BY <1>1
  <1>3. \A x \in Onsets : CountFollows(x)
    BY <1>1 DEF CountFollows, PlainCount
  <1> QED  BY <1>1, <1>2, <1>3 DEF AlertInv, AlertType

(* The ghosts keep their types.                                                  *)
LEMMA CountedTypes ==
    ASSUME AlertType, NEW saying, NEW heldBack, Alerts!Counted(saying, heldBack)
    PROVE  times' \in [Onsets -> 0 .. 2] /\ plain' \in [Onsets -> BOOLEAN]
  <1>1. ASSUME NEW x \in Onsets
        PROVE  (IF Alerts!Quiet(x)' THEN 0
                ELSE IF x \in saying /\ times[x] < Alerts!Many THEN times[x] + 1 ELSE times[x])
                 \in 0 .. 2
    <2>1. times[x] \in 0 .. 2
      BY DEF AlertType
    <2> QED  BY <2>1 DEF Alerts!Many
  <1>2. times' \in [Onsets -> 0 .. 2]
    BY <1>1 DEF Alerts!Counted, Onsets
  <1>3. plain' \in [Onsets -> BOOLEAN]
    BY DEF Alerts!Counted, Onsets, AlertType
  <1> QED  BY <1>2, <1>3

LEMMA MuddledCounts ==
    ASSUME AlertType, Alerts!Muddled,
           replies' \in BOOLEAN, faulty' \in BOOLEAN, wanted' \in BOOLEAN, audible' \in BOOLEAN,
           shown' \in SUBSET Onsets, firing' \in SUBSET Onsets
    PROVE  AlertInv'
  <1>1. times' \in [Onsets -> 0 .. 2] /\ plain' \in [Onsets -> BOOLEAN]
    <2>1. ASSUME NEW x \in Onsets PROVE (IF Alerts!Quiet(x)' THEN 0 ELSE times[x]) \in 0 .. 2
      BY DEF AlertType
    <2> QED  BY <2>1 DEF Alerts!Muddled, Onsets, Alerts!Quiet
  <1>2. ASSUME NEW x \in Onsets PROVE CountFollows(x)'
    <2>1. /\ times'[x] = IF Alerts!Quiet(x)' THEN 0 ELSE times[x]
          /\ plain'[x] <=> Alerts!Quiet(x)'
      BY DEF Alerts!Muddled, Onsets
    <2> QED  BY <2>1 DEF CountFollows, PlainCount, Alerts!Quiet
  <1> QED  BY <1>1, <1>2 DEF AlertInv, AlertType

LEMMA PageHears == ASSUME AlertInv, Alerts!PagePolls PROVE AlertInv'
  <1> USE DEF AlertInv
  <1> DEFINE keys == shown' \ shown
             sounds == IF window = "front" /\ audible THEN keys \ chimed ELSE {}
             held == (keys \cap chimed) \cup ((shown \cap firing) \ shown')
  <1>1. /\ UNCHANGED <<replies, faulty, firing, window, audible, wanted>>
        /\ Alerts!Counted(sounds, held)
    BY DEF Alerts!PagePolls, Alerts!Announce, Alerts!device
  <1>2. shown' \in SUBSET Onsets
    BY DEF Alerts!PagePolls, Alerts!Active, Onsets, Alerts!Alerts
  <1>3. ASSUME NEW x \in Onsets PROVE x \in shown' <=> Alerts!Held(x)
    BY <1>3 DEF Alerts!PagePolls, Alerts!Active, Onsets, Alerts!Alerts, Alerts!Held, AlertType
  <1>4. times' \in [Onsets -> 0 .. 2] /\ plain' \in [Onsets -> BOOLEAN]
    BY <1>1, CountedTypes
  <1>5. ASSUME NEW x \in Onsets PROVE CountFollows(x)'
    <2>1. /\ times'[x] = IF Alerts!Quiet(x)' THEN 0
                         ELSE IF x \in sounds /\ times[x] < 2 THEN times[x] + 1 ELSE times[x]
          /\ plain'[x] <=> (Alerts!Quiet(x)' \/ (plain[x] /\ x \notin held))
      BY <1>1 DEF Alerts!Counted, Onsets, Alerts!Many
    <2>2. times[x] \in 0 .. 2 /\ CountFollows(x)
      BY DEF AlertType
    <2>3. Alerts!Held(x)' <=> Alerts!Held(x)
      BY <1>1 DEF Alerts!Held
    <2>4. Alerts!Quiet(x)' <=> (~Alerts!Held(x) /\ x \notin firing)
      BY <1>1, <1>3, <2>3 DEF Alerts!Quiet
    <2> QED  BY <1>1, <1>3, <2>1, <2>2, <2>3, <2>4 DEF CountFollows, PlainCount, Alerts!Quiet
  <1> QED  BY <1>1, <1>2, <1>4, <1>5 DEF AlertType

LEMMA RecorderHears == ASSUME AlertInv, Alerts!RecorderPolls PROVE AlertInv'
  <1> USE DEF AlertInv
  <1> DEFINE keys == firing' \ firing
             fresh == IF wanted THEN keys \ posted ELSE {}
             said == IF window # "front" THEN fresh ELSE {}
             held == keys \cap posted
  <1>1. /\ UNCHANGED <<replies, faulty, shown, window, audible, wanted>>
        /\ Alerts!Counted(said, held) /\ firing' = Alerts!EngineHears
    BY DEF Alerts!RecorderPolls, Alerts!Posted, Alerts!device, Alerts!page
  <1>2. firing' \in SUBSET Onsets
    BY <1>1 DEF Alerts!EngineHears, Onsets, Alerts!Alerts, AlertType
  <1>3. ASSUME NEW x \in Onsets
        PROVE  /\ x \in keys => Alerts!Held(x)
               /\ (x \in firing /\ x \notin firing') => ~Alerts!Held(x)
    BY <1>1, <1>3 DEF Alerts!EngineHears, Onsets, Alerts!Alerts, Alerts!Held, AlertType
  <1>4. times' \in [Onsets -> 0 .. 2] /\ plain' \in [Onsets -> BOOLEAN]
    BY <1>1, CountedTypes
  <1>5. ASSUME NEW x \in Onsets PROVE CountFollows(x)'
    <2>1. /\ times'[x] = IF Alerts!Quiet(x)' THEN 0
                         ELSE IF x \in said /\ times[x] < 2 THEN times[x] + 1 ELSE times[x]
          /\ plain'[x] <=> (Alerts!Quiet(x)' \/ (plain[x] /\ x \notin held))
      BY <1>1 DEF Alerts!Counted, Onsets, Alerts!Many
    <2>2. times[x] \in 0 .. 2 /\ CountFollows(x)
      BY DEF AlertType
    <2>3. Alerts!Held(x)' <=> Alerts!Held(x)
      BY <1>1 DEF Alerts!Held
    <2>4. Alerts!Quiet(x)' <=> (~Alerts!Held(x) /\ x \notin shown /\ x \notin firing')
      BY <1>1, <2>3 DEF Alerts!Quiet
    <2> QED  BY <1>1, <1>3, <2>1, <2>2, <2>3, <2>4 DEF CountFollows, PlainCount, Alerts!Quiet
  <1> QED  BY <1>1, <1>2, <1>4, <1>5 DEF AlertType

(* An alert that comes back before both have let go of it is not a new one.      *)
LEMMA DeviceChanges == ASSUME AlertInv, Alerts!DeviceTurns PROVE AlertInv'
  <1> USE DEF AlertInv
  <1>1. /\ UNCHANGED <<shown, firing, window, audible, wanted, times>>
        /\ replies' \in BOOLEAN /\ faulty' \in BOOLEAN
        /\ plain' = [x \in Onsets |->
             plain[x] /\ ~(Alerts!Held(x)' /\ ~Alerts!Held(x) /\ ~Alerts!Quiet(x))]
    BY DEF Alerts!DeviceTurns, Alerts!page, Onsets
  <1>2. plain' \in [Onsets -> BOOLEAN]
    BY <1>1 DEF AlertType
  <1>3. ASSUME NEW x \in Onsets PROVE CountFollows(x)'
    <2>1. times'[x] = times[x] /\ CountFollows(x)
      BY <1>1
    <2>2. plain'[x] <=> (plain[x] /\ ~(Alerts!Held(x)' /\ ~Alerts!Held(x) /\ ~Alerts!Quiet(x)))
      BY DEF Alerts!DeviceTurns, Onsets, Alerts!Held, Alerts!Quiet
    <2> QED  BY <1>1, <2>1, <2>2 DEF CountFollows, PlainCount, Alerts!Quiet
  <1> QED  BY <1>1, <1>2, <1>3 DEF AlertType

LEMMA PersonActs ==
    ASSUME AlertInv, Alerts!Open \/ Alerts!Focus \/ Alerts!Touch \/ Alerts!Close \/ Alerts!Toggle
    PROVE  AlertInv'
  <1>1. /\ Alerts!Muddled /\ AlertType /\ UNCHANGED <<replies, faulty, firing>>
        /\ shown' \in {{}, shown} /\ wanted' \in {wanted, ~wanted}
        /\ audible' \in {audible, ~audible, FALSE}
    BY DEF AlertInv, Alerts!Open, Alerts!Focus, Alerts!Touch, Alerts!Close, Alerts!Toggle, Alerts!device,
       Alerts!page
  <1> QED  BY <1>1, MuddledCounts DEF AlertType

LEMMA AlertSteps == ASSUME AlertInv, [DesktopNext]_desktopVars PROVE AlertInv'
  <1>1. CASE UNCHANGED <<replies, faulty, shown, firing, window, audible, wanted, times, plain>>
    BY <1>1 DEF AlertInv, AlertType, CountFollows, PlainCount, Alerts!Held, Alerts!Quiet
  <1>2. CASE Alerts!Next
    <2>1. CASE Alerts!MinutePasses
      BY <1>1, <2>1 DEF Alerts!MinutePasses, Alerts!device, Alerts!page
    <2> QED  BY <1>2, <2>1, PageHears, RecorderHears, DeviceChanges, PersonActs DEF Alerts!Next
  <1>3. CASE UNCHANGED alertVars
    BY <1>1, <1>3 DEF alertVars
  <1> QED
    BY <1>2, <1>3 DEF DesktopNext, OfficeNext, PageNext, DashboardNext, desktopVars, officeVars

(* Whichever of the page and the recorder hears of it first, an alert that both  *)
(* have heard of has been announced once, and not at all where it was left to a  *)
(* window in front that cannot sound (useDeviceAlerts: the host suppresses its   *)
(* own notification while the window is in front; playAlertSound).               *)
THEOREM NobodyIsToldTwice == DesktopSpec => []AnnouncedOnce
  <1>1. DesktopInit => AlertInv
    BY AlertsStart
  <1>2. AlertInv /\ [DesktopNext]_desktopVars => AlertInv'
    BY AlertSteps
  <1>3. AlertInv => AnnouncedOnce
    BY DEF AlertInv, AlertType, CountFollows, PlainCount, AnnouncedOnce, Alerts!AnnouncedOnce
  <1> QED  BY <1>1, <1>2, <1>3, PTL DEF DesktopSpec

--------------------------------------------------------------------------------
(* The page's view of the account.  What the newest request was answered was     *)
(* answered under the session the page knows of: an announcement abandons it.    *)

StoreInv ==
    /\ era \in Nat /\ noted \in Nat /\ noted <= era
    /\ (flight \notin {None, Store!Out} => flight.era \in Nat /\ noted <= flight.era)

(* None is no answer, nor is a request that is out.                              *)
LEMMA StoreStarts == DesktopInit => StoreInv
  BY DEF DesktopInit, Store!Init, StoreInv

LEMMA StoreSteps ==
    ASSUME StoreInv, [DesktopNext]_desktopVars
    PROVE  /\ StoreInv'
           /\ [reached' # reached \/ (loaded' /\ ~loaded) => reached' >= noted]_(Store!vars)
  <1> USE DEF StoreInv
  <1>1. CASE UNCHANGED storeVars
    BY <1>1 DEF storeVars, Store!vars
  <1>2. CASE flight' \in {flight, None, Store!Out} /\ UNCHANGED <<noted, era, reached>>
             /\ (loaded' => loaded)
    BY <1>2
  <1>3. CASE Store!Next
    <2>1. CASE Store!Answer \/ Store!Fault
      <3>1. PICK kind : flight' = Store!Said(kind)
        BY <2>1 DEF Store!Answer, Store!Fault, Store!TheAnswer
      <3>2. flight'.era = era /\ UNCHANGED <<noted, era, reached, loaded>>
        BY <2>1, <3>1 DEF Store!Answer, Store!Fault, Store!Said
      <3> QED  BY <3>2
    <2>2. CASE Store!Land
      <3>1. /\ flight \in Store!Answers /\ flight' = None /\ UNCHANGED <<noted, era>>
            /\ reached' = IF flight.kind = "fault" THEN reached ELSE flight.era
            /\ loaded' <=> flight.kind # "fault"
        BY <2>2 DEF Store!Land
      <3>2. flight \notin {None, Store!Out}
        BY <3>1, InstancesSuit
           DEF Store!Answers, Store!Out, Store!StoreAssumption
      <3> QED  BY <3>1, <3>2
    <2>3. CASE Store!Announced
      <3>1. noted' = era /\ UNCHANGED <<era, reached>> /\ loaded' = FALSE
        BY <2>3 DEF Store!Announced, Store!Invalidate
      <3>2. flight' \in {None, Store!Out}
        BY <2>3 DEF Store!Announced, Store!Invalidate, Store!Load
      <3> QED  BY <3>1, <3>2
    <2>4. CASE Store!SessionChanges
      <3>1. era' = era + 1 /\ UNCHANGED <<flight, noted, reached, loaded>>
        BY <2>4 DEF Store!SessionChanges
      <3> QED  BY <3>1
    <2>5. CASE \E v \in Watchers : Store!Mount(v) \/ Store!Activate(v) \/ Store!Unmount(v)
                                   \/ Store!Reload(v)
      BY <1>2, <2>5 DEF Store!Mount, Store!Activate, Store!Unmount, Store!Reload, Store!Ensure,
         Store!Load
    <2>6. CASE Store!AnswerLate \/ Store!LandLate \/ Store!RetryFires
      BY <1>2, <2>6 DEF Store!AnswerLate, Store!LandLate, Store!RetryFires, Store!Load
    <2> QED  BY <1>3, <2>1, <2>2, <2>3, <2>4, <2>5, <2>6 DEF Store!Next
  <1> QED  BY <1>1, <1>3 DEF DesktopNext, OfficeNext, PageNext, DashboardNext, desktopVars, pageVars

(* However often the session changes under it, the page takes an answer only if  *)
(* it was given under the session the page knows of or a later one               *)
(* (createCloudStore: an invalidate mid-flight abandons the older request).      *)
THEOREM AnswersAreOfTheSession == DesktopSpec => Store!AnswersAreOfThisSession
  <1>1. DesktopInit => StoreInv
    BY StoreStarts
  <1>2. StoreInv /\ [DesktopNext]_desktopVars => StoreInv'
    BY StoreSteps
  <1>3. StoreInv /\ [DesktopNext]_desktopVars =>
          [reached' # reached \/ (loaded' /\ ~loaded) => reached' >= noted]_(Store!vars)
    BY StoreSteps
  <1> QED  BY <1>1, <1>2, <1>3, PTL DEF DesktopSpec, Store!AnswersAreOfThisSession

--------------------------------------------------------------------------------
(* The way to the router.  What a call has yet to dial is of its own list, and   *)
(* an origin that has answered all the while is among what it has yet to dial.   *)

AllOrigins == Router!Origins
Runs == [left : Seq(AllOrigins), may : SUBSET AllOrigins, steady : SUBSET AllOrigins, missed : BOOLEAN]

RouterType ==
    /\ network \in Networks /\ configured \in {None, SetAddress}
    /\ preferred \in AllOrigins \cup {None} /\ answers \in SUBSET AllOrigins
    /\ run \in [RouterCallers -> Runs]

OnItsWay(r) ==
    /\ Router!ToSet(r.left) \subseteq r.may
    /\ r.steady \subseteq Router!ToSet(r.left) \cap answers
    /\ ~r.missed

RouterInv == RouterType /\ \A c \in RouterCallers : OnItsWay(run[c])

LEMMA CandidatesAre ==
    ASSUME RouterType
    PROVE  Router!RouterOriginsFrom(network, configured) \in Seq(AllOrigins) \ {<<>>}
  BY DEF RouterType, AllOrigins, Router!RouterOriginsFrom, Router!Origins

LEMMA ToSetIs ==
    ASSUME NEW s \in Seq(AllOrigins)
    PROVE  Router!ToSet(s) = {s[i] : i \in 1 .. Len(s)} /\ Len(s) \in Nat
  BY DEF Router!ToSet

LEMMA OrderedKeepsAll ==
    ASSUME NEW s \in Seq(AllOrigins) \ {<<>>}
    PROVE  /\ Router!Ordered(s) \in Seq(AllOrigins)
           /\ Router!ToSet(Router!Ordered(s)) = Router!ToSet(s)
  <1>1. CASE preferred \notin Router!ToSet(s)
    BY <1>1 DEF Router!Ordered
  <1>2. CASE preferred \in Router!ToSet(s)
    <2> DEFINE place == CHOOSE i \in 1..Len(s) : s[i] = preferred
               rest == SubSeq(s, 1, place - 1) \o SubSeq(s, place + 1, Len(s))
               ordered == <<preferred>> \o rest
    <2>1. place \in 1..Len(s) /\ s[place] = preferred
      BY <1>2 DEF Router!ToSet
    <2>2. Router!Ordered(s) = ordered
      BY <1>2 DEF Router!Ordered, Router!RemoveAt
    <2> HIDE DEF place
    <2>3. /\ rest \in Seq(AllOrigins) /\ Len(rest) = Len(s) - 1
          /\ \A i \in 1 .. place - 1 : rest[i] = s[i]
          /\ \A i \in place .. Len(s) - 1 : rest[i] = s[i + 1]
      <3> DEFINE before == SubSeq(s, 1, place - 1)
                 after == SubSeq(s, place + 1, Len(s))
      <3>1. place \in Int /\ 1 <= place /\ place <= Len(s) /\ Len(s) \in Nat
        BY <2>1
      <3>2. /\ before \in Seq(AllOrigins) /\ Len(before) = place - 1
            /\ \A i \in 1 .. place - 1 : before[i] = s[i]
        BY <3>1
      <3>3. /\ after \in Seq(AllOrigins) /\ Len(after) = Len(s) - place
            /\ \A i \in 1 .. Len(s) - place : after[i] = s[place + i]
        BY <3>1
      <3> HIDE DEF before, after
      <3>4. before \o after \in Seq(AllOrigins) /\ Len(before \o after) = Len(s) - 1
        BY <3>1, <3>2, <3>3
      <3>5. ASSUME NEW i \in 1 .. place - 1 PROVE (before \o after)[i] = s[i]
        BY <3>1, <3>2, <3>3
      <3>6. ASSUME NEW i \in place .. Len(s) - 1 PROVE (before \o after)[i] = s[i + 1]
        <4>1. i - (place - 1) \in 1 .. Len(s) - place /\ place + (i - (place - 1)) = i + 1
          BY <3>1
        <4>2. (before \o after)[i] = after[i - (place - 1)]
          BY <3>1, <3>2, <3>3
        <4> QED  BY <3>3, <4>1, <4>2
      <3> QED  BY <3>4, <3>5, <3>6 DEF before, after
    <2> HIDE DEF rest
    <2>4. preferred \in AllOrigins
      BY <2>1
    <2>5. /\ ordered \in Seq(AllOrigins) /\ Len(ordered) = Len(s) /\ ordered[1] = preferred
          /\ \A i \in 1 .. Len(s) - 1 : ordered[i + 1] = rest[i]
      BY <2>1, <2>3, <2>4
    <2> HIDE DEF ordered
    <2>6. ASSUME NEW i \in 1 .. Len(s) PROVE \E j \in 1 .. Len(s) : ordered[j] = s[i]
      <3>1. CASE i = place
        BY <2>1, <2>5, <3>1
      <3>2. CASE i < place
        BY <2>1, <2>3, <2>5, <3>2
      <3>3. CASE i > place
        <4>1. i \in 1 .. Len(s)
          OBVIOUS
        <4>2. i - 1 \in place .. Len(s) - 1 /\ i - 1 \in 1 .. Len(s) - 1 /\ (i - 1) + 1 = i
          BY <2>1, <3>3
        <4>3. ordered[i] = rest[i - 1]
          BY <2>5, <4>2
        <4>4. rest[i - 1] = s[i]
          BY <2>3, <4>2
        <4> QED  BY <4>1, <4>3, <4>4
      <3>4. i \in Int /\ place \in Int
        BY <2>1
      <3> QED  BY <3>1, <3>2, <3>3, <3>4
    <2>7. ASSUME NEW j \in 1 .. Len(s) PROVE \E i \in 1 .. Len(s) : ordered[j] = s[i]
      <3>1. CASE j = 1
        BY <2>1, <2>5, <3>1
      <3>2. CASE j > 1
        <4>1. j - 1 \in 1 .. Len(s) - 1 /\ (j - 1) + 1 = j
          BY <3>2
        <4>2. ordered[j] = rest[j - 1]
          BY <2>5, <4>1
        <4> QED  BY <2>1, <2>3, <4>1, <4>2
      <3> QED  BY <3>1, <3>2
    <2>8. Router!ToSet(ordered) = Router!ToSet(s)
      <3>1. /\ Router!ToSet(ordered) = {ordered[i] : i \in 1 .. Len(s)}
            /\ Router!ToSet(s) = {s[i] : i \in 1 .. Len(s)}
        BY <2>5, ToSetIs
      <3> QED  BY <2>6, <2>7, <3>1
    <2> QED  BY <2>2, <2>5, <2>8
  <1> QED  BY <1>1, <1>2

LEMMA RouterStarts == DesktopInit => RouterInv
  BY InstancesSuit DEF DesktopInit, Router!Init, RouterInv, RouterType, Runs, OnItsWay, AllOrigins,
     Router!Origins, Router!Rest, Router!OriginsAssumption, Router!ToSet

(* One call moves on.                                                            *)
LEMMA RunMoves ==
    ASSUME RouterInv, NEW c \in RouterCallers, NEW r \in Runs, run' = [run EXCEPT ![c] = r],
           OnItsWay(r), UNCHANGED <<network, configured, answers>>,
           preferred' \in AllOrigins \cup {None}
    PROVE  RouterInv'
  BY DEF RouterInv, RouterType, OnItsWay

LEMMA RestIs == Router!Rest \in Runs /\ OnItsWay(Router!Rest)
  BY DEF Router!Rest, Runs, OnItsWay, Router!ToSet

LEMMA CallBegins == ASSUME RouterInv, NEW c \in RouterCallers, Router!Begin(c) PROVE RouterInv'
  <1> USE DEF RouterInv
  <1> DEFINE candidates == Router!RouterOriginsFrom(network, configured)
             r == [left |-> Router!Ordered(candidates), may |-> Router!ToSet(candidates),
                   steady |-> Router!ToSet(candidates) \cap answers, missed |-> FALSE]
  <1>1. run' = [run EXCEPT ![c] = r] /\ UNCHANGED <<network, configured, answers, preferred>>
    BY DEF Router!Begin
  <1>2. candidates \in Seq(AllOrigins) \ {<<>>}
    BY CandidatesAre
  <1> HIDE DEF candidates
  <1>3. /\ Router!Ordered(candidates) \in Seq(AllOrigins)
        /\ Router!ToSet(Router!Ordered(candidates)) = Router!ToSet(candidates)
    BY <1>2, OrderedKeepsAll
  <1>4. Router!ToSet(candidates) \subseteq AllOrigins
    BY <1>2 DEF Router!ToSet
  <1>5. r \in Runs /\ OnItsWay(r)
    BY <1>3, <1>4 DEF Runs, OnItsWay
  <1> HIDE DEF r
  <1> QED  BY <1>1, <1>5, RunMoves DEF RouterType

LEMMA CallAnswered == ASSUME RouterInv, NEW c \in RouterCallers, Router!Answered(c) PROVE RouterInv'
  <1>1. /\ run' = [run EXCEPT ![c] = Router!Rest] /\ UNCHANGED <<network, configured, answers>>
        /\ preferred' = Head(run[c].left) /\ run[c].left # <<>>
    BY DEF Router!Answered
  <1>2. run[c].left \in Seq(AllOrigins)
    BY DEF RouterInv, RouterType, Runs
  <1>3. preferred' \in AllOrigins
    BY <1>1, <1>2
  <1> QED  BY <1>1, <1>3, RestIs, RunMoves

(* What does not answer has not answered all the while.                          *)
LEMMA CallFails == ASSUME RouterInv, NEW c \in RouterCallers, Router!Fails(c) PROVE RouterInv'
  <1> USE DEF RouterInv
  <1>1. /\ run[c].left # <<>> /\ Head(run[c].left) \notin answers
        /\ run' = [run EXCEPT ![c] = IF Len(run[c].left) # 1
                                     THEN [run[c] EXCEPT !.left = Tail(@)]
                                     ELSE IF run[c].steady = {} THEN Router!Rest
                                     ELSE [Router!Rest EXCEPT !.missed = TRUE]]
        /\ UNCHANGED <<network, configured, answers>> /\ preferred' \in {None, preferred}
    BY DEF Router!Fails, Router!LastTried
  <1>2. run[c] \in Runs /\ run[c].left \in Seq(AllOrigins) /\ OnItsWay(run[c])
    BY DEF RouterType, Runs
  <1>3. Router!ToSet(run[c].left) = {Head(run[c].left)} \cup Router!ToSet(Tail(run[c].left))
    <2> DEFINE s == run[c].left
    <2>1. s \in Seq(AllOrigins) /\ s # <<>>
      BY <1>1, <1>2
    <2> HIDE DEF s
    <2>2. Len(s) \in Nat /\ Len(s) > 0 /\ Len(Tail(s)) = Len(s) - 1 /\ Head(s) = s[1]
          /\ \A i \in 1 .. Len(s) - 1 : Tail(s)[i] = s[i + 1]
      BY <2>1
    <2>3. \A i \in 1 .. Len(s) : i = 1 \/ (i - 1 \in 1 .. Len(s) - 1 /\ (i - 1) + 1 = i)
      BY <2>2
    <2>4. Router!ToSet(s) = {Head(s)} \cup Router!ToSet(Tail(s))
      <3>1. /\ Router!ToSet(s) = {s[i] : i \in 1 .. Len(s)}
            /\ Router!ToSet(Tail(s)) = {Tail(s)[i] : i \in 1 .. Len(s) - 1}
        <4>1. Tail(s) \in Seq(AllOrigins)
          BY <2>1
        <4> QED  BY <2>1, <2>2, <4>1, ToSetIs
      <3>2. ASSUME NEW i \in 1 .. Len(s)
            PROVE  s[i] \in {Head(s)} \cup {Tail(s)[j] : j \in 1 .. Len(s) - 1}
        <4>1. CASE i = 1
          BY <2>2, <4>1
        <4>2. CASE i # 1
          BY <2>2, <2>3, <4>2
        <4> QED  BY <4>1, <4>2
      <3>3. ASSUME NEW j \in 1 .. Len(s) - 1
            PROVE  Tail(s)[j] \in {s[i] : i \in 1 .. Len(s)}
        <4>1. j + 1 \in 1 .. Len(s) /\ Tail(s)[j] = s[j + 1]
          BY <2>2
        <4> QED  BY <4>1
      <3>4. Head(s) \in {s[i] : i \in 1 .. Len(s)}
        BY <2>2
      <3> QED  BY <3>1, <3>2, <3>3, <3>4
    <2> QED  BY <2>4 DEF s
  <1>4. CASE Len(run[c].left) = 1
    <2>1. Router!ToSet(Tail(run[c].left)) = {}
      BY <1>1, <1>2, <1>4 DEF Router!ToSet
    <2>2. run[c].steady = {}
      BY <1>1, <1>2, <1>3, <2>1 DEF OnItsWay
    <2>3. run' = [run EXCEPT ![c] = Router!Rest]
      BY <1>1, <1>4, <2>2
    <2> QED  BY <1>1, <2>3, RestIs, RunMoves DEF RouterType
  <1>5. CASE Len(run[c].left) # 1
    <2> DEFINE r == [run[c] EXCEPT !.left = Tail(@)]
    <2>1. r \in Runs /\ r.left = Tail(run[c].left) /\ r.may = run[c].may /\ r.steady = run[c].steady
          /\ r.missed = run[c].missed
      <3>1. Tail(run[c].left) \in Seq(AllOrigins)
        BY <1>1, <1>2
      <3> QED  BY <1>2, <3>1 DEF Runs
    <2>2. run' = [run EXCEPT ![c] = r]
      BY <1>1, <1>5
    <2> HIDE DEF r
    <2>3. OnItsWay(r)
      BY <1>1, <1>2, <1>3, <2>1 DEF OnItsWay
    <2> QED  BY <1>1, <2>1, <2>2, <2>3, RunMoves DEF RouterType
  <1> QED  BY <1>4, <1>5

LEMMA HostMoves == ASSUME RouterInv, Router!Move PROVE RouterInv'
  <1> USE DEF RouterInv
  <1>1. PICK now \in SUBSET {IPv4, SetAddress, network'} : Router!Reaches(now)
    BY DEF Router!Move
  <1>2. network' \in Networks /\ configured' = configured
    BY DEF Router!Move
  <1>3. answers' = now /\ preferred' = preferred
        /\ run' = [c \in RouterCallers |-> [run[c] EXCEPT !.steady = @ \cap now]]
    BY <1>1 DEF Router!Reaches
  <1>4. now \in SUBSET AllOrigins
    BY <1>2 DEF AllOrigins, Router!Origins
  <1>5. ASSUME NEW c \in RouterCallers
        PROVE  run'[c] \in Runs /\ OnItsWay(run[c])'
    <2>1. run'[c] = [run[c] EXCEPT !.steady = @ \cap now] /\ run[c] \in Runs /\ OnItsWay(run[c])
      BY <1>3 DEF RouterType
    <2> QED  BY <1>3, <2>1 DEF Runs, OnItsWay
  <1>6. run' \in [RouterCallers -> Runs]
    BY <1>3, <1>5
  <1> QED  BY <1>2, <1>3, <1>4, <1>5, <1>6 DEF RouterType

LEMMA RouterSteps == ASSUME RouterInv, [DesktopNext]_desktopVars PROVE RouterInv'
  <1>1. CASE Router!Next
    <2>1. CASE Router!Configure
      BY <2>1 DEF RouterInv, RouterType, OnItsWay, Router!Configure
    <2> QED  BY <1>1, <2>1, CallBegins, CallAnswered, CallFails, HostMoves DEF Router!Next
  <1>2. CASE UNCHANGED originVars
    BY <1>2 DEF originVars, RouterInv, RouterType, OnItsWay
  <1> QED  BY <1>1, <1>2 DEF DesktopNext, OfficeNext, PageNext, DashboardNext, desktopVars, pageVars

(* However calls overlap, the host moves and the setting is changed: a call      *)
(* dials only what its own network and setting offered as it began, and fails    *)
(* only if none of those answered all the while (createRouterOrigins).           *)
THEOREM RouterIsReached == DesktopSpec => []ReachedWhereItAnswers
  <1>1. DesktopInit => RouterInv
    BY RouterStarts
  <1>2. RouterInv /\ [DesktopNext]_desktopVars => RouterInv'
    BY RouterSteps
  <1>3. RouterInv => ReachedWhereItAnswers
    BY DEF RouterInv, OnItsWay, ReachedWhereItAnswers, Router!ReachedWhereItAnswers
  <1> QED  BY <1>1, <1>2, <1>3, PTL DEF DesktopSpec

--------------------------------------------------------------------------------
(* The series of a device.  The panel that stands asks past the newest sample it *)
(* holds, and seeds only a page that holds none: what any other panel reads      *)
(* either adds nothing or is the tail that SeriesIsWhole excepts.                *)

Asks == [stage : {"seeding", "resting", "asking", "reading", "over"},
         since : 0 .. MaxSamples, asked : 0 .. MaxSamples, upTo : 0 .. MaxSamples]

SeriesType ==
    /\ recorded \in 0 .. MaxSamples /\ last \in 0 .. MaxSamples
    /\ series \in [Series!Samples -> 0 .. 2]
    /\ opened \in Nat /\ showing \in BOOLEAN /\ torn \in BOOLEAN
    /\ tail \in [Series!Effects -> Asks]

Whole == \A x \in Series!Samples : series[x] = IF x <= last THEN 1 ELSE 0

StandingAsks(e) ==
    ~Series!Disposed(e) =>
        /\ (tail[e].stage = "seeding" => Series!Empty)
        /\ (tail[e].stage \in {"asking", "reading"} => tail[e].since = last)

SeriesInv ==
    SeriesType /\ (torn \/ (Whole /\ \A e \in Series!Effects : StandingAsks(e)))

LEMMA SeriesBounds == MaxSamples \in Nat /\ MaxMounts \in Nat
  BY InstancesSuit DEF Series!SeriesAssumption

LEMMA RestIsAnAsk ==
    /\ Series!Resting \in Asks /\ Series!Over \in Asks
    /\ Series!Resting.stage = "resting" /\ Series!Over.stage = "over"
  BY SeriesBounds DEF Asks, Series!Resting, Series!Over

LEMMA AsksAre ==
    ASSUME SeriesType, NEW asks \in {"seeding", "asking"}, NEW past \in 0 .. MaxSamples
    PROVE  Series!Ask(asks, past) \in Asks
  BY SeriesBounds DEF SeriesType, Asks, Series!Ask

LEMMA SeriesStarts == DesktopInit => SeriesInv
  <1> SUFFICES ASSUME DesktopInit PROVE SeriesInv
    OBVIOUS
  <1>1. /\ recorded = 0 /\ series = [x \in Series!Samples |-> 0] /\ last = 0
        /\ opened = 0 /\ showing = FALSE /\ torn = FALSE
        /\ tail = [e \in Series!Effects |-> Series!Over]
    BY DEF DesktopInit, Series!Init
  <1>2. SeriesType
    <2>1. series \in [Series!Samples -> 0 .. 2]
      BY <1>1
    <2>2. tail \in [Series!Effects -> Asks]
      BY <1>1, RestIsAnAsk
    <2>3. recorded \in 0 .. MaxSamples /\ last \in 0 .. MaxSamples
      BY <1>1, SeriesBounds
    <2> QED  BY <1>1, <2>1, <2>2, <2>3 DEF SeriesType
  <1>3. Whole
    BY <1>1, SeriesBounds DEF Whole, Series!Samples
  <1>4. \A e \in Series!Effects : StandingAsks(e)
    BY <1>1 DEF StandingAsks, Series!Disposed
  <1> QED  BY <1>2, <1>3, <1>4 DEF SeriesInv

(* A page that holds the samples up to its newest, and holds none, has none.     *)
LEMMA EmptyIsNew == ASSUME SeriesType, Whole, Series!Empty PROVE last = 0
  BY SeriesBounds DEF SeriesType, Whole, Series!Empty, Series!Samples

LEMMA Recorded == ASSUME SeriesInv, Series!Record PROVE SeriesInv'
  BY SeriesBounds DEF SeriesInv, SeriesType, Whole, StandingAsks, Series!Record, Series!Disposed,
     Series!Empty

LEMMA PanelOpens == ASSUME SeriesInv, Series!Mount PROVE SeriesInv'
  <1> DEFINE e == opened + 1
             r == IF Series!Empty THEN Series!Ask("seeding", 0) ELSE Series!Resting
  <1>1. /\ ~showing /\ showing' = TRUE /\ opened' = e /\ opened < MaxMounts
        /\ tail' = [tail EXCEPT ![e] = r] /\ UNCHANGED <<recorded, series, last, torn>>
    BY DEF Series!Mount
  <1>2. SeriesType /\ e \in Series!Effects /\ r \in Asks
    <2>1. 0 \in 0 .. MaxSamples /\ "seeding" \in {"seeding", "asking"}
      BY SeriesBounds
    <2> QED  BY <1>1, <2>1, SeriesBounds, AsksAre, RestIsAnAsk DEF SeriesInv, SeriesType, Series!Effects
  <1>3. r.stage \in {"seeding", "resting"} /\ (r.stage = "seeding" => Series!Empty)
    BY DEF Series!Ask, Series!Resting
  <1> HIDE DEF r
  <1>4. SeriesType'
    BY <1>1, <1>2 DEF SeriesType
  <1>5. ASSUME NEW f \in Series!Effects PROVE StandingAsks(f)'
    <2>1. CASE f = e
      <3>1. tail'[f] = r /\ Series!Empty' = Series!Empty
        BY <1>1, <1>2, <2>1 DEF SeriesType, Series!Empty
      <3> QED  BY <1>3, <3>1 DEF StandingAsks
    <2>2. CASE f # e
      BY <1>1, <2>2 DEF StandingAsks, Series!Disposed
    <2> QED  BY <2>1, <2>2
  <1> QED  BY <1>1, <1>4, <1>5 DEF SeriesInv, Whole

(* An effect's request is replaced by one that is nothing to the series.         *)
LEMMA EffectMoves ==
    ASSUME SeriesInv, NEW e \in Series!Effects, NEW r \in Asks, tail' = [tail EXCEPT ![e] = r],
           UNCHANGED <<recorded, series, last, opened, showing, torn>>,
           Series!Disposed(e) \/ r.stage \in {"resting", "over"}
             \/ (r.stage \in {"asking", "reading"} /\ (torn \/ r.since = last))
    PROVE  SeriesInv'
  <1>1. SeriesType'
    BY DEF SeriesInv, SeriesType
  <1>2. ASSUME ~torn, NEW f \in Series!Effects PROVE StandingAsks(f)'
    <2>1. CASE f = e
      BY <1>2, <2>1 DEF SeriesInv, SeriesType, StandingAsks, Series!Disposed
    <2>2. CASE f # e
      BY <1>2, <2>2 DEF SeriesInv, SeriesType, StandingAsks, Series!Disposed, Series!Empty
    <2> QED  BY <2>1, <2>2
  <1> QED  BY <1>1, <1>2 DEF SeriesInv, Whole

LEMMA PanelCloses == ASSUME SeriesInv, Series!Unmount PROVE SeriesInv'
  <1>1. /\ showing' = FALSE /\ UNCHANGED <<recorded, series, last, opened, torn>>
        /\ tail' = [tail EXCEPT ![opened] = IF tail[opened].stage = "resting" THEN Series!Over
                                            ELSE tail[opened]]
    BY DEF Series!Unmount
  <1>2. SeriesType'
    <2>1. Series!Over \in Asks
      BY RestIsAnAsk
    <2> QED  BY <1>1, <2>1 DEF SeriesInv, SeriesType
  <1> QED  BY <1>1, <1>2 DEF SeriesInv, Whole, StandingAsks, Series!Disposed

LEMMA RestedAre ==
    ASSUME SeriesType, NEW e \in Series!Effects, Series!Rested(e)
    PROVE  \E r \in Asks : tail' = [tail EXCEPT ![e] = r] /\ r.stage \in {"resting", "over"}
  BY RestIsAnAsk DEF Series!Rested

LEMMA TailMoves ==
    ASSUME SeriesInv, NEW e \in Series!Effects,
           Series!TailAsks(e) \/ Series!TailAnswered(e) \/ Series!TailFails(e)
    PROVE  SeriesInv'
  <1> USE DEF SeriesInv
  <1>1. CASE Series!TailAsks(e)
    <2>1. /\ tail' = [tail EXCEPT ![e] = Series!Ask("asking", last)]
          /\ UNCHANGED <<recorded, series, last, opened, showing, torn>>
      BY <1>1 DEF Series!TailAsks
    <2>2. /\ Series!Ask("asking", last) \in Asks
          /\ Series!Ask("asking", last).stage = "asking" /\ Series!Ask("asking", last).since = last
      BY AsksAre DEF SeriesType, Series!Ask
    <2> QED  BY <2>1, <2>2, EffectMoves
  <1>2. ASSUME Series!Rested(e), UNCHANGED <<recorded, series, last, opened, showing, torn>>
        PROVE  SeriesInv'
    BY <1>2, RestedAre, EffectMoves
  <1>3. CASE Series!TailFails(e)
    BY <1>2, <1>3 DEF Series!TailFails
  <1>4. CASE Series!TailAnswered(e) /\ Series!Disposed(e)
    BY <1>2, <1>4 DEF Series!TailAnswered
  <1>5. CASE Series!TailAnswered(e) /\ ~Series!Disposed(e)
    <2>1. /\ UNCHANGED <<recorded, series, last, opened, showing, torn>>
          /\ tail[e].stage = "asking" /\ tail[e] \in Asks /\ recorded \in 0 .. MaxSamples
          /\ \E n \in tail[e].asked .. recorded :
               tail' = [tail EXCEPT ![e].stage = "reading", ![e].upTo = n]
      BY <1>5 DEF Series!TailAnswered, SeriesType
    <2>2. PICK n \in tail[e].asked .. recorded :
             tail' = [tail EXCEPT ![e].stage = "reading", ![e].upTo = n]
      BY <2>1
    <2> DEFINE r == [tail[e] EXCEPT !.stage = "reading", !.upTo = n]
    <2>3. n \in 0 .. MaxSamples
      BY <2>1, SeriesBounds DEF Asks
    <2>4. r \in Asks /\ r.stage = "reading" /\ r.since = tail[e].since
      BY <2>1, <2>3 DEF Asks
    <2>5. tail' = [tail EXCEPT ![e] = r]
      BY <2>2 DEF SeriesType
    <2>6. torn \/ r.since = last
      BY <1>5, <2>1, <2>4 DEF StandingAsks
    <2> HIDE DEF r
    <2> QED  BY <2>1, <2>4, <2>5, <2>6, EffectMoves
  <1> QED  BY <1>1, <1>3, <1>4, <1>5

LEMMA SeedIsWhole ==
    ASSUME SeriesInv, NEW e \in Series!Effects, Series!SeedLands(e)
    PROVE  SeriesInv'
  <1> USE DEF SeriesInv
  <1>1. PICK r \in Asks : tail' = [tail EXCEPT ![e] = r] /\ r.stage \in {"resting", "over"}
    BY RestedAre DEF Series!SeedLands
  <1>2. UNCHANGED <<recorded, opened, showing, torn>> /\ tail[e].stage = "seeding"
    BY DEF Series!SeedLands
  <1>3. CASE UNCHANGED <<series, last>>
    BY <1>1, <1>2, <1>3, EffectMoves
  <1>4. CASE ~Series!Disposed(e)
    <2>1. PICK newest \in (tail[e].asked .. recorded) \cup {0} :
             /\ series' = IF newest = 0 THEN series
                          ELSE [x \in Series!Samples |-> IF x <= newest THEN 1 ELSE 0]
             /\ last' = Series!MarkedTo(newest)
      BY <1>4 DEF Series!SeedLands
    <2>2. newest \in 0 .. MaxSamples
      BY SeriesBounds DEF SeriesType, Asks
    <2>3. last' \in 0 .. MaxSamples
      BY <2>1, <2>2, SeriesBounds DEF SeriesType, Series!MarkedTo, Series!Larger
    <2>4. series' \in [Series!Samples -> 0 .. 2]
      BY <2>1 DEF SeriesType
    <2>5. SeriesType'
      BY <1>1, <1>2, <2>3, <2>4 DEF SeriesType
    <2>6. ASSUME ~torn PROVE Whole'
      <3>1. last = 0
        BY <1>2, <1>4, <2>6, EmptyIsNew DEF StandingAsks
      <3>2. last' = newest
        BY <2>1, <2>2, <3>1, SeriesBounds DEF Series!MarkedTo, Series!Larger
      <3> QED  BY <2>1, <2>2, <2>6, <3>1, <3>2 DEF Whole
    <2>7. ASSUME NEW f \in Series!Effects PROVE StandingAsks(f)'
      <3>1. f # e => Series!Disposed(f)'
        BY <1>2, <1>4 DEF Series!Disposed
      <3>2. tail'[e].stage \in {"resting", "over"}
        BY <1>1 DEF SeriesType
      <3> QED  BY <3>1, <3>2 DEF StandingAsks
    <2> QED  BY <1>2, <2>5, <2>6, <2>7
  <1> QED  BY <1>3, <1>4 DEF Series!SeedLands

LEMMA TailIsWhole ==
    ASSUME SeriesInv, NEW e \in Series!Effects, Series!TailLands(e)
    PROVE  SeriesInv'
  <1> USE DEF SeriesInv
  <1> DEFINE fresh == (tail[e].since + 1) .. tail[e].upTo
  <1>1. PICK r \in Asks : tail' = [tail EXCEPT ![e] = r] /\ r.stage \in {"resting", "over"}
    BY RestedAre DEF Series!TailLands
  <1>2. /\ UNCHANGED <<recorded, opened, showing>> /\ tail[e].stage = "reading"
        /\ series' = [x \in Series!Samples |->
                        IF x \in fresh /\ series[x] < 2 THEN series[x] + 1 ELSE series[x]]
        /\ last' = IF fresh = {} THEN last ELSE Series!Larger(last, tail[e].upTo)
        /\ torn' <=> (torn \/ (Series!Disposed(e) /\ fresh # {}))
        /\ torn' \in BOOLEAN
    BY DEF Series!TailLands, SeriesType
  <1>3. tail[e].since \in 0 .. MaxSamples /\ tail[e].upTo \in 0 .. MaxSamples
    BY DEF SeriesType, Asks
  <1>4. last' \in 0 .. MaxSamples
    BY <1>2, <1>3, SeriesBounds DEF SeriesType, Series!Larger
  <1>5. series' \in [Series!Samples -> 0 .. 2]
    <2>1. ASSUME NEW x \in Series!Samples
          PROVE  (IF x \in fresh /\ series[x] < 2 THEN series[x] + 1 ELSE series[x]) \in 0 .. 2
      <3>1. series[x] \in 0 .. 2
        BY DEF SeriesType
      <3> QED  BY <3>1
    <2> HIDE DEF fresh
    <2> QED  BY <1>2, <2>1
  <1>6. SeriesType'
    BY <1>1, <1>2, <1>4, <1>5 DEF SeriesType
  <1>7. CASE fresh = {}
    <2>1. series' = series /\ last' = last /\ torn' = torn
      <3>1. last' = last /\ torn' = torn
        BY <1>2, <1>7 DEF SeriesType
      <3>2. series' = [x \in Series!Samples |-> series[x]]
        BY <1>2, <1>7
      <3> QED  BY <3>1, <3>2 DEF SeriesType
    <2> QED  BY <1>1, <1>2, <2>1, EffectMoves
  <1>8. CASE fresh # {} /\ ~torn'
    <2>1. ~Series!Disposed(e) /\ ~torn /\ tail[e].since = last /\ Whole
      BY <1>2, <1>8 DEF StandingAsks
    <2>2. last < tail[e].upTo
      BY <1>3, <1>8, <2>1, SeriesBounds
    <2>3. last' = tail[e].upTo
      BY <1>2, <1>3, <1>8, <2>2 DEF Series!Larger
    <2>4. Whole'
      <3>1. ASSUME NEW x \in Series!Samples PROVE series'[x] = IF x <= last' THEN 1 ELSE 0
        <4>1. x \in Int /\ last \in Int /\ tail[e].upTo \in Int
          BY <1>3, SeriesBounds DEF Series!Samples, SeriesType
        <4>2. series[x] = IF x <= last THEN 1 ELSE 0
          BY <2>1 DEF Whole
        <4>3. series'[x] = IF x \in fresh /\ series[x] < 2 THEN series[x] + 1 ELSE series[x]
          BY <1>2
        <4>4. x \in fresh <=> (last < x /\ x <= tail[e].upTo)
          BY <2>1, <4>1
        <4> QED  BY <2>2, <2>3, <4>1, <4>2, <4>3, <4>4
      <3> QED  BY <3>1 DEF Whole
    <2>5. ASSUME NEW f \in Series!Effects PROVE StandingAsks(f)'
      <3>1. f # e => Series!Disposed(f)'
        BY <1>2, <2>1 DEF Series!Disposed
      <3>2. tail'[e].stage \in {"resting", "over"}
        BY <1>1 DEF SeriesType
      <3> QED  BY <3>1, <3>2 DEF StandingAsks
    <2> QED  BY <1>6, <2>4, <2>5
  <1> QED  BY <1>6, <1>7, <1>8

LEMMA SeriesSteps == ASSUME SeriesInv, [DesktopNext]_desktopVars PROVE SeriesInv'
  <1>1. CASE Series!Next
    BY <1>1, Recorded, PanelOpens, PanelCloses, SeedIsWhole, TailMoves, TailIsWhole DEF Series!Next
  <1>2. CASE UNCHANGED seriesVars
    BY <1>2 DEF seriesVars, SeriesInv, SeriesType, Whole, StandingAsks, Series!Disposed, Series!Empty
  <1> QED  BY <1>1, <1>2 DEF DesktopNext, OfficeNext, PageNext, DashboardNext, desktopVars, pageVars

(* Whatever was out when the panel closed and opened again, the page holds every *)
(* sample up to its newest, and once, but for a tail that a panel read to its    *)
(* end after it had closed (fetchPersistedClientHistory, appendClientSamples).   *)
THEOREM EverySampleOnce == DesktopSpec => []SeriesIsWhole
  <1>1. DesktopInit => SeriesInv
    BY SeriesStarts
  <1>2. SeriesInv /\ [DesktopNext]_desktopVars => SeriesInv'
    BY SeriesSteps
  <1>3. SeriesInv => SeriesIsWhole
    BY DEF SeriesInv, Whole, SeriesIsWhole, Series!SeriesIsWhole
  <1> QED  BY <1>1, <1>2, <1>3, PTL DEF DesktopSpec

--------------------------------------------------------------------------------
(* The speed test.  Every run that has begun and is not the open panel's is      *)
(* cancelled, and a cancelled run asks for nothing.                              *)

Phases == {"none", "download", "hold", "rest", "upload", "held", "resting", "done", "error",
           "cancelled"}

SpeedType ==
    /\ panel \in {"open", "closed"} /\ current \in Speed!Runs \cup {0}
    /\ aborted \in SUBSET Speed!Runs
    /\ phase \in [Speed!Runs -> Phases] /\ asking \in [Speed!Runs -> SUBSET Streams]

RunInItsPlace(r) ==
    /\ asking[r] # {} => phase[r] \in Speed!Measuring /\ r \notin aborted
    /\ r \in aborted => phase[r] \in (Speed!Measuring \cup Speed!Ended) \ {"none"}
    /\ (phase[r] # "none" /\ r \notin aborted) => panel = "open" /\ current = r

PanelShowsItsRun ==
    /\ current # 0 => phase[current] # "none"
    /\ panel = "open" => current \notin aborted
    /\ panel = "open" => readout = IF current = 0 THEN "idle" ELSE Speed!Told(phase[current])

SpeedInv ==
    SpeedType /\ PanelShowsItsRun /\ \A r \in Speed!Runs : RunInItsPlace(r)

LEMMA NoRunIsNumberedNought == 0 \notin Speed!Runs
  BY InstancesSuit DEF Speed!SpeedAssumption, Speed!Runs

LEMMA SpeedStarts == DesktopInit => SpeedInv
  <1> SUFFICES ASSUME DesktopInit PROVE SpeedInv
    OBVIOUS
  <1>1. /\ panel = "closed" /\ current = 0 /\ readout = "idle" /\ aborted = {}
        /\ phase = [r \in Speed!Runs |-> "none"] /\ asking = [r \in Speed!Runs |-> {}]
    BY DEF DesktopInit, Speed!Init
  <1>2. SpeedType
    BY <1>1 DEF SpeedType, Phases
  <1>3. PanelShowsItsRun /\ \A r \in Speed!Runs : RunInItsPlace(r)
    BY <1>1 DEF PanelShowsItsRun, RunInItsPlace
  <1> QED  BY <1>2, <1>3 DEF SpeedInv

(* A run goes on by itself: its streams only fall silent, or it is not cancelled *)
(* and begins to measure, and the panel is told unless it is cancelled.          *)
LEMMA RunMovesOn ==
    ASSUME SpeedInv, NEW r \in Speed!Runs, NEW p \in Phases \ {"none"}, NEW ss \in SUBSET Streams,
           UNCHANGED <<panel, current, aborted>>, phase[r] # "none",
           phase' = [phase EXCEPT ![r] = p], asking' = [asking EXCEPT ![r] = ss],
           readout' = IF r \in aborted THEN readout ELSE Speed!Told(p),
           ss # {} => p \in Speed!Measuring /\ r \notin aborted,
           r \in aborted => p \in Speed!Measuring \cup Speed!Ended
    PROVE  SpeedInv'
  <1>1. SpeedType'
    BY DEF SpeedInv, SpeedType
  <1>2. ASSUME NEW q \in Speed!Runs PROVE RunInItsPlace(q)'
    BY DEF SpeedInv, SpeedType, RunInItsPlace
  <1>3. PanelShowsItsRun'
    <2>1. CASE r \in aborted
      BY <2>1 DEF SpeedInv, SpeedType, PanelShowsItsRun
    <2>2. CASE r \notin aborted
      BY <2>2, NoRunIsNumberedNought DEF SpeedInv, SpeedType, PanelShowsItsRun, RunInItsPlace
    <2> QED  BY <2>1, <2>2
  <1> QED  BY <1>1, <1>2, <1>3 DEF SpeedInv

LEMMA StreamsFallSilent ==
    ASSUME SpeedInv, NEW r \in Speed!Runs, NEW ss, NEW gone, NEW cut,
           Speed!RequestsEnd(r, ss, gone, cut),
           UNCHANGED <<panel, current, readout, phase, aborted>>
    PROVE  SpeedInv'
  <1>1. asking' \in [Speed!Runs -> SUBSET Streams] /\ \A q \in Speed!Runs : asking'[q] \subseteq asking[q]
    BY DEF Speed!RequestsEnd, SpeedInv, SpeedType
  <1> QED  BY <1>1 DEF SpeedInv, SpeedType, PanelShowsItsRun, RunInItsPlace

LEMMA RunProceeds ==
    ASSUME SpeedInv, NEW r \in Speed!Runs,
           Speed!Proceeds(r) \/ \E s \in Streams : Speed!Move(r, s) \/ Speed!RequestEnds(r, s)
    PROVE  SpeedInv'
  <1> USE DEF SpeedInv
  <1>1. CASE Speed!ClockRunsOut(r) \/ \E s \in Streams : Speed!Move(r, s)
    <2>1. UNCHANGED <<panel, current, readout, phase, aborted, asking>>
      BY <1>1 DEF Speed!ClockRunsOut, Speed!Move, Speed!transfer
    <2> QED  BY <2>1 DEF SpeedType, PanelShowsItsRun, RunInItsPlace
  <1>2. CASE Speed!StopWatcher(r) \/ \E s \in Streams : Speed!RequestEnds(r, s)
    BY <1>2, StreamsFallSilent DEF Speed!StopWatcher, Speed!RequestEnds
  <1>3. CASE Speed!PhaseEnds(r)
    <2> DEFINE next == IF r \in aborted THEN "cancelled"
                       ELSE IF counted[r] = 0 THEN "error" ELSE Speed!After(phase[r])
    <2>1. /\ phase[r] \in Speed!Measuring /\ asking[r] = {} /\ asking' = asking
          /\ UNCHANGED <<panel, current, aborted>>
          /\ phase' = [phase EXCEPT ![r] = next]
          /\ readout' = IF r \in aborted THEN readout ELSE Speed!Told(next)
      BY <1>3 DEF Speed!PhaseEnds, Speed!Report, Speed!transfer
    <2>2. next \in Phases \ {"none"} /\ (r \in aborted => next = "cancelled") /\ phase[r] # "none"
      BY <2>1 DEF Speed!Measuring, Speed!After, Phases
    <2>3. asking' = [asking EXCEPT ![r] = {}]
      BY <2>1 DEF SpeedType
    <2> HIDE DEF next
    <2> QED  BY <2>1, <2>2, <2>3, RunMovesOn DEF Speed!Ended
  <1>4. CASE Speed!DelayEnds(r)
    <2> DEFINE next == Speed!After(phase[r])
               ss == IF next \in Speed!Measuring THEN Streams ELSE {}
    <2>1. /\ phase[r] \in {"hold", "rest", "held", "resting"}
          /\ UNCHANGED <<panel, current, aborted>>
          /\ phase' = [phase EXCEPT ![r] = next]
          /\ readout' = IF r \in aborted THEN readout ELSE Speed!Told(next)
          /\ asking' = IF next \in Speed!Measuring THEN [asking EXCEPT ![r] = Streams] ELSE asking
      BY <1>4 DEF Speed!DelayEnds, Speed!Report, Speed!transfer
    <2>2. next \in Phases \ {"none"} /\ phase[r] # "none"
      BY <2>1 DEF Speed!After, Phases
    <2>3. r \notin aborted /\ asking[r] = {}
      BY <2>1 DEF RunInItsPlace, Speed!Measuring, Speed!Ended
    <2> HIDE DEF next
    <2>4. asking' = [asking EXCEPT ![r] = ss]
      BY <2>1, <2>3 DEF SpeedType
    <2> QED  BY <2>1, <2>2, <2>3, <2>4, RunMovesOn
  <1> QED  BY <1>1, <1>2, <1>3, <1>4 DEF Speed!Proceeds

LEMMA PanelTurns ==
    ASSUME SpeedInv, Speed!OpenPanel \/ Speed!ClosePanel
    PROVE  SpeedInv'
  <1> USE DEF SpeedInv
  <1>1. CASE Speed!OpenPanel
    BY <1>1, NoRunIsNumberedNought
       DEF Speed!OpenPanel, Speed!transfer, SpeedType, PanelShowsItsRun, RunInItsPlace
  <1>2. CASE Speed!ClosePanel /\ current = 0
    BY <1>2, NoRunIsNumberedNought
       DEF Speed!ClosePanel, Speed!transfer, SpeedType, PanelShowsItsRun, RunInItsPlace
  <1>3. CASE Speed!ClosePanel /\ current # 0
    <2> DEFINE c == current
               p == Speed!PhaseOnceCancelled(c)
    <2>1. /\ panel' = "closed" /\ current' = c /\ aborted' = aborted \cup {c}
          /\ phase' = [phase EXCEPT ![c] = p] /\ c \in Speed!Runs
          /\ Speed!RequestsEnd(c, asking[c], aborted \cup {c}, TRUE)
      BY <1>3 DEF Speed!ClosePanel, Speed!Cancelled, SpeedType
    <2>2. asking' = [asking EXCEPT ![c] = {}]
      <3>1. ~Speed!GoesOn(c, aborted \cup {c}, TRUE)
        BY DEF Speed!GoesOn, Speed!ShouldStop
      <3>2. asking' = [asking EXCEPT ![c] = asking[c] \ asking[c]]
        BY <2>1, <3>1 DEF Speed!RequestsEnd
      <3> QED  BY <3>2
    <2>3. p \in Phases /\ p \in (Speed!Measuring \cup Speed!Ended) \ {"none"}
      BY <1>3, <2>1 DEF Speed!PhaseOnceCancelled, PanelShowsItsRun, Phases, Speed!Measuring,
         Speed!Ended
    <2> HIDE DEF p
    <2>4. SpeedType'
      BY <2>1, <2>2, <2>3 DEF SpeedType
    <2>5. ASSUME NEW q \in Speed!Runs PROVE RunInItsPlace(q)'
      BY <2>1, <2>2, <2>3 DEF SpeedType, RunInItsPlace
    <2>6. PanelShowsItsRun'
      BY <2>1, <2>3 DEF SpeedType, PanelShowsItsRun
    <2> QED  BY <2>4, <2>5, <2>6
  <1> QED  BY <1>1, <1>2, <1>3

LEMMA RunIsStarted == ASSUME SpeedInv, Speed!Press PROVE SpeedInv'
  <1> USE DEF SpeedInv
  <1>1. PICK r \in Speed!Runs :
           /\ phase[r] = "none" /\ current' = r /\ readout' = "download"
           /\ phase' = [phase EXCEPT ![r] = "download"]
           /\ asking' = [asking EXCEPT ![r] = Streams]
    BY DEF Speed!Press
  <1>2. /\ panel = "open" /\ panel' = panel /\ readout \in {"idle", "done", "error"}
        /\ aborted' = aborted \cup ({current} \ {0})
    BY DEF Speed!Press
  <1>3. current # 0 => current # r /\ phase[current] \in {"done", "error", "none"} \cup {"idle"}
    BY <1>1, <1>2 DEF PanelShowsItsRun, SpeedType, Phases, Speed!Told
  <1>4. current # 0 => current # r /\ phase[current] \in {"done", "error"}
    BY <1>3 DEF PanelShowsItsRun, SpeedType, Phases
  <1>5. SpeedType'
    BY <1>1, <1>2 DEF SpeedType, Phases
  <1>6. r \notin aborted'
    BY <1>1, <1>2, <1>4 DEF RunInItsPlace
  <1>7. ASSUME NEW q \in Speed!Runs PROVE RunInItsPlace(q)'
    <2>1. CASE q = r
      BY <1>1, <1>2, <1>6, <2>1 DEF SpeedType, RunInItsPlace, Speed!Measuring
    <2>2. CASE q # r
      <3>1. phase'[q] = phase[q] /\ asking'[q] = asking[q]
        BY <1>1, <2>2 DEF SpeedType
      <3>2. q \in aborted' \/ phase[q] = "none"
        BY <1>2 , NoRunIsNumberedNought DEF RunInItsPlace
      <3>3. q \in aborted' => q \in aborted \/ (phase[q] \in {"done", "error"})
        BY <1>2, <1>4
      <3>4. asking[q] # {} => q \notin aborted'
        BY <3>3 DEF RunInItsPlace, Speed!Measuring
      <3> QED  BY <3>1, <3>2, <3>3, <3>4 DEF RunInItsPlace, Speed!Ended
    <2> QED  BY <2>1, <2>2
  <1>8. PanelShowsItsRun'
    BY <1>1, <1>2, <1>6, NoRunIsNumberedNought DEF SpeedType, PanelShowsItsRun, Speed!Told
  <1> QED  BY <1>5, <1>7, <1>8

LEMMA SpeedSteps == ASSUME SpeedInv, [DesktopNext]_desktopVars PROVE SpeedInv'
  <1>1. CASE Speed!Next
    BY <1>1, PanelTurns, RunIsStarted, RunProceeds DEF Speed!Next
  <1>2. CASE UNCHANGED speedVars
    BY <1>2 DEF speedVars, SpeedInv, SpeedType, PanelShowsItsRun, RunInItsPlace
  <1> QED  BY <1>1, <1>2 DEF DesktopNext, OfficeNext, PageNext, DashboardNext, desktopVars,
             dashboardVars

(* However many runs a panel starts and however it closes, only the run of the   *)
(* panel that is open loads the link, and that run is the one it shows           *)
(* (runSpeedTest, SpeedTestPanel).                                               *)
THEOREM LinkIsLeftAlone == DesktopSpec => []Speed!NothingOutlivesItsPanel
  <1>1. DesktopInit => SpeedInv
    BY SpeedStarts
  <1>2. SpeedInv /\ [DesktopNext]_desktopVars => SpeedInv'
    BY SpeedSteps
  <1>3. SpeedInv => Speed!NothingOutlivesItsPanel
    BY DEF SpeedInv, SpeedType, PanelShowsItsRun, RunInItsPlace, Speed!NothingOutlivesItsPanel,
       Speed!Loading, Speed!Measuring
  <1> QED  BY <1>1, <1>2, <1>3, PTL DEF DesktopSpec

--------------------------------------------------------------------------------
(* The bytes of a run.  What is in flight is that of the streams with a request  *)
(* under way, and the phase's two counts and its traffic agree whether it still  *)
(* measures or not.                                                              *)

BytesType ==
    /\ inFlight \in [Speed!Runs -> [Streams -> Nat]]
    /\ counted \in [Speed!Runs -> Nat] /\ moved \in [Speed!Runs -> Nat]

OnlyAskedIsInFlight(r) == \A s \in Streams \ asking[r] : inFlight[r][s] = 0

Balanced(r) == counted[r] + SumFunctionOnSet(inFlight[r], Streams) = moved[r]

BytesInv == BytesType /\ \A r \in Speed!Runs : OnlyAskedIsInFlight(r) /\ Balanced(r)

LEMMA StreamsAreFinite == IsFiniteSet(Streams)
  BY InstancesSuit DEF Speed!SpeedAssumption, IsFiniteSet, Speed!IsFiniteSet

LEMMA SpeedSums ==
    ASSUME NEW f
    PROVE  /\ \A I : Speed!SumFunctionOnSet(f, I) = SumFunctionOnSet(f, I)
           /\ Speed!SumFunction(f) = SumFunctionOnSet(f, DOMAIN f)
  BY DEF Speed!SumFunction, Speed!SumFunctionOnSet, Speed!FoldFunctionOnSet, Speed!MapThenFoldSet,
         SumFunctionOnSet, FoldFunctionOnSet, MapThenFoldSet

(* Nothing in flight adds up to nothing.                                         *)
LEMMA NothingInFlight ==
    ASSUME NEW f, \A s \in Streams : f[s] = 0
    PROVE  SumFunctionOnSet(f, Streams) = 0
  <1>1. \A s \in Streams : f[s] \in Int
    OBVIOUS
  <1> QED  BY <1>1, StreamsAreFinite, SumsCompare

LEMMA BytesStart == DesktopInit => BytesInv
  <1> SUFFICES ASSUME DesktopInit PROVE BytesInv
    OBVIOUS
  <1>1. /\ inFlight = [r \in Speed!Runs |-> Speed!Nothing]
        /\ counted = [r \in Speed!Runs |-> 0] /\ moved = [r \in Speed!Runs |-> 0]
    BY DEF DesktopInit, Speed!Init
  <1>2. \A s \in Streams : Speed!Nothing[s] = 0
    BY DEF Speed!Nothing
  <1>3. SumFunctionOnSet(Speed!Nothing, Streams) = 0
    BY <1>2, NothingInFlight
  <1>4. BytesType
    BY <1>1 DEF BytesType, Speed!Nothing
  <1>5. ASSUME NEW r \in Speed!Runs PROVE OnlyAskedIsInFlight(r) /\ Balanced(r)
    BY <1>1, <1>2, <1>3 DEF OnlyAskedIsInFlight, Balanced
  <1> QED  BY <1>4, <1>5 DEF BytesInv

(* A byte moves: it is counted at once, or is in flight.                         *)
LEMMA ByteMoves ==
    ASSUME BytesInv, NEW r \in Speed!Runs, NEW s \in Streams, Speed!Move(r, s)
    PROVE  BytesInv'
  <1> USE DEF BytesInv, BytesType
  <1>1. s \in asking[r] /\ asking' = asking /\ moved' = [moved EXCEPT ![r] = @ + 1]
    BY DEF Speed!Move
  <1>2. CASE counted' = [counted EXCEPT ![r] = @ + 1] /\ inFlight' = inFlight
    <2>1. SumFunctionOnSet(inFlight[r], Streams) \in Int
      BY StreamsAreFinite, SumIsInt
    <2>2. ASSUME NEW q \in Speed!Runs PROVE OnlyAskedIsInFlight(q)' /\ Balanced(q)'
      <3>1. CASE q = r
        <4>1. counted'[q] = counted[q] + 1 /\ moved'[q] = moved[q] + 1
          BY <1>1, <1>2, <3>1
        <4> QED  BY <1>1, <1>2, <2>1, <3>1, <4>1 DEF OnlyAskedIsInFlight, Balanced
      <3>2. CASE q # r
        BY <1>1, <1>2, <3>2 DEF OnlyAskedIsInFlight, Balanced
      <3> QED  BY <3>1, <3>2
    <2>3. BytesType'
      BY <1>1, <1>2
    <2> QED  BY <2>2, <2>3
  <1>3. CASE inFlight' = [inFlight EXCEPT ![r][s] = @ + 1] /\ counted' = counted
    <2> DEFINE f == inFlight[r]
               g == inFlight'[r]
    <2>1. g[s] = f[s] + 1 /\ \A t \in Streams \ {s} : f[t] = g[t]
      BY <1>3
    <2>2. \A t \in Streams : f[t] \in Int /\ g[t] \in Int
      BY <1>3
    <2>3. SumFunctionOnSet(g, Streams) - SumFunctionOnSet(f, Streams) = g[s] - f[s]
      <3> HIDE DEF f, g
      <3> QED  BY <2>1, <2>2, StreamsAreFinite, SumChanges
    <2>4. SumFunctionOnSet(f, Streams) \in Int /\ SumFunctionOnSet(g, Streams) \in Int /\ f[s] \in Int
      <3> HIDE DEF f, g
      <3> QED  BY <2>2, StreamsAreFinite, SumIsInt
    <2>5. BytesType'
      BY <1>1, <1>3
    <2>6. ASSUME NEW q \in Speed!Runs PROVE OnlyAskedIsInFlight(q)' /\ Balanced(q)'
      <3>1. CASE q = r
        <4>1. moved'[r] = moved[r] + 1 /\ moved[r] \in Nat /\ counted[r] \in Nat /\ counted' = counted
          BY <1>1, <1>3
        <4>2. counted[r] + SumFunctionOnSet(f, Streams) = moved[r]
          BY DEF Balanced
        <4>3. counted'[r] + SumFunctionOnSet(g, Streams) = moved'[r]
          <5> HIDE DEF f, g
          <5> QED  BY <2>1, <2>3, <2>4, <4>1, <4>2
        <4>4. \A t \in Streams \ asking[r] : g[t] = 0
          BY <1>1, <2>1 DEF OnlyAskedIsInFlight
        <4> QED  BY <1>1, <3>1, <4>3, <4>4 DEF OnlyAskedIsInFlight, Balanced
      <3>2. CASE q # r
        BY <1>1, <1>3, <3>2 DEF OnlyAskedIsInFlight, Balanced
      <3> QED  BY <3>1, <3>2
    <2> QED  BY <2>5, <2>6
  <1> QED  BY <1>2, <1>3 DEF Speed!Move

(* What was in flight on requests that end is counted, and the stream is clear.  *)
LEMMA ChunksAreRolledOver ==
    ASSUME SpeedInv, BytesInv, NEW r \in Speed!Runs, NEW ss \in SUBSET Streams, NEW gone, NEW cut,
           Speed!RequestsEnd(r, ss, gone, cut), moved' = moved
    PROVE  BytesInv'
  <1> USE DEF BytesInv, BytesType
  <1> DEFINE f == inFlight[r]
             g == inFlight'[r]
  <1>1. /\ counted' = [counted EXCEPT ![r] = @ + SumFunctionOnSet(f, ss)]
        /\ inFlight' = [inFlight EXCEPT ![r] = [s \in Streams |-> IF s \in ss THEN 0 ELSE f[s]]]
    <2>1. Speed!Rolled(r, ss)
      BY DEF Speed!RequestsEnd
    <2> QED  BY <2>1, SpeedSums DEF Speed!Rolled
  <1>2. /\ asking'[r] = asking[r] \/ asking'[r] = asking[r] \ ss
        /\ \A q \in Speed!Runs \ {r} : asking'[q] = asking[q]
    BY DEF Speed!RequestsEnd, SpeedInv, SpeedType
  <1>3. g = [s \in Streams |-> IF s \in ss THEN 0 ELSE f[s]]
    BY <1>1
  <1>4. \A s \in Streams : f[s] \in Nat /\ g[s] \in Nat
    BY <1>3
  <1>5. IsFiniteSet(ss) /\ IsFiniteSet(Streams \ ss)
    BY StreamsAreFinite, FS_Subset
  <1>6. SumFunctionOnSet(f, Streams) = SumFunctionOnSet(f, ss) + SumFunctionOnSet(f, Streams \ ss)
    <2>1. \A s \in Streams : f[s] \in Int
      BY <1>4
    <2> HIDE DEF f
    <2> QED  BY <2>1, StreamsAreFinite, SumSplits
  <1>7. SumFunctionOnSet(g, Streams) = SumFunctionOnSet(g, ss) + SumFunctionOnSet(g, Streams \ ss)
    <2>1. \A s \in Streams : g[s] \in Int
      BY <1>4
    <2> HIDE DEF g
    <2> QED  BY <2>1, StreamsAreFinite, SumSplits
  <1>8. SumFunctionOnSet(g, ss) = 0
    <2>1. \A s \in ss : g[s] = 0 /\ g[s] \in Int
      BY <1>3
    <2> HIDE DEF g
    <2> QED  BY <2>1, <1>5, SumsCompare
  <1>9. SumFunctionOnSet(f, Streams \ ss) = SumFunctionOnSet(g, Streams \ ss)
    <2>1. \A s \in Streams \ ss : f[s] = g[s] /\ f[s] \in Int /\ g[s] \in Int
      BY <1>3, <1>4
    <2> HIDE DEF f, g
    <2> QED  BY <2>1, <1>5, SumsCompare
  <1>10. SumFunctionOnSet(f, ss) \in Nat /\ SumFunctionOnSet(f, Streams \ ss) \in Nat
    <2>1. \A s \in Streams : f[s] \in Nat
      BY <1>4
    <2> HIDE DEF f
    <2> QED  BY <2>1, <1>5, SumIsNat
  <1>11. BytesType'
    <2> HIDE DEF f, g
    <2>1. inFlight' \in [Speed!Runs -> [Streams -> Nat]]
      BY <1>1, <1>4 DEF f
    <2> QED  BY <1>1, <1>10, <2>1
  <1>12. ASSUME NEW q \in Speed!Runs PROVE OnlyAskedIsInFlight(q)' /\ Balanced(q)'
    <2>1. CASE q = r
      <3>1. counted'[r] = counted[r] + SumFunctionOnSet(f, ss) /\ counted[r] \in Nat
        BY <1>1
      <3>2. counted[r] + SumFunctionOnSet(f, Streams) = moved[r]
        BY DEF Balanced
      <3>3. counted'[r] + SumFunctionOnSet(g, Streams) = moved[r]
        <4> HIDE DEF f, g
        <4> QED  BY <1>6, <1>7, <1>8, <1>9, <1>10, <3>1, <3>2
      <3>4. \A t \in Streams \ asking'[r] : g[t] = 0
        <4>1. \A t \in Streams \ asking'[r] : t \in ss \/ f[t] = 0
          BY <1>2 DEF OnlyAskedIsInFlight
        <4> HIDE DEF f
        <4> QED  BY <1>3, <4>1
      <3> QED  BY <2>1, <3>3, <3>4 DEF OnlyAskedIsInFlight, Balanced
    <2>2. CASE q # r
      <3>1. counted'[q] = counted[q] /\ inFlight'[q] = inFlight[q] /\ asking'[q] = asking[q]
        BY <1>1, <1>2, <2>2
      <3> QED  BY <3>1 DEF OnlyAskedIsInFlight, Balanced
    <2> QED  BY <2>1, <2>2
  <1> QED  BY <1>11, <1>12

LEMMA BytesProceed ==
    ASSUME SpeedInv, BytesInv, NEW r \in Speed!Runs,
           Speed!Proceeds(r) \/ \E s \in Streams : Speed!Move(r, s) \/ Speed!RequestEnds(r, s)
    PROVE  BytesInv'
  <1>1. CASE \E s \in Streams : Speed!Move(r, s)
    BY <1>1, ByteMoves
  <1>2. CASE Speed!StopWatcher(r) \/ \E s \in Streams : Speed!RequestEnds(r, s)
    BY <1>2, ChunksAreRolledOver DEF Speed!StopWatcher, Speed!RequestEnds, SpeedInv, SpeedType
  <1>3. CASE Speed!ClockRunsOut(r) \/ Speed!PhaseEnds(r)
    <2>1. UNCHANGED <<asking, inFlight, counted, moved>>
      BY <1>3 DEF Speed!ClockRunsOut, Speed!PhaseEnds, Speed!transfer
    <2> QED  BY <2>1 DEF BytesInv, BytesType, OnlyAskedIsInFlight, Balanced
  <1>4. CASE Speed!DelayEnds(r)
    <2>1. CASE UNCHANGED <<asking, inFlight, counted, moved>>
      BY <2>1 DEF BytesInv, BytesType, OnlyAskedIsInFlight, Balanced
    <2>2. CASE /\ asking' = [asking EXCEPT ![r] = Streams] /\ inFlight' = inFlight
               /\ counted' = [counted EXCEPT ![r] = 0] /\ moved' = [moved EXCEPT ![r] = 0]
      <3>1. asking[r] = {}
        BY <1>4 DEF Speed!DelayEnds, SpeedInv, RunInItsPlace, Speed!Measuring
      <3>2. SumFunctionOnSet(inFlight[r], Streams) = 0
        <4>1. \A s \in Streams : inFlight[r][s] = 0
          BY <3>1 DEF BytesInv, OnlyAskedIsInFlight
        <4> QED  BY <4>1, NothingInFlight
      <3>3. BytesType'
        BY <2>2 DEF BytesInv, BytesType
      <3>4. ASSUME NEW q \in Speed!Runs PROVE OnlyAskedIsInFlight(q)' /\ Balanced(q)'
        BY <2>2, <3>2 DEF BytesInv, BytesType, SpeedInv, SpeedType, OnlyAskedIsInFlight, Balanced
      <3> QED  BY <3>3, <3>4 DEF BytesInv
    <2> QED  BY <1>4, <2>1, <2>2 DEF Speed!DelayEnds, Speed!transfer
  <1> QED  BY <1>1, <1>2, <1>3, <1>4 DEF Speed!Proceeds

LEMMA BytesAtThePanel ==
    ASSUME SpeedInv, BytesInv, Speed!OpenPanel \/ Speed!ClosePanel \/ Speed!Press
    PROVE  BytesInv'
  <1>1. CASE UNCHANGED <<asking, inFlight, counted, moved>>
    BY <1>1 DEF BytesInv, BytesType, OnlyAskedIsInFlight, Balanced
  <1>2. CASE current # 0 /\ Speed!Cancelled(current)
    BY <1>2, ChunksAreRolledOver DEF Speed!Cancelled, SpeedInv, SpeedType
  <1>3. CASE Speed!Press
    <2>1. PICK r \in Speed!Runs : asking' = [asking EXCEPT ![r] = Streams]
      BY <1>3 DEF Speed!Press
    <2>2. UNCHANGED <<inFlight, counted, moved>>
      BY <1>3 DEF Speed!Press
    <2> QED  BY <2>1, <2>2 DEF BytesInv, BytesType, SpeedInv, SpeedType, OnlyAskedIsInFlight, Balanced
  <1> QED  BY <1>1, <1>2, <1>3 DEF Speed!OpenPanel, Speed!ClosePanel, Speed!transfer

LEMMA BytesStep == ASSUME SpeedInv, BytesInv, [DesktopNext]_desktopVars PROVE BytesInv'
  <1>1. CASE Speed!Next
    BY <1>1, BytesAtThePanel, BytesProceed DEF Speed!Next
  <1>2. CASE UNCHANGED speedVars
    BY <1>2 DEF speedVars, BytesInv, BytesType, OnlyAskedIsInFlight, Balanced
  <1> QED  BY <1>1, <1>2 DEF DesktopNext, OfficeNext, PageNext, DashboardNext, desktopVars,
             dashboardVars

(* Over chunks that end, fail or are cut, by the clock or by the panel that      *)
(* closes, and from one phase to the next, a run counts each byte it moved once  *)
(* (sentPerStream, inFlightPerStream, runSpeedTest).                             *)
THEOREM EveryByteIsCountedOnce == DesktopSpec => []Speed!EveryByteOnce
  <1>1. DesktopInit => SpeedInv /\ BytesInv
    BY SpeedStarts, BytesStart
  <1>2. SpeedInv /\ BytesInv /\ [DesktopNext]_desktopVars => SpeedInv' /\ BytesInv'
    BY SpeedSteps, BytesStep
  <1>3. BytesInv => Speed!EveryByteOnce
    <2> SUFFICES ASSUME BytesInv, NEW r \in Speed!Runs
                 PROVE  counted[r] + Speed!SumFunction(inFlight[r]) = moved[r]
      BY DEF Speed!EveryByteOnce
    <2>1. DOMAIN inFlight[r] = Streams
      BY DEF BytesInv, BytesType
    <2> QED  BY <2>1, SpeedSums DEF BytesInv, Balanced
  <1> QED  BY <1>1, <1>2, <1>3, PTL DEF DesktopSpec

--------------------------------------------------------------------------------
(* Who shows a report.  Pairs that stand in a strict order have a set of those   *)
(* that no sooner one of the set bars, whatever bars what.                       *)

StrictOrder(before, S) ==
    /\ \A p, q \in S : p = q \/ <<p, q>> \in before \/ <<q, p>> \in before
    /\ \A p, q \in S : <<p, q>> \in before => p # q /\ <<q, p>> \notin before
    /\ \A p, q, r \in S : <<p, q>> \in before /\ <<q, r>> \in before => <<p, r>> \in before

LEMMA LastOfOrder ==
    ASSUME NEW S, IsFiniteSet(S), NEW before, StrictOrder(before, S)
    PROVE  \A T \in SUBSET S : T # {} => \E x \in T : \A y \in T \ {x} : <<y, x>> \in before
  <1> DEFINE G == { T \in SUBSET S : T # {} => \E x \in T : \A y \in T \ {x} : <<y, x>> \in before }
  <1>1. {} \in G
    OBVIOUS
  <1>2. ASSUME NEW T \in SUBSET S, T # {}, \A x \in T : T \ {x} \in G PROVE T \in G
    <2>1. PICK p : p \in T
      BY <1>2
    <2>2. CASE T \ {p} = {}
      BY <2>1, <2>2
    <2>3. CASE T \ {p} # {}
      <3>1. PICK x \in T \ {p} : \A y \in (T \ {p}) \ {x} : <<y, x>> \in before
        BY <1>2, <2>1, <2>3
      <3>2. CASE <<p, x>> \in before
        BY <3>1, <3>2
      <3>3. CASE <<x, p>> \in before
        <4>1. \A y \in T \ {p} : <<y, p>> \in before
          BY <2>1, <3>1, <3>3 DEF StrictOrder
        <4> QED  BY <2>1, <4>1
      <3> QED  BY <2>1, <3>1, <3>2, <3>3 DEF StrictOrder
    <2> QED  BY <2>2, <2>3
  <1> HIDE DEF G
  <1>3. \A T \in SUBSET S : T \in G
    BY <1>1, <1>2, SubsetInduction
  <1> QED  BY <1>3 DEF G

(* In is those of T that none of In sooner than they bars.                       *)
Settles(In, T, before, bars) ==
    \A p \in T : p \in In <=> ~\E q \in In : <<q, p>> \in before /\ <<q, p>> \in bars

LEMMA EachInItsTurn ==
    ASSUME NEW S, IsFiniteSet(S), NEW before, StrictOrder(before, S), NEW bars
    PROVE  \E In \in SUBSET S : Settles(In, S, before, bars)
  <1> DEFINE G == { T \in SUBSET S : \E In \in SUBSET T : Settles(In, T, before, bars) }
  <1>1. {} \in G
    BY DEF Settles
  <1>2. ASSUME NEW T \in SUBSET S, T # {}, \A x \in T : T \ {x} \in G PROVE T \in G
    <2>1. PICK x \in T : \A y \in T \ {x} : <<y, x>> \in before
      BY <1>2, LastOfOrder
    <2>2. \A y \in T : <<x, y>> \notin before
      BY <2>1 DEF StrictOrder
    <2>3. PICK In \in SUBSET (T \ {x}) : Settles(In, T \ {x}, before, bars)
      BY <1>2
    <2>4. CASE \E q \in In : <<q, x>> \in before /\ <<q, x>> \in bars
      BY <2>3, <2>4 DEF Settles
    <2>5. CASE ~\E q \in In : <<q, x>> \in before /\ <<q, x>> \in bars
      <3>1. Settles(In \cup {x}, T, before, bars)
        BY <2>2, <2>3, <2>5 DEF Settles
      <3> QED  BY <3>1
    <2> QED  BY <2>4, <2>5
  <1> HIDE DEF G
  <1>3. S \in G
    BY <1>1, <1>2, SubsetInduction
  <1> QED  BY <1>3 DEF G

--------------------------------------------------------------------------------
(* The outages.  Times are seconds; the seconds of a run have one first.         *)

Rows == [id : Nat, stamp : Nat, start : Nat, end : Nat]

OutageType ==
    /\ second \in Nat /\ sky \subseteq 1 .. second /\ stage \in {"judge", "ingest"}
    /\ judgedAt \in 0 .. second /\ ingestedAt \in 0 .. second
    /\ samples \in Nat /\ judged \in Nat /\ stamped \in Nat \cup {None}
    /\ written \in Seq(Rows) /\ \A i \in 1 .. Len(written) : written[i].id = i

(* Polls come after one another, and what is judged is what the last one brought.*)
PollsInTime ==
    /\ samples = ingestedAt /\ judged <= samples /\ judged <= judgedAt
    /\ samples - judged <= MaxGap /\ second - judgedAt <= MaxGap /\ second - ingestedAt <= MaxGap
    /\ stage = "ingest" => judged = samples
    /\ stage = "judge" => judged = samples \/ judgedAt <= samples

EpisodeIsOpen == stamped # None <=> Outages!IsOutage(judged)

(* The drops from a to the second judged, with no others just before them.       *)
RunsFrom(a) ==
    /\ a \in sky /\ a <= judged /\ a .. judged \subseteq sky /\ a - 1 \notin sky
    /\ \A s \in sky : s < a => a - s + RunLen > MaxGap + 1

StampedInTime ==
    stamped # None =>
        \A a \in Nat : RunsFrom(a) => a <= stamped /\ stamped <= a + RunLen + 2 * MaxGap - 2

Told ==
    \A e \in Outages!Outages(judged) : Outages!Long(e) =>
        \E i \in 1 .. Len(written) : written[i].start = e.start /\ e.start <= written[i].end

OutageInv == OutageType /\ PollsInTime /\ EpisodeIsOpen /\ StampedInTime /\ Told

LEMMA OutageBounds ==
    /\ RunLen \in Nat \ {0} /\ Tolerance \in Nat /\ MaxGap \in Nat \ {0} /\ None \notin Nat
    /\ MaxStray \in Nat /\ MaxStray <= Tolerance
  BY InstancesSuit DEF Outages!ReportsAssumption

LEMMA DropsAreSeconds ==
    ASSUME OutageType
    PROVE  second \in Nat /\ \A s \in sky : s \in Nat /\ 1 <= s /\ s <= second
  <1>1. second \in Nat /\ sky \subseteq 1 .. second
    BY DEF OutageType
  <1> QED  BY <1>1

(* The run of drops up to a second has a first, and only one.                    *)
LEMMA RunHasAStart ==
    ASSUME OutageType, NEW top \in sky
    PROVE  \E s \in sky : s <= top /\ s - 1 \notin sky /\ s .. top \subseteq sky
  <1> DEFINE T == { s \in Nat : s <= top /\ s .. top \subseteq sky }
  <1>1. top \in Nat /\ \A s \in sky : s \in Nat /\ 1 <= s
    BY DropsAreSeconds
  <1>2. T \in SUBSET Nat /\ top \in T
    BY <1>1
  <1>3. PICK s \in T : \A t \in T : s <= t
    <2> HIDE DEF T
    <2> QED  BY <1>2, LeastExists
  <1>4. s \in sky /\ s <= top /\ s .. top \subseteq sky /\ s \in Nat
    BY <1>1, <1>3
  <1>5. s - 1 \notin sky
    <2> SUFFICES ASSUME s - 1 \in sky PROVE FALSE
      OBVIOUS
    <2>1. s - 1 \in Nat /\ s - 1 <= top
      BY <1>1, <1>4
    <2>2. (s - 1) .. top \subseteq sky
      BY <1>1, <1>4, <2>1
    <2>3. s - 1 \in T
      BY <2>1, <2>2
    <2> HIDE DEF T
    <2> QED  BY <1>3, <1>4, <2>1, <2>3
  <1> QED  BY <1>4, <1>5

LEMMA RunHasOneStart ==
    ASSUME OutageType, NEW top \in Nat, NEW s \in sky, NEW t \in sky,
           s <= top, s - 1 \notin sky, s .. top \subseteq sky,
           t <= top, t - 1 \notin sky, t .. top \subseteq sky
    PROVE  s = t
  <1>1. s \in Nat /\ t \in Nat /\ s > 0 /\ t > 0
    BY DEF OutageType
  <1>2. ~(s < t)
    <2>1. s < t => t - 1 \in s .. top
      BY <1>1
    <2> QED  BY <2>1
  <1>3. ~(t < s)
    <2>1. t < s => s - 1 \in t .. top
      BY <1>1
    <2> QED  BY <2>1
  <1> QED  BY <1>1, <1>2, <1>3

(* An outage of the log: its seconds, and the ones on either side.               *)
LEMMA OutageOf ==
    ASSUME OutageType, NEW t \in Nat, NEW e \in Outages!Outages(t)
    PROVE  /\ e = [start |-> e.start, end |-> e.end] /\ e.start \in sky /\ e.end \in sky
           /\ e.start <= e.end /\ e.start .. e.end \subseteq sky
           /\ e.start - 1 \notin sky /\ e.end + 1 \notin sky /\ e.end < t
           /\ e.start \in Nat /\ e.end \in Nat
  BY DEF Outages!Outages, OutageType

LEMMA OutageIs ==
    ASSUME OutageType, NEW t \in Nat, NEW e,
           e = [start |-> e.start, end |-> e.end], e.start \in sky, e.end \in sky,
           e.start <= e.end, e.start .. e.end \subseteq sky, e.start - 1 \notin sky,
           e.end + 1 \notin sky, e.end < t
    PROVE  e \in Outages!Outages(t)
  <1> DEFINE ab == <<e.start, e.end>>
  <1>1. ab \in sky \X sky
    OBVIOUS
  <1>2. e = [start |-> ab[1], end |-> ab[2]]
    OBVIOUS
  <1> QED  BY <1>1, <1>2 DEF Outages!Outages

LEMMA OutageHasOneEnd ==
    ASSUME OutageType, NEW t \in Nat, NEW e \in Outages!Outages(t), NEW f \in Outages!Outages(t),
           e.start = f.start
    PROVE  e = f
  <1>1. ~(e.end < f.end)
    <2>1. e.end < f.end => e.end + 1 \in f.start .. f.end
      BY OutageOf
    <2> QED  BY <2>1, OutageOf
  <1>2. ~(f.end < e.end)
    <2>1. f.end < e.end => f.end + 1 \in e.start .. e.end
      BY OutageOf
    <2> QED  BY <2>1, OutageOf
  <1>3. e.end = f.end
    BY <1>1, <1>2, OutageOf
  <1> QED  BY <1>3, OutageOf

(* outageStartMs dates a report from the first second of the run it was stamped  *)
(* in.                                                                           *)
LEMMA StartIs ==
    ASSUME OutageType, NEW a \in sky, NEW stamp \in Nat, NEW upTo \in Nat, a - 1 \notin sky,
           LET top == IF upTo < stamp THEN upTo ELSE stamp IN a <= top /\ a .. top \subseteq sky
    PROVE  Outages!OutageStart(stamp, upTo) = a
  <1> DEFINE top == IF upTo < stamp THEN upTo ELSE stamp
             Starts(s) == s <= top /\ s - 1 \notin sky /\ s .. top \subseteq sky
  <1>1. top \in Nat /\ top \in sky /\ a \in Nat
    BY DEF OutageType
  <1>2. Outages!OutageStart(stamp, upTo) = CHOOSE s \in sky : Starts(s)
    BY <1>1 DEF Outages!OutageStart
  <1>3. Starts(a)
    OBVIOUS
  <1>4. \A s \in sky : Starts(s) => s = a
    <2> SUFFICES ASSUME NEW s \in sky, Starts(s) PROVE s = a
      OBVIOUS
    <2> HIDE DEF top
    <2> QED  BY <1>1, <1>3, RunHasOneStart
  <1> HIDE DEF Starts
  <1> QED  BY <1>2, <1>3, <1>4

LEMMA StartIsASecond ==
    ASSUME OutageType, NEW stamp \in Nat, NEW upTo \in Nat
    PROVE  Outages!OutageStart(stamp, upTo) \in Nat
  <1> DEFINE top == IF upTo < stamp THEN upTo ELSE stamp
  <1>1. CASE top \notin sky
    BY <1>1 DEF Outages!OutageStart
  <1>2. CASE top \in sky
    <2>1. \E s \in sky : s <= top /\ s - 1 \notin sky /\ s .. top \subseteq sky
      <3> HIDE DEF top
      <3> QED  BY <1>2, RunHasAStart
    <2> DEFINE Starts(s) == s <= top /\ s - 1 \notin sky /\ s .. top \subseteq sky
    <2>2. Outages!OutageStart(stamp, upTo) = CHOOSE s \in sky : Starts(s)
      BY <1>2 DEF Outages!OutageStart
    <2>3. \E s \in sky : Starts(s)
      BY <2>1
    <2> HIDE DEF Starts
    <2>4. Outages!OutageStart(stamp, upTo) \in sky
      BY <2>2, <2>3
    <2> QED  BY <2>4, DropsAreSeconds
  <1> QED  BY <1>1, <1>2

LEMMA OutagesStart == DesktopInit => OutageInv
  <1> SUFFICES ASSUME DesktopInit PROVE OutageInv
    OBVIOUS
  <1>1. /\ second = 0 /\ sky = {} /\ stage = "judge" /\ judgedAt = 0 /\ ingestedAt = 0
        /\ samples = 0 /\ judged = 0 /\ stamped = None /\ written = <<>>
    BY DEF DesktopInit, Outages!Init
  <1>2. ~Outages!IsOutage(0) /\ Outages!Outages(0) = {}
    BY <1>1, OutageBounds DEF Outages!IsOutage, Outages!Outages
  <1>3. OutageType /\ PollsInTime
    BY <1>1, OutageBounds DEF OutageType, PollsInTime
  <1>4. EpisodeIsOpen /\ StampedInTime /\ Told
    BY <1>1, <1>2 DEF EpisodeIsOpen, StampedInTime, Told
  <1> QED  BY <1>3, <1>4 DEF OutageInv

(* A second passes: what has been judged is behind it.                           *)
LEMMA LinkSecondPasses ==
    ASSUME OutageInv, NEW dropped \in BOOLEAN, Outages!Second(dropped)
    PROVE  OutageInv'
  <1> USE OutageBounds DEF OutageInv
  <1>1. /\ second' = second + 1 /\ second + 1 - judgedAt <= MaxGap /\ second + 1 - ingestedAt <= MaxGap
        /\ UNCHANGED <<stage, judgedAt, ingestedAt, samples, judged, stamped, written>>
        /\ sky \subseteq sky' /\ sky' \subseteq sky \cup {second + 1}
    BY DEF Outages!Second
  <1>2. OutageType'
    BY <1>1 DEF OutageType
  <1>3. PollsInTime'
    BY <1>1 DEF PollsInTime, OutageType
  <1>4. \A s \in Int : s <= second => (s \in sky' <=> s \in sky)
    BY <1>1 DEF OutageType
  <1>5. judged \in Nat /\ judged <= second /\ second \in Nat
    BY DEF PollsInTime, OutageType
  <1>6. \A a \in Nat : a .. judged \subseteq sky' <=> a .. judged \subseteq sky
    BY <1>4, <1>5
  <1>7. Outages!IsOutage(judged)' <=> Outages!IsOutage(judged)
    <2>1. judged >= RunLen => judged - RunLen + 1 \in Nat
      BY <1>5
    <2> QED  BY <1>1, <1>6, <2>1 DEF Outages!IsOutage
  <1>8. ASSUME NEW a \in Nat, RunsFrom(a)' PROVE RunsFrom(a)
    BY <1>1, <1>4, <1>5, <1>6, <1>8 DEF RunsFrom
  <1>9. ASSUME NEW e \in Outages!Outages(judged)' PROVE e \in Outages!Outages(judged)
    <2>1. e \in (Outages!Outages(judged))'
      BY <1>9
    <2>2. PICK ab \in sky' \X sky' :
             /\ e = [start |-> ab[1], end |-> ab[2]] /\ ab[1] <= ab[2] /\ ab[1] .. ab[2] \subseteq sky'
             /\ ab[1] - 1 \notin sky' /\ ab[2] + 1 \notin sky' /\ ab[2] < judged
      BY <2>1, <1>1 DEF Outages!Outages
    <2>3. ab[1] \in Nat /\ ab[2] \in Nat
      BY <1>1, DropsAreSeconds
    <2>4. /\ ab[1] \in sky /\ ab[2] \in sky /\ ab[1] .. ab[2] \subseteq sky
          /\ ab[1] - 1 \notin sky /\ ab[2] + 1 \notin sky
      BY <1>1, <1>4, <1>5, <2>2, <2>3
    <2>5. e = [start |-> e.start, end |-> e.end] /\ e.start = ab[1] /\ e.end = ab[2]
      BY <2>2
    <2> QED  BY <1>5, <2>2, <2>4, <2>5, OutageIs
  <1>10. ASSUME NEW e \in Outages!Outages(judged), Outages!Long(e)' PROVE Outages!Long(e)
    BY <1>1, <1>10 DEF Outages!Long, Outages!StandsAlone
  <1>11. EpisodeIsOpen'
    BY <1>1, <1>7 DEF EpisodeIsOpen
  <1>12. StampedInTime'
    BY <1>1, <1>8 DEF StampedInTime
  <1>13. Told'
    <2> SUFFICES ASSUME NEW e \in Outages!Outages(judged)', Outages!Long(e)'
                 PROVE  \E i \in 1 .. Len(written) :
                            written[i].start = e.start /\ e.start <= written[i].end
      BY <1>1 DEF Told
    <2> QED  BY <1>9, <1>10 DEF Told
  <1> QED  BY <1>2, <1>3, <1>11, <1>12, <1>13

LEMMA PollIngests == ASSUME OutageInv, Outages!Ingest PROVE OutageInv'
  <1> USE OutageBounds DEF OutageInv
  <1>1. /\ stage = "ingest" /\ stage' = "judge"
        /\ \/ samples' = second /\ ingestedAt' = second
           \/ samples' = samples /\ ingestedAt' = ingestedAt
        /\ UNCHANGED <<second, sky, judgedAt, judged, stamped, written>>
    BY DEF Outages!Ingest
  <1>2. OutageType' /\ PollsInTime'
    BY <1>1 DEF OutageType, PollsInTime
  <1>3. EpisodeIsOpen' /\ StampedInTime'
    BY <1>1 DEF EpisodeIsOpen, StampedInTime, RunsFrom, Outages!IsOutage
  <1>4. Told'
    BY <1>1 DEF Told, Outages!Long, Outages!Outages, Outages!StandsAlone
  <1> QED  BY <1>2, <1>3, <1>4

(* A run of drops that a poll brings whole, where the one before it had not, has *)
(* begun within a run and a poll of it.                                          *)
LEMMA RunIsFresh ==
    ASSUME OutageInv, Outages!IsOutage(samples), ~Outages!IsOutage(judged),
           NEW a \in sky, a <= samples, a .. samples \subseteq sky
    PROVE  judged <= a + RunLen - 2 /\ samples # judged
  <1> USE OutageBounds DEF OutageInv
  <1>1. a \in Nat /\ samples \in Nat /\ judged \in Nat /\ judged <= samples
    BY DEF OutageType, PollsInTime
  <1>2. ~(judged >= a + RunLen - 1)
    <2> SUFFICES ASSUME judged >= a + RunLen - 1 PROVE FALSE
      OBVIOUS
    <2>1. judged >= RunLen /\ (judged - RunLen + 1) .. judged \subseteq a .. samples
      BY <1>1 DEF OutageType
    <2> QED  BY <2>1 DEF Outages!IsOutage
  <1> QED  BY <1>1, <1>2

(* Drops that follow others closely enough belong to their run.                  *)
LEMMA RunReachesBack ==
    ASSUME OutageInv, Outages!IsOutage(samples), Outages!IsOutage(judged),
           NEW a \in sky, a <= samples, a .. samples \subseteq sky, a - 1 \notin sky,
           \A s \in sky : s < a => a - s + RunLen > MaxGap + 1
    PROVE  a <= judged
  <1> USE OutageBounds DEF OutageInv
  <1>1. a \in Nat /\ a > 0 /\ samples \in Nat /\ judged \in Nat /\ samples - judged <= MaxGap
    BY DEF OutageType, PollsInTime
  <1>2. judged \in sky
    <2>1. judged \in (judged - RunLen + 1) .. judged
      BY <1>1
    <2> QED  BY <2>1 DEF Outages!IsOutage
  <1>3. samples - RunLen + 1 >= a
    <2> SUFFICES ASSUME samples - RunLen + 1 < a PROVE FALSE
      BY <1>1
    <2>1. a - 1 \in (samples - RunLen + 1) .. samples
      BY <1>1
    <2> QED  BY <2>1 DEF Outages!IsOutage
  <1>4. judged < a => a - judged + RunLen > MaxGap + 1
    BY <1>2
  <1> QED  BY <1>1, <1>3, <1>4

LEMMA PollJudges == ASSUME OutageInv, Outages!Judge PROVE OutageInv'
  <1> USE OutageBounds DEF OutageInv
  <1>1. /\ stage = "judge" /\ judgedAt < second /\ stage' = "ingest" /\ judgedAt' = second
        /\ judged' = samples /\ UNCHANGED <<second, sky, ingestedAt, samples>>
        /\ stamped' = IF ~Outages!IsOutage(samples) THEN None
                      ELSE IF stamped = None THEN second ELSE stamped
        /\ written' = IF stamped # None /\ ~Outages!IsOutage(samples)
                      THEN Append(written, Outages!Report) ELSE written
    BY DEF Outages!Judge
  <1>2. /\ samples \in Nat /\ judged \in Nat /\ judged <= samples /\ samples <= second /\ second \in Nat
        /\ samples - judged <= MaxGap /\ (judged = samples \/ judgedAt <= samples)
        /\ second - judgedAt <= MaxGap /\ judgedAt \in Nat
    BY <1>1 DEF OutageType, PollsInTime
  <1>3. \A t \in Nat : (Outages!IsOutage(t))' <=> Outages!IsOutage(t)
    BY <1>1 DEF Outages!IsOutage
  <1>4. ASSUME stamped # None
        PROVE  Outages!Report \in Rows /\ Outages!Report.id = Len(written) + 1
    <2>1. stamped \in Nat /\ Len(written) + 1 \in Nat
      BY <1>4 DEF OutageType
    <2>2. Outages!OutageStart(stamped, samples) \in Nat
      BY <1>2, <2>1, StartIsASecond
    <2> QED  BY <1>2, <2>1, <2>2 DEF Outages!Report, Rows
  <1>5. OutageType'
    <2>1. CASE stamped # None /\ ~Outages!IsOutage(samples)
      <3>1. Outages!Report \in Rows /\ Outages!Report.id = Len(written) + 1
        BY <1>4, <2>1
      <3>2. written' = Append(written, Outages!Report)
        BY <1>1, <2>1
      <3>3. written' \in Seq(Rows) /\ \A i \in 1 .. Len(written') : written'[i].id = i
        BY <3>1, <3>2 DEF OutageType
      <3> QED  BY <1>1, <1>2, <2>1, <3>3 DEF OutageType
    <2>2. CASE ~(stamped # None /\ ~Outages!IsOutage(samples))
      BY <1>1, <1>2, <2>2 DEF OutageType
    <2> QED  BY <2>1, <2>2
  <1>6. PollsInTime'
    BY <1>1, <1>2 DEF PollsInTime
  <1>7. EpisodeIsOpen'
    BY <1>1, <1>2, <1>3 DEF EpisodeIsOpen
  <1>8. StampedInTime'
    <2> SUFFICES ASSUME stamped' # None, NEW a \in Nat, RunsFrom(a)'
                 PROVE  a <= stamped' /\ stamped' <= a + RunLen + 2 * MaxGap - 2
      BY DEF StampedInTime
    <2>1. /\ a \in sky /\ a <= samples /\ a .. samples \subseteq sky /\ a - 1 \notin sky
          /\ \A s \in sky : s < a => a - s + RunLen > MaxGap + 1
      BY <1>1 DEF RunsFrom
    <2>2. Outages!IsOutage(samples)
      BY <1>1
    <2>3. CASE stamped = None
      <3>1. judged <= a + RunLen - 2 /\ samples # judged
        BY <2>1, <2>2, <2>3, RunIsFresh DEF EpisodeIsOpen
      <3>2. stamped' = second
        BY <1>1, <2>2, <2>3
      <3> QED  BY <1>2, <2>1, <3>1, <3>2
    <2>4. CASE stamped # None
      <3>1. a <= judged
        BY <2>1, <2>2, <2>4, RunReachesBack DEF EpisodeIsOpen
      <3>2. RunsFrom(a)
        BY <1>2, <2>1, <3>1 DEF RunsFrom
      <3>3. stamped' = stamped
        BY <1>1, <2>2, <2>4
      <3> QED  BY <2>4, <3>2, <3>3 DEF StampedInTime
    <2> QED  BY <2>3, <2>4
  <1>9. Told'
    <2> SUFFICES ASSUME NEW e \in Outages!Outages(samples), Outages!Long(e)
                 PROVE  \E i \in 1 .. Len(written') :
                            written'[i].start = e.start /\ e.start <= written'[i].end
      BY <1>1 DEF Told, Outages!Long, Outages!Outages, Outages!StandsAlone
    <2> DEFINE a == e.start
               b == e.end
    <2>1. /\ a \in sky /\ b \in sky /\ a <= b /\ a .. b \subseteq sky /\ a - 1 \notin sky
          /\ b + 1 \notin sky /\ b < samples /\ a \in Nat /\ b \in Nat
      BY <1>2, OutageOf
    <2>2. b >= a + RunLen + 2 * MaxGap - 2
      BY <2>1 DEF Outages!Long
    <2>3. /\ \A s \in sky : s < a => a - s + RunLen > MaxGap + 1
          /\ \A s \in sky : s > b => s - b + RunLen > MaxGap + 1
      <3>1. \A s \in sky : s \in Nat
        BY DEF OutageType
      <3>2. \A s \in sky : s \notin a .. b =>
               Outages!Apart(s, IF s < a THEN a ELSE b) + RunLen > MaxGap + 1
        BY DEF Outages!Long, Outages!StandsAlone
      <3> HIDE DEF a, b
      <3> QED  BY <2>1, <3>1, <3>2 DEF Outages!Apart
    <2>4. Len(written) \in Nat /\ \A i \in 1 .. Len(written) : /\ i \in 1 .. Len(written')
                                                             /\ written'[i] = written[i]
      BY <1>1 DEF OutageType
    <2> HIDE DEF a, b
    <2>5. CASE b < judged
      <3>1. e \in Outages!Outages(judged)
        BY <1>2, <2>1, <2>5, OutageIs, OutageOf DEF a, b
      <3>2. PICK i \in 1 .. Len(written) : written[i].start = e.start /\ e.start <= written[i].end
        BY <3>1 DEF Told
      <3> QED  BY <2>4, <3>2
    <2>6. CASE judged <= b
      <3>1. judged >= a + RunLen /\ a <= judged
        BY <1>2, <2>1, <2>2, <2>6
      <3>2. Outages!IsOutage(judged)
        <4>1. judged >= RunLen /\ (judged - RunLen + 1) .. judged \subseteq a .. b
          BY <1>2, <2>1, <2>6, <3>1
        <4> QED  BY <2>1, <4>1 DEF Outages!IsOutage
      <3>3. ~Outages!IsOutage(samples)
        <4> SUFFICES ASSUME Outages!IsOutage(samples) PROVE FALSE
          OBVIOUS
        <4> DEFINE s == samples - RunLen + 1
        <4>1. s .. samples \subseteq sky /\ s \in Int /\ s <= samples
          BY <1>2 DEF Outages!IsOutage
        <4>2. s > b + 1
          <5>1. s <= b + 1 => b + 1 \in s .. samples
            BY <1>2, <2>1, <4>1
          <5> HIDE DEF s
          <5> QED  BY <2>1, <4>1, <5>1
        <4>3. s \in sky
          <5> HIDE DEF s
          <5> QED  BY <1>2, <4>1
        <4>4. s - b + RunLen > MaxGap + 1
          <5> HIDE DEF s
          <5> QED  BY <2>1, <2>3, <4>1, <4>2, <4>3
        <4> QED  BY <1>2, <2>1, <2>6, <4>4
      <3>4. stamped # None /\ stamped \in Nat
        BY <3>2 DEF EpisodeIsOpen, OutageType
      <3>5. a .. judged \subseteq sky
        BY <1>2, <2>1, <2>6
      <3>6. RunsFrom(a)
        BY <2>1, <2>3, <3>1, <3>5 DEF RunsFrom
      <3>7. a <= stamped /\ stamped <= b
        BY <2>1, <2>2, <3>4, <3>6 DEF StampedInTime
      <3>8. Outages!OutageStart(stamped, samples) = a
        <4>1. a <= stamped /\ a .. stamped \subseteq sky /\ ~(samples < stamped)
          BY <1>2, <2>1, <3>4, <3>7
        <4> QED  BY <1>2, <2>1, <3>4, <4>1, StartIs
      <3>9. /\ written' = Append(written, Outages!Report)
            /\ Outages!Report.start = a /\ Outages!Report.end = second
        BY <1>1, <3>3, <3>4, <3>8 DEF Outages!Report
      <3>10. Len(written') = Len(written) + 1 /\ written'[Len(written) + 1] = Outages!Report
        BY <3>9 DEF OutageType
      <3>11. a <= second
        BY <1>2, <2>1
      <3> QED  BY <2>4, <3>9, <3>10, <3>11 DEF a
    <2> QED  BY <1>2, <2>1, <2>5, <2>6
  <1> QED  BY <1>5, <1>6, <1>7, <1>8, <1>9

LEMMA OutagesStep == ASSUME OutageInv, [DesktopNext]_desktopVars PROVE OutageInv'
  <1>1. CASE Outages!Next
    BY <1>1, LinkSecondPasses, PollJudges, PollIngests DEF Outages!Next
  <1>2. CASE UNCHANGED outageVars
    <2>1. OutageType' /\ PollsInTime'
      BY <1>2 DEF outageVars, OutageInv, OutageType, PollsInTime
    <2>2. EpisodeIsOpen' /\ StampedInTime'
      BY <1>2 DEF outageVars, OutageInv, EpisodeIsOpen, StampedInTime, RunsFrom, Outages!IsOutage
    <2>3. Told'
      BY <1>2 DEF outageVars, OutageInv, Told, Outages!Long, Outages!Outages, Outages!StandsAlone
    <2> QED  BY <2>1, <2>2, <2>3 DEF OutageInv
  <1> QED  BY <1>1, <1>2 DEF DesktopNext, OfficeNext, PageNext, DashboardNext, desktopVars,
             dashboardVars

--------------------------------------------------------------------------------
(* The rows of the log, however the dish dates its events.                       *)

Written     == Outages!ToSet(written)
Pairs(d)    == Outages!Candidates(Written, Outages!Log(d))
InTurn(d)   == { pq \in Pairs(d) \X Pairs(d) : Outages!Sooner(pq[1], pq[2]) }
Contending(d) ==
    { pq \in Pairs(d) \X Pairs(d) : pq[1].report = pq[2].report \/ pq[1].event = pq[2].event }

LEMMA ImageIsFinite ==
    ASSUME NEW S, IsFiniteSet(S), NEW f
    PROVE  IsFiniteSet({ f[x] : x \in S })
  <1> DEFINE g == [x \in S |-> f[x]]
  <1>1. g \in Surjection(S, { f[x] : x \in S })
    BY DEF Surjection
  <1> QED  BY <1>1, FS_Surjection

LEMMA PairsAreFinite ==
    ASSUME OutageInv, NEW d \in Outages!Datings
    PROVE  IsFiniteSet(Pairs(d))
  <1> DEFINE ends == [ab \in sky \X sky |-> [start |-> ab[1], end |-> ab[2]]]
             logged == [e \in Outages!Outages(judged) |-> Outages!Logged(e, d)]
             pair == [re \in Written \X Outages!Log(d) |-> [report |-> re[1], event |-> re[2]]]
  <1>1. IsFiniteSet(sky)
    <2>1. sky \in SUBSET (1 .. second) /\ second \in Int
      BY DEF OutageInv, OutageType
    <2>2. IsFiniteSet(1 .. second)
      BY <2>1, FS_Interval
    <2> QED  BY <2>1, <2>2, FS_Subset
  <1>2. IsFiniteSet(Outages!Outages(judged))
    <2>1. IsFiniteSet(sky \X sky)
      BY <1>1, FS_Product
    <2>2. IsFiniteSet({ ends[ab] : ab \in sky \X sky })
      <3> HIDE DEF ends
      <3> QED  BY <2>1, ImageIsFinite
    <2>3. Outages!Outages(judged) \in SUBSET { ends[ab] : ab \in sky \X sky }
      BY DEF Outages!Outages
    <2> HIDE DEF ends
    <2> QED  BY <2>2, <2>3, FS_Subset
  <1>3. IsFiniteSet(Outages!Log(d))
    <2>1. Outages!Log(d) = { logged[e] : e \in Outages!Outages(judged) }
      BY DEF Outages!Log
    <2> HIDE DEF logged
    <2> QED  BY <1>2, <2>1, ImageIsFinite
  <1>4. IsFiniteSet(Written)
    <2>1. DOMAIN written = 1 .. Len(written) /\ Len(written) \in Int
      BY DEF OutageInv, OutageType
    <2>2. IsFiniteSet(DOMAIN written)
      BY <2>1, FS_Interval
    <2>3. Written = { written[i] : i \in DOMAIN written }
      BY DEF Written, Outages!ToSet
    <2> QED  BY <2>2, <2>3, ImageIsFinite
  <1>5. IsFiniteSet(Written \X Outages!Log(d))
    BY <1>3, <1>4, FS_Product
  <1>6. IsFiniteSet({ pair[re] : re \in Written \X Outages!Log(d) })
    <2> HIDE DEF pair
    <2> QED  BY <1>5, ImageIsFinite
  <1>7. Pairs(d) \in SUBSET { pair[re] : re \in Written \X Outages!Log(d) }
    <2> SUFFICES ASSUME NEW p \in Pairs(d)
                 PROVE  \E re \in Written \X Outages!Log(d) : p = pair[re]
      OBVIOUS
    <2>1. p \in [report : Written, event : Outages!Log(d)]
      BY DEF Pairs, Outages!Candidates
    <2>2. <<p.report, p.event>> \in Written \X Outages!Log(d)
      BY <2>1
    <2>3. p = pair[<<p.report, p.event>>]
      BY <2>1, <2>2
    <2> QED  BY <2>2, <2>3
  <1> HIDE DEF pair
  <1> QED  BY <1>6, <1>7, FS_Subset

(* The dish logs an outage within MaxStray of where it was.                      *)
LEMMA LoggedIs ==
    ASSUME OutageInv, NEW d \in Outages!Datings, NEW e \in Outages!Outages(judged)
    PROVE  /\ Outages!Logged(e, d).of = e
           /\ e.start \in Nat /\ e.end \in Nat /\ e.start <= e.end /\ d[e] \in Int
           /\ Outages!Logged(e, d).start = e.start + d[e]
           /\ Outages!Logged(e, d).end = e.end + d[e]
           /\ -MaxStray <= d[e] /\ d[e] <= MaxStray
  <1>1. judged \in Nat
    BY DEF OutageInv, OutageType
  <1>2. d[e] \in Outages!Strays
    BY DEF Outages!Datings
  <1> QED  BY <1>1, <1>2, OutageOf, OutageBounds DEF OutageInv, Outages!Logged, Outages!Strays

(* A pair is of a report that is on file and an outage of the log.               *)
LEMMA PairIs ==
    ASSUME OutageInv, NEW d \in Outages!Datings, NEW p \in Pairs(d)
    PROVE  /\ p \in [report : Written, event : Outages!Log(d)] /\ p.report \in Rows
           /\ p.event.of \in Outages!Outages(judged) /\ p.event = Outages!Logged(p.event.of, d)
           /\ p.event.start \in Int /\ p.event.of.start \in Nat
           /\ Outages!Distance(p) \in Nat
           /\ Outages!Overlaps(p.report, p.event)
  <1>1. p \in [report : Written, event : Outages!Log(d)] /\ Outages!Overlaps(p.report, p.event)
    BY DEF Pairs, Outages!Candidates
  <1>2. p.report \in Rows
    BY <1>1 DEF Written, Outages!ToSet, OutageInv, OutageType
  <1>3. PICK e \in Outages!Outages(judged) : p.event = Outages!Logged(e, d)
    BY <1>1 DEF Outages!Log
  <1>4. p.event.of = e /\ p.event.start \in Int /\ e.start \in Nat
    BY <1>3, LoggedIs
  <1>5. Outages!Distance(p) \in Nat
    BY <1>2, <1>4 DEF Outages!Distance, Outages!Apart, Rows
  <1> QED  BY <1>1, <1>2, <1>3, <1>4, <1>5

(* A report is known by its number and an outage by its start.                   *)
LEMMA PairIsKnown ==
    ASSUME OutageInv, NEW d \in Outages!Datings, NEW p \in Pairs(d), NEW q \in Pairs(d)
    PROVE  /\ p.report.id = q.report.id => p.report = q.report
           /\ p.event.of.start = q.event.of.start => p.event = q.event
           /\ p.report = q.report /\ p.event = q.event => p = q
  <1>1. p \in [report : Written, event : Outages!Log(d)] /\ q \in [report : Written, event : Outages!Log(d)]
    BY PairIs
  <1>2. p.report.id = q.report.id => p.report = q.report
    <2>1. PICK i \in DOMAIN written : p.report = written[i]
      BY <1>1 DEF Written, Outages!ToSet
    <2>2. PICK j \in DOMAIN written : q.report = written[j]
      BY <1>1 DEF Written, Outages!ToSet
    <2>3. p.report.id = i /\ q.report.id = j
      BY <2>1, <2>2 DEF OutageInv, OutageType
    <2> QED  BY <2>1, <2>2, <2>3
  <1>3. p.event.of.start = q.event.of.start => p.event = q.event
    <2>1. judged \in Nat /\ OutageType
      BY DEF OutageInv, OutageType
    <2>2. p.event.of.start = q.event.of.start => p.event.of = q.event.of
      BY <2>1, PairIs, OutageHasOneEnd
    <2>3. p.event = Outages!Logged(p.event.of, d) /\ q.event = Outages!Logged(q.event.of, d)
      BY PairIs
    <2> QED  BY <2>2, <2>3
  <1>4. p.report = q.report /\ p.event = q.event => p = q
    BY <1>1
  <1> QED  BY <1>2, <1>3, <1>4

LEMMA PairsTakeTurns ==
    ASSUME OutageInv, NEW d \in Outages!Datings
    PROVE  StrictOrder(InTurn(d), Pairs(d))
  <1> DEFINE far(p) == Outages!Distance(p)
             n(p) == p.report.id
             s(p) == p.event.of.start
  <1>1. \A p, q \in Pairs(d) : <<p, q>> \in InTurn(d) <=> Outages!Sooner(p, q)
    BY DEF InTurn
  <1>2. \A p \in Pairs(d) : far(p) \in Nat /\ n(p) \in Nat /\ s(p) \in Nat
    BY PairIs DEF Rows
  <1>3. \A p, q \in Pairs(d) : p.report = q.report <=> n(p) = n(q)
    BY PairIsKnown
  <1>4. \A p, q \in Pairs(d) : n(p) = n(q) /\ s(p) = s(q) => p = q
    BY PairIsKnown
  <1>5. \A p, q \in Pairs(d) : <<p, q>> \in InTurn(d) <=>
           \/ far(p) < far(q)
           \/ far(p) = far(q) /\ (n(p) > n(q) \/ (n(p) = n(q) /\ s(p) > s(q)))
    <2>1. \A p, q : Outages!Sooner(p, q) <=>
             \/ far(p) < far(q)
             \/ far(p) = far(q) /\ (n(p) > n(q) \/ (p.report = q.report /\ s(p) > s(q)))
      BY Zenon DEF Outages!Sooner
    <2> HIDE DEF far, n, s
    <2> QED  BY <1>1, <1>3, <2>1, Zenon
  <1> HIDE DEF far, n, s
  <1>6. ASSUME NEW p \in Pairs(d), NEW q \in Pairs(d)
        PROVE  /\ p = q \/ <<p, q>> \in InTurn(d) \/ <<q, p>> \in InTurn(d)
               /\ <<p, q>> \in InTurn(d) => p # q /\ <<q, p>> \notin InTurn(d)
    BY <1>2, <1>4, <1>5
  <1>7. ASSUME NEW p \in Pairs(d), NEW q \in Pairs(d), NEW r \in Pairs(d),
               <<p, q>> \in InTurn(d), <<q, r>> \in InTurn(d)
        PROVE  <<p, r>> \in InTurn(d)
    BY <1>2, <1>5, <1>7
  <1> QED  BY <1>6, <1>7 DEF StrictOrder

(* What assignReports gives away.                                                *)
LEMMA OwnedIs ==
    ASSUME OutageInv, NEW d \in Outages!Datings
    PROVE  /\ Outages!Owned(d) \in SUBSET Pairs(d)
           /\ \A p \in Pairs(d) : p \in Outages!Owned(d) <=> ~Outages!Taken(Outages!Owned(d), p)
  <1> DEFINE Given(In) == \A p \in Pairs(d) : p \in In <=> ~Outages!Taken(In, p)
  <1>1. PICK In \in SUBSET Pairs(d) : Settles(In, Pairs(d), InTurn(d), Contending(d))
    BY PairsAreFinite, PairsTakeTurns, EachInItsTurn
  <1>2. ASSUME NEW p \in Pairs(d), NEW q \in In
        PROVE  /\ <<q, p>> \in InTurn(d) <=> Outages!Sooner(q, p)
               /\ <<q, p>> \in Contending(d) <=> q.report = p.report \/ q.event = p.event
    BY DEF InTurn, Contending
  <1>3. Given(In)
    BY <1>1, <1>2 DEF Settles, Outages!Taken
  <1>4. Outages!Owned(d) = CHOOSE owned \in SUBSET Pairs(d) : Given(owned)
    BY DEF Outages!Owned, Outages!Assigned, Pairs, Written
  <1> HIDE DEF Given
  <1>5. Outages!Owned(d) \in SUBSET Pairs(d) /\ Given(Outages!Owned(d))
    BY <1>1, <1>3, <1>4
  <1> QED  BY <1>5 DEF Given

LEMMA OverlapIsOwned ==
    ASSUME OutageInv, NEW d \in Outages!Datings, NEW p \in Pairs(d)
    PROVE  \E q \in Outages!Owned(d) : /\ q.report = p.report \/ q.event = p.event
                                       /\ Outages!Distance(q) <= Outages!Distance(p)
  <1>1. CASE p \in Outages!Owned(d)
    BY <1>1, PairIs
  <1>2. CASE p \notin Outages!Owned(d)
    <2>1. PICK q \in Outages!Owned(d) :
             Outages!Sooner(q, p) /\ (q.report = p.report \/ q.event = p.event)
      BY <1>2, OwnedIs DEF Outages!Taken
    <2>2. q \in Pairs(d)
      BY OwnedIs
    <2>3. Outages!Distance(q) <= Outages!Distance(p)
      BY <2>1, <2>2, PairIs DEF Outages!Sooner
    <2> QED  BY <2>1, <2>3
  <1> QED  BY <1>1, <1>2

LEMMA NearestIsGiven == ASSUME OutageInv PROVE Outages!NearestOwns
  <1> SUFFICES ASSUME NEW d \in Outages!Datings
               PROVE  /\ \A p, q \in Outages!Owned(d) :
                            p.report = q.report \/ p.event = q.event => p = q
                      /\ \A r \in Outages!ToSet(written), e \in Outages!Log(d) :
                            Outages!Overlaps(r, e) =>
                               \E p \in Outages!Owned(d) :
                                  /\ p.report = r \/ p.event = e
                                  /\ Outages!Distance(p)
                                        <= Outages!Distance([report |-> r, event |-> e])
    BY DEF Outages!NearestOwns
  <1>1. ASSUME NEW p \in Outages!Owned(d), NEW q \in Outages!Owned(d),
               p.report = q.report \/ p.event = q.event
        PROVE  p = q
    <2>1. p \in Pairs(d) /\ q \in Pairs(d)
      BY OwnedIs
    <2>2. ~Outages!Sooner(p, q) /\ ~Outages!Sooner(q, p)
      BY <1>1, <2>1, OwnedIs DEF Outages!Taken
    <2> QED  BY <2>1, <2>2, PairsTakeTurns DEF StrictOrder, InTurn
  <1>2. ASSUME NEW r \in Outages!ToSet(written), NEW e \in Outages!Log(d), Outages!Overlaps(r, e)
        PROVE  \E p \in Outages!Owned(d) :
                  /\ p.report = r \/ p.event = e
                  /\ Outages!Distance(p) <= Outages!Distance([report |-> r, event |-> e])
    <2> DEFINE p == [report |-> r, event |-> e]
    <2>1. p \in Pairs(d) /\ p.report = r /\ p.event = e
      BY <1>2 DEF Pairs, Written, Outages!Candidates
    <2> HIDE DEF p
    <2>2. \E q \in Outages!Owned(d) : /\ q.report = r \/ q.event = e
                                      /\ Outages!Distance(q) <= Outages!Distance(p)
      BY <2>1, OverlapIsOwned
    <2> QED  BY <2>2 DEF p
  <1> QED  BY <1>1, <1>2

LEMMA NearBoth ==
    ASSUME NEW dates \in Int, NEW dated \in Int, NEW of \in Int, NEW k \in Int,
           -MaxStray <= k, k <= MaxStray, dated = of + k,
           dates - dated <= MaxStray, dated - dates <= MaxStray
    PROVE  ~(Outages!Apart(dates, of) > 2 * MaxStray) /\ ~(Outages!Apart(of, dates) > 2 * MaxStray)
  BY OutageBounds DEF Outages!Apart

(* Whatever is nearer to either is of the same outage, and dated as it is.       *)
LEMMA LongIsTold == ASSUME OutageInv PROVE Outages!LongOutagesAreTold
  <1> SUFFICES ASSUME NEW e \in Outages!Outages(judged), Outages!Long(e)
               PROVE  /\ \E r \in Written : r.start = e.start
                      /\ Outages!IsApart(e) =>
                            \A d \in Outages!Datings : Outages!OnItsRow(e, d)
    BY DEF Outages!LongOutagesAreTold, Written
  <1>1. PICK i \in 1 .. Len(written) : written[i].start = e.start /\ e.start <= written[i].end
    BY DEF OutageInv, Told
  <1> DEFINE r == written[i]
  <1>2. r \in Rows /\ r \in Written
    BY DEF OutageInv, OutageType, Written, Outages!ToSet
  <1>3. ASSUME Outages!IsApart(e), NEW d \in Outages!Datings
        PROVE  Outages!OnItsRow(e, d)
    <2> DEFINE l == Outages!Logged(e, d)
               p == [report |-> r, event |-> l]
    <2>1. /\ e.start \in Nat /\ e.end \in Nat /\ e.start <= e.end
          /\ d[e] \in Int /\ -MaxStray <= d[e] /\ d[e] <= MaxStray
          /\ l.start = e.start + d[e] /\ l.end = e.end + d[e] /\ l.of = e
      BY LoggedIs
    <2>2. l \in Outages!Log(d)
      BY DEF Outages!Log
    <2>3. p \in Pairs(d) /\ p.report = r /\ p.event = l
      <3>1. Outages!Overlaps(r, l)
        BY <1>1, <1>2, <2>1, OutageBounds DEF Outages!Overlaps, Rows
      <3> QED  BY <1>2, <2>2, <3>1 DEF Pairs, Outages!Candidates
    <2>4. Outages!Distance(p) <= MaxStray
      BY <1>1, <2>1, <2>3, OutageBounds DEF Outages!Distance, Outages!Apart
    <2> HIDE DEF p
    <2>5. PICK q \in Outages!Owned(d) : /\ q.report = r \/ q.event = l
                                        /\ Outages!Distance(q) <= Outages!Distance(p)
      BY <2>3, OverlapIsOwned
    <2> DEFINE f == q.event.of
    <2>6. /\ q \in Pairs(d) /\ q.report \in Written /\ q.report.start \in Nat
          /\ f \in Outages!Outages(judged) /\ q.event = Outages!Logged(f, d)
          /\ Outages!Distance(q) \in Nat /\ Outages!Distance(p) \in Nat
      BY <2>3, <2>5, OwnedIs, PairIs DEF Rows
    <2>7. /\ f.start \in Nat /\ d[f] \in Int /\ -MaxStray <= d[f] /\ d[f] <= MaxStray
          /\ q.event.start = f.start + d[f]
      <3> HIDE DEF f
      <3> QED  BY <2>6, LoggedIs
    <2>8. /\ q.report.start - q.event.start <= MaxStray
          /\ q.event.start - q.report.start <= MaxStray
      <3>1. Outages!Distance(q) <= MaxStray
        BY <2>4, <2>5, <2>6, OutageBounds
      <3>2. q.event.start \in Int
        <4> HIDE DEF f
        <4> QED  BY <2>7
      <3> QED  BY <2>6, <3>1, <3>2, OutageBounds DEF Outages!Distance, Outages!Apart
    <2>9. q.event = l /\ q.report.start = e.start
      <3>1. CASE q.report = r
        <4>1. q.report.start = e.start
          BY <1>1, <3>1
        <4>2. ~(Outages!Apart(f.start, e.start) > 2 * MaxStray)
          <5> HIDE DEF f
          <5>1. /\ e.start \in Int /\ q.event.start \in Int /\ f.start \in Int /\ d[f] \in Int
                /\ -MaxStray <= d[f] /\ d[f] <= MaxStray /\ q.event.start = f.start + d[f]
                /\ e.start - q.event.start <= MaxStray /\ q.event.start - e.start <= MaxStray
            BY <2>1, <2>7, <2>8, <4>1
          <5> QED  BY <5>1, NearBoth
        <4>3. f = e
          <5> HIDE DEF f
          <5> QED  BY <1>3, <2>6, <4>2 DEF Outages!IsApart
        <4> QED  BY <2>6, <4>1, <4>3
      <3>2. CASE q.event = l
        <4>1. q.event.start = e.start + d[e] /\ q.event.start \in Int
          BY <2>1, <3>2
        <4>2. ~(Outages!Apart(q.report.start, e.start) > 2 * MaxStray)
          <5>1. /\ q.report.start \in Int /\ q.event.start \in Int /\ e.start \in Int /\ d[e] \in Int
                /\ -MaxStray <= d[e] /\ d[e] <= MaxStray /\ q.event.start = e.start + d[e]
                /\ q.report.start - q.event.start <= MaxStray
                /\ q.event.start - q.report.start <= MaxStray
            BY <2>1, <2>6, <2>8, <4>1
          <5> QED  BY <5>1, NearBoth
        <4> QED  BY <1>3, <2>6, <3>2, <4>2 DEF Outages!IsApart, Written
      <3> QED  BY <2>5, <3>1, <3>2
    <2> QED  BY <2>5, <2>9 DEF Outages!OnItsRow
  <1> QED  BY <1>1, <1>2, <1>3

(* Whatever the pings do and however the polls fail, an outage that outlasts a   *)
(* run and two polls, far enough from the next, is told from its first second,   *)
(* and on its own row, however far within its bound the dish's date of it strays *)
(* from the recorder's, where no other outage is near enough to be meant; and    *)
(* every report is shown by the event it started nearest to, or one that event   *)
(* would have it behind (isStarlinkOutage, outageStartMs, assignReports).        *)
THEOREM OutagesAreAlwaysTold == DesktopSpec => []OutagesAreTold
  <1>1. DesktopInit => OutageInv
    BY OutagesStart
  <1>2. OutageInv /\ [DesktopNext]_desktopVars => OutageInv'
    BY OutagesStep
  <1>3. OutageInv => OutagesAreTold
    BY NearestIsGiven, LongIsTold DEF OutagesAreTold
  <1> QED  BY <1>1, <1>2, <1>3, PTL DEF DesktopSpec

--------------------------------------------------------------------------------
(* The figures of a span.  Buckets are folded in turn, so that a fold is made of *)
(* the folds of its parts, and what is folded tells what has been heard.         *)

Edge(i) == BinEdges[i]

LEMMA EdgesAre ==
    /\ BinEdges \in Seq(Nat) /\ Len(BinEdges) \in Nat \ {0} /\ \A i \in 1 .. Len(BinEdges) : Edge(i) \in Nat
    /\ Edge(1) > 0 /\ \A i \in 1 .. (Len(BinEdges) - 1) : Edge(i) < Edge(i + 1)
    /\ Figures!Bins = 1 .. (Len(BinEdges) + 1)
    /\ Readable \subseteq Nat /\ Quantiles \subseteq 1 .. 99
    /\ None \notin Nat /\ None \notin Figures!Sources
  BY InstancesSuit DEF Figures!FiguresAssumption, Figures!Bins, Edge

(* The edges ascend, and they are all positive.                                  *)
LEMMA EdgesAscend ==
    /\ \A i, j \in 1 .. Len(BinEdges) : i <= j => Edge(i) <= Edge(j)
    /\ \A i \in 1 .. Len(BinEdges) : Edge(i) > 0
  <1> DEFINE G == { n \in Nat : n \in 1 .. Len(BinEdges) => \A i \in 1 .. n : Edge(i) <= Edge(n) }
  <1>1. 0 \in G
    OBVIOUS
  <1>2. ASSUME NEW n \in Nat, n \in G PROVE n + 1 \in G
    <2> SUFFICES ASSUME n + 1 \in 1 .. Len(BinEdges), NEW i \in 1 .. (n + 1)
                 PROVE  Edge(i) <= Edge(n + 1)
      OBVIOUS
    <2>1. CASE i = n + 1
      BY <2>1, EdgesAre
    <2>2. CASE i # n + 1
      <3>1. n \in 1 .. Len(BinEdges) /\ i \in 1 .. n /\ n \in 1 .. (Len(BinEdges) - 1)
        BY <2>2, EdgesAre
      <3>2. Edge(i) <= Edge(n)
        BY <1>2, <3>1
      <3>3. Edge(i) \in Nat /\ Edge(n) \in Nat /\ Edge(n + 1) \in Nat /\ Edge(n) < Edge(n + 1)
        BY <3>1, EdgesAre
      <3> QED  BY <3>2, <3>3
    <2> QED  BY <2>1, <2>2
  <1> HIDE DEF G
  <1>3. \A n \in Nat : n \in G
    BY <1>1, <1>2, CountingUp
  <1>4. ASSUME NEW i \in 1 .. Len(BinEdges), NEW j \in 1 .. Len(BinEdges), i <= j
        PROVE  Edge(i) <= Edge(j)
    <2>1. j \in G /\ i \in 1 .. j
      BY <1>3, <1>4
    <2> QED  BY <2>1 DEF G
  <1>5. ASSUME NEW i \in 1 .. Len(BinEdges) PROVE Edge(i) > 0
    <2>1. 1 \in 1 .. Len(BinEdges) /\ 1 <= i
      BY EdgesAre
    <2>2. Edge(1) <= Edge(i) /\ Edge(1) > 0 /\ Edge(1) \in Nat /\ Edge(i) \in Nat
      BY <1>4, <2>1, EdgesAre
    <2> QED  BY <2>2
  <1> QED  BY <1>4, <1>5

(* A reading is in the first bin whose end it is below.                          *)
InBin(v, i) ==
    /\ i > Len(BinEdges) \/ v < Edge(i)
    /\ \A j \in 1 .. (i - 1) : v >= Edge(j)

LEMMA BinIs ==
    ASSUME NEW v \in Nat
    PROVE  Figures!BinIndexFor(v) \in Figures!Bins /\ InBin(v, Figures!BinIndexFor(v))
  <1> DEFINE T == { i \in Figures!Bins : i > Len(BinEdges) \/ v < Edge(i) }
  <1>1. Figures!BinIndexFor(v) = CHOOSE i \in Figures!Bins : InBin(v, i)
    BY DEF Figures!BinIndexFor, InBin, Edge
  <1>2. T \in SUBSET Nat /\ Len(BinEdges) + 1 \in T
    BY EdgesAre
  <1>3. PICK i \in T : \A j \in T : i <= j
    <2> HIDE DEF T
    <2> QED  BY <1>2, LeastExists
  <1>4. InBin(v, i)
    <2>1. ASSUME NEW j \in 1 .. (i - 1) PROVE v >= Edge(j)
      <3>1. j \in Figures!Bins /\ j \notin T /\ ~(j > Len(BinEdges)) /\ j \in 1 .. Len(BinEdges)
        BY <1>3, EdgesAre
      <3>2. ~(v < Edge(j)) /\ Edge(j) \in Nat
        BY <3>1, EdgesAre
      <3> QED  BY <3>2
    <2> QED  BY <1>3, <2>1 DEF InBin
  <1> QED  BY <1>1, <1>3, <1>4

(* Above the edges it has reached and below the others.                          *)
LEMMA BinSides ==
    ASSUME NEW v \in Nat, NEW i \in 1 .. Len(BinEdges)
    PROVE  Edge(i) <= v <=> Figures!BinIndexFor(v) > i
  <1> DEFINE b == Figures!BinIndexFor(v)
  <1>1. b \in Figures!Bins /\ InBin(v, b) /\ b \in Nat /\ Edge(i) \in Nat
    <2>1. b \in Figures!Bins /\ InBin(v, b)
      BY BinIs
    <2> HIDE DEF b
    <2> QED  BY <2>1, EdgesAre
  <1> HIDE DEF b
  <1>2. ASSUME b > i PROVE Edge(i) <= v
    BY <1>1, <1>2 DEF InBin
  <1>3. ASSUME b <= i PROVE v < Edge(i)
    <2>1. b \in 1 .. Len(BinEdges) /\ v < Edge(b)
      BY <1>1, <1>3, EdgesAre DEF InBin
    <2>2. Edge(b) <= Edge(i) /\ Edge(b) \in Nat
      BY <1>3, <2>1, EdgesAscend, EdgesAre
    <2> QED  BY <1>1, <2>1, <2>2
  <1>4. v < Edge(i) => ~(Edge(i) <= v)
    BY <1>1
  <1> QED  BY <1>1, <1>2, <1>3, <1>4 DEF b

LEMMA BinsKeepOrder ==
    ASSUME NEW v \in Nat, NEW w \in Nat, v <= w
    PROVE  Figures!BinIndexFor(v) <= Figures!BinIndexFor(w)
  <1> DEFINE b == Figures!BinIndexFor(v)
             c == Figures!BinIndexFor(w)
  <1>1. b \in Figures!Bins /\ InBin(v, b) /\ c \in Figures!Bins /\ InBin(w, c)
    BY BinIs
  <1> HIDE DEF b, c
  <1>2. ~(c < b)
    <2> SUFFICES ASSUME c < b PROVE FALSE
      OBVIOUS
    <2>1. c \in 1 .. Len(BinEdges) /\ c \in 1 .. (b - 1)
      BY <1>1, EdgesAre
    <2>2. w < Edge(c) /\ v >= Edge(c) /\ Edge(c) \in Nat
      BY <1>1, <2>1, EdgesAre DEF InBin
    <2> QED  BY <2>2
  <1>3. b \in Nat /\ c \in Nat
    BY <1>1, EdgesAre
  <1>4. b <= c
    BY <1>2, <1>3
  <1> QED  BY <1>4 DEF b, c

(* What two sources amount to is a source, and it does not matter which is first *)
(* or where one begins.                                                          *)
SourceTyped(a) ==
    /\ a.count \in Nat /\ a.sum \in Nat /\ a.min \in Nat \cup {None} /\ a.max \in Nat \cup {None}
    /\ \A i \in Figures!Bins : a.bins[i] \in Nat

SourceShape(a) ==
    /\ a = [count |-> a.count, sum |-> a.sum, min |-> a.min, max |-> a.max, bins |-> a.bins]
    /\ a.bins = [i \in Figures!Bins |-> a.bins[i]]

LEMMA SourceIs ==
    ASSUME NEW a \in Figures!Sources
    PROVE  SourceTyped(a) /\ SourceShape(a)
  BY DEF Figures!Sources, SourceTyped, SourceShape

LEMMA SourceMade ==
    ASSUME NEW n \in Nat, NEW x \in Nat, NEW y \in Nat \cup {None}, NEW z \in Nat \cup {None},
           NEW f \in [Figures!Bins -> Nat]
    PROVE  [count |-> n, sum |-> x, min |-> y, max |-> z, bins |-> f] \in Figures!Sources
  BY DEF Figures!Sources

LEMMA NoSourceIs ==
    /\ Figures!NoSource.count = 0 /\ Figures!NoSource.sum = 0 /\ Figures!NoSource.min = None
    /\ Figures!NoSource.max = None /\ \A i \in Figures!Bins : Figures!NoSource.bins[i] = 0
    /\ Figures!NoSource \in Figures!Sources
  <1>1. [i \in Figures!Bins |-> 0] \in [Figures!Bins -> Nat] /\ None \in Nat \cup {None}
    OBVIOUS
  <1>2. Figures!NoSource \in Figures!Sources
    BY <1>1, SourceMade DEF Figures!NoSource
  <1> QED  BY <1>2 DEF Figures!NoSource

LEMMA ExtremesAre ==
    ASSUME NEW x \in Nat \cup {None}, NEW y \in Nat \cup {None}
    PROVE  /\ Figures!Least(x, y) \in Nat \cup {None} /\ Figures!Most(x, y) \in Nat \cup {None}
           /\ Figures!Least(x, None) = x /\ Figures!Most(x, None) = x
           /\ Figures!Least(None, x) = x /\ Figures!Most(None, x) = x
  BY DEF Figures!Least, Figures!Most

LEMMA ExtremesJoin ==
    ASSUME NEW x \in Nat \cup {None}, NEW y \in Nat \cup {None}, NEW z \in Nat \cup {None}
    PROVE  /\ Figures!Least(Figures!Least(x, y), z) = Figures!Least(x, Figures!Least(y, z))
           /\ Figures!Most(Figures!Most(x, y), z) = Figures!Most(x, Figures!Most(y, z))
  <1>1. None \notin Nat
    BY EdgesAre
  <1> QED  BY <1>1 DEF Figures!Least, Figures!Most

LEMMA SourcesAdd ==
    ASSUME NEW a \in Figures!Sources, NEW b \in Figures!Sources, NEW c \in Figures!Sources
    PROVE  /\ Figures!AddSource(a, b) \in Figures!Sources
           /\ Figures!AddSource(a, Figures!NoSource) = a
           /\ Figures!AddSource(Figures!NoSource, a) = a
           /\ Figures!AddSource(Figures!AddSource(a, b), c) = Figures!AddSource(a, Figures!AddSource(b, c))
  <1>0. SourceTyped(a) /\ SourceTyped(b) /\ SourceTyped(c) /\ SourceShape(a)
    BY SourceIs
  <1> USE DEF SourceTyped
  <1>1. ASSUME NEW s \in Figures!Sources, NEW t \in Figures!Sources
        PROVE  Figures!AddSource(s, t) \in Figures!Sources
    <2>0. SourceTyped(s) /\ SourceTyped(t)
      BY SourceIs
    <2>1. [i \in Figures!Bins |-> s.bins[i] + t.bins[i]] \in [Figures!Bins -> Nat]
      BY <2>0
    <2>2. s.count + t.count \in Nat /\ s.sum + t.sum \in Nat
      BY <2>0
    <2>3. Figures!Least(s.min, t.min) \in Nat \cup {None} /\ Figures!Most(s.max, t.max) \in Nat \cup {None}
      BY <2>0, ExtremesAre
    <2> QED  BY <2>1, <2>2, <2>3, SourceMade DEF Figures!AddSource
  <1>2. Figures!AddSource(a, Figures!NoSource) = a
    <2>1. [i \in Figures!Bins |-> a.bins[i] + Figures!NoSource.bins[i]] = [i \in Figures!Bins |-> a.bins[i]]
      BY <1>0, NoSourceIs
    <2>2. a.count + Figures!NoSource.count = a.count /\ a.sum + Figures!NoSource.sum = a.sum
      BY <1>0, NoSourceIs
    <2>3. Figures!Least(a.min, None) = a.min /\ Figures!Most(a.max, None) = a.max
      BY <1>0, ExtremesAre
    <2> QED  BY <2>1, <2>2, <2>3, <1>0, NoSourceIs DEF Figures!AddSource, SourceShape
  <1>3. Figures!AddSource(Figures!NoSource, a) = a
    <2>1. [i \in Figures!Bins |-> Figures!NoSource.bins[i] + a.bins[i]] = [i \in Figures!Bins |-> a.bins[i]]
      BY <1>0, NoSourceIs
    <2>2. Figures!NoSource.count + a.count = a.count /\ Figures!NoSource.sum + a.sum = a.sum
      BY <1>0, NoSourceIs
    <2>3. Figures!Least(None, a.min) = a.min /\ Figures!Most(None, a.max) = a.max
      BY <1>0, ExtremesAre
    <2> QED  BY <2>1, <2>2, <2>3, <1>0, NoSourceIs DEF Figures!AddSource, SourceShape
  <1>4. Figures!AddSource(Figures!AddSource(a, b), c) = Figures!AddSource(a, Figures!AddSource(b, c))
    <2>1. [i \in Figures!Bins |-> [j \in Figures!Bins |-> a.bins[j] + b.bins[j]][i] + c.bins[i]]
             = [i \in Figures!Bins |-> a.bins[i] + [j \in Figures!Bins |-> b.bins[j] + c.bins[j]][i]]
      BY <1>0
    <2>2. /\ (a.count + b.count) + c.count = a.count + (b.count + c.count)
          /\ (a.sum + b.sum) + c.sum = a.sum + (b.sum + c.sum)
      BY <1>0
    <2>3. /\ Figures!Least(Figures!Least(a.min, b.min), c.min) = Figures!Least(a.min, Figures!Least(b.min, c.min))
          /\ Figures!Most(Figures!Most(a.max, b.max), c.max) = Figures!Most(a.max, Figures!Most(b.max, c.max))
      <3>1. a.min \in Nat \cup {None} /\ b.min \in Nat \cup {None} /\ c.min \in Nat \cup {None}
        BY <1>0
      <3>2. a.max \in Nat \cup {None} /\ b.max \in Nat \cup {None} /\ c.max \in Nat \cup {None}
        BY <1>0
      <3>3. Figures!Least(Figures!Least(a.min, b.min), c.min) = Figures!Least(a.min, Figures!Least(b.min, c.min))
        BY ONLY <3>1, ExtremesJoin
      <3>4. Figures!Most(Figures!Most(a.max, b.max), c.max) = Figures!Most(a.max, Figures!Most(b.max, c.max))
        BY ONLY <3>2, ExtremesJoin
      <3> QED  BY <3>3, <3>4
    <2> QED  BY <2>1, <2>2, <2>3 DEF Figures!AddSource
  <1> QED  BY <1>1, <1>2, <1>3, <1>4

(* A reading added to a part is added to the whole.                              *)
LEMMA ReadingAdds ==
    ASSUME NEW a \in Figures!Sources, NEW b \in Figures!Sources, NEW v \in Nat
    PROVE  /\ Figures!AddReading(a, v) \in Figures!Sources
           /\ Figures!AddSource(a, Figures!AddReading(b, v)) = Figures!AddReading(Figures!AddSource(a, b), v)
  <1>0. SourceTyped(a) /\ SourceTyped(b) /\ SourceShape(b)
    BY SourceIs
  <1> USE DEF SourceTyped
  <1> DEFINE k == Figures!BinIndexFor(v)
  <1>1. k \in Figures!Bins
    BY BinIs
  <1> HIDE DEF k
  <1>2. Figures!AddReading(a, v) \in Figures!Sources
    <2>1. CASE v = 0
      BY <2>1 DEF Figures!AddReading
    <2>2. CASE v # 0
      <3>1. [a.bins EXCEPT ![k] = @ + 1] \in [Figures!Bins -> Nat]
        BY <1>1 DEF Figures!Sources
      <3>2. /\ a.count + 1 \in Nat /\ a.sum + v \in Nat
            /\ Figures!Least(a.min, v) \in Nat \cup {None} /\ Figures!Most(a.max, v) \in Nat \cup {None}
        BY <1>0, ExtremesAre
      <3> QED  BY <2>2, <3>1, <3>2, SourceMade DEF Figures!AddReading, k
    <2> QED  BY <2>1, <2>2
  <1>3. CASE v = 0
    BY <1>3 DEF Figures!AddReading
  <1>4. CASE v # 0
    <2>1. [i \in Figures!Bins |-> a.bins[i] + [b.bins EXCEPT ![k] = @ + 1][i]]
             = [[i \in Figures!Bins |-> a.bins[i] + b.bins[i]] EXCEPT ![k] = @ + 1]
      <3>1. /\ \A i \in Figures!Bins : a.bins[i] \in Nat /\ b.bins[i] \in Nat
            /\ b.bins = [i \in Figures!Bins |-> b.bins[i]]
        BY <1>0 DEF SourceShape
      <3>2. \A i \in Figures!Bins : [b.bins EXCEPT ![k] = @ + 1][i] = IF i = k THEN b.bins[i] + 1 ELSE b.bins[i]
        BY <1>1, <3>1
      <3>3. \A i \in Figures!Bins : a.bins[i] + [b.bins EXCEPT ![k] = @ + 1][i]
                                       = IF i = k THEN (a.bins[i] + b.bins[i]) + 1 ELSE a.bins[i] + b.bins[i]
        BY <3>1, <3>2
      <3> QED  BY <1>1, <3>3
    <2>2. /\ Figures!Least(a.min, Figures!Least(b.min, v)) = Figures!Least(Figures!Least(a.min, b.min), v)
          /\ Figures!Most(a.max, Figures!Most(b.max, v)) = Figures!Most(Figures!Most(a.max, b.max), v)
      <3>1. a.min \in Nat \cup {None} /\ b.min \in Nat \cup {None} /\ v \in Nat \cup {None}
        BY <1>0
      <3>2. a.max \in Nat \cup {None} /\ b.max \in Nat \cup {None} /\ v \in Nat \cup {None}
        BY <1>0
      <3>3. Figures!Least(Figures!Least(a.min, b.min), v) = Figures!Least(a.min, Figures!Least(b.min, v))
        BY ONLY <3>1, ExtremesJoin
      <3>4. Figures!Most(Figures!Most(a.max, b.max), v) = Figures!Most(a.max, Figures!Most(b.max, v))
        BY ONLY <3>2, ExtremesJoin
      <3> QED  BY <3>3, <3>4
    <2>3. Figures!AddReading(b, v) =
             [count |-> b.count + 1, sum |-> b.sum + v, min |-> Figures!Least(b.min, v),
              max |-> Figures!Most(b.max, v), bins |-> [b.bins EXCEPT ![k] = @ + 1]]
      BY <1>4 DEF Figures!AddReading, k
    <2> DEFINE s == Figures!AddSource(a, b)
    <2>4. s = [count |-> a.count + b.count, sum |-> a.sum + b.sum,
               min |-> Figures!Least(a.min, b.min), max |-> Figures!Most(a.max, b.max),
               bins |-> [i \in Figures!Bins |-> a.bins[i] + b.bins[i]]]
      BY DEF Figures!AddSource
    <2>5. Figures!AddReading(s, v) =
             [count |-> s.count + 1, sum |-> s.sum + v, min |-> Figures!Least(s.min, v),
              max |-> Figures!Most(s.max, v), bins |-> [s.bins EXCEPT ![k] = @ + 1]]
      BY <1>4 DEF Figures!AddReading, k
    <2>6. Figures!AddSource(a, Figures!AddReading(b, v)) =
             [count |-> a.count + (b.count + 1), sum |-> a.sum + (b.sum + v),
              min |-> Figures!Least(a.min, Figures!Least(b.min, v)),
              max |-> Figures!Most(a.max, Figures!Most(b.max, v)),
              bins |-> [i \in Figures!Bins |-> a.bins[i] + [b.bins EXCEPT ![k] = @ + 1][i]]]
      BY <2>3 DEF Figures!AddSource
    <2>7. a.count + (b.count + 1) = (a.count + b.count) + 1 /\ a.sum + (b.sum + v) = (a.sum + b.sum) + v
      BY <1>0
    <2> DEFINE m == Figures!Least(Figures!Least(a.min, b.min), v)
               n == Figures!Most(Figures!Most(a.max, b.max), v)
               f == [[i \in Figures!Bins |-> a.bins[i] + b.bins[i]] EXCEPT ![k] = @ + 1]
               c == (a.count + b.count) + 1
               x == (a.sum + b.sum) + v
    <2>8. /\ s.count + 1 = c /\ s.sum + v = x
          /\ Figures!Least(s.min, v) = m /\ Figures!Most(s.max, v) = n
          /\ [s.bins EXCEPT ![k] = @ + 1] = f
      <3> HIDE DEF s
      <3>1. /\ s.count = a.count + b.count /\ s.sum = a.sum + b.sum
            /\ s.min = Figures!Least(a.min, b.min) /\ s.max = Figures!Most(a.max, b.max)
            /\ s.bins = [i \in Figures!Bins |-> a.bins[i] + b.bins[i]]
        BY ONLY <2>4
      <3> QED  BY ONLY <3>1
    <2>9. /\ a.count + (b.count + 1) = c /\ a.sum + (b.sum + v) = x
          /\ Figures!Least(a.min, Figures!Least(b.min, v)) = m
          /\ Figures!Most(a.max, Figures!Most(b.max, v)) = n
          /\ [i \in Figures!Bins |-> a.bins[i] + [b.bins EXCEPT ![k] = @ + 1][i]] = f
      BY ONLY <2>1, <2>2, <2>7
    <2> DEFINE sums == [count |-> c, sum |-> x, min |-> m, max |-> n, bins |-> f]
    <2>10. Figures!AddReading(s, v) = sums
      <3> HIDE DEF s, c, x, m, n, f
      <3> QED  BY ONLY <2>5, <2>8
    <2>11. Figures!AddSource(a, Figures!AddReading(b, v)) = sums
      <3> DEFINE m1 == Figures!Least(a.min, Figures!Least(b.min, v))
                 n1 == Figures!Most(a.max, Figures!Most(b.max, v))
                 f1 == [i \in Figures!Bins |-> a.bins[i] + [b.bins EXCEPT ![k] = @ + 1][i]]
                 c1 == a.count + (b.count + 1)
                 x1 == a.sum + (b.sum + v)
      <3>1. Figures!AddSource(a, Figures!AddReading(b, v)) =
               [count |-> c1, sum |-> x1, min |-> m1, max |-> n1, bins |-> f1]
        BY ONLY <2>6
      <3>2. c1 = c /\ x1 = x /\ m1 = m /\ n1 = n /\ f1 = f
        BY ONLY <2>9
      <3> HIDE DEF s, c, x, m, n, f, c1, x1, m1, n1, f1
      <3> QED  BY ONLY <3>1, <3>2
    <2> HIDE DEF m, n, f, c, x, sums
    <2> QED  BY <1>2, <2>10, <2>11 DEF s
  <1> QED  BY <1>2, <1>3, <1>4

(* The recursion by which buckets are folded.                                    *)
Folds(u, s, n) ==
    u = [k \in 0 .. n |-> IF k = 0 THEN Figures!NoSource ELSE Figures!AddSource(u[k - 1], s[k])]

FoldOf(s) == CHOOSE u : Folds(u, s, Len(s))

LEMMA FoldedIs == ASSUME NEW s PROVE Figures!Folded(s) = FoldOf(s)[Len(s)]
  BY DEF Figures!Folded, FoldOf, Folds

LEMMA FoldExists == ASSUME NEW s PROVE \A n \in Nat : \E u : Folds(u, s, n)
  <1> DEFINE G == { n \in Nat : \E u : Folds(u, s, n) }
  <1>1. 0 \in G
    <2> DEFINE u == [k \in 0 .. 0 |-> Figures!NoSource]
    <2>1. u = [k \in 0 .. 0 |-> IF k = 0 THEN Figures!NoSource ELSE Figures!AddSource(u[k - 1], s[k])]
      OBVIOUS
    <2> QED  BY <2>1 DEF Folds
  <1>2. ASSUME NEW n \in Nat, n \in G PROVE n + 1 \in G
    <2>1. PICK u : Folds(u, s, n)
      BY <1>2
    <2> DEFINE w == [k \in 0 .. (n + 1) |-> IF k <= n THEN u[k] ELSE Figures!AddSource(u[n], s[n + 1])]
    <2>2. \A k \in 0 .. n : w[k] = u[k]
      OBVIOUS
    <2>3. \A k \in 0 .. n : u[k] = IF k = 0 THEN Figures!NoSource ELSE Figures!AddSource(u[k - 1], s[k])
      <3> DEFINE f == [k \in 0 .. n |-> IF k = 0 THEN Figures!NoSource ELSE Figures!AddSource(u[k - 1], s[k])]
      <3>1. u = f
        BY <2>1 DEF Folds
      <3>2. \A k \in 0 .. n : f[k] = IF k = 0 THEN Figures!NoSource ELSE Figures!AddSource(u[k - 1], s[k])
        OBVIOUS
      <3> QED  BY <3>1, <3>2
    <2>4. w[n + 1] = Figures!AddSource(u[n], s[n + 1])
      OBVIOUS
    <2>5. w = [k \in 0 .. (n + 1) |-> w[k]]
      OBVIOUS
    <2> HIDE DEF w
    <2>6. ASSUME NEW k \in 0 .. (n + 1)
          PROVE  w[k] = IF k = 0 THEN Figures!NoSource ELSE Figures!AddSource(w[k - 1], s[k])
      <3>1. CASE k = n + 1
        BY <2>2, <2>4, <3>1
      <3>2. CASE k # n + 1
        <4>1. k \in 0 .. n /\ (k # 0 => k - 1 \in 0 .. n)
          BY <3>2
        <4> QED  BY <2>2, <2>3, <4>1
      <3> QED  BY <3>1, <3>2
    <2>7. Folds(w, s, n + 1)
      BY <2>5, <2>6 DEF Folds
    <2> QED  BY <2>7
  <1> HIDE DEF G
  <1>3. \A n \in Nat : n \in G
    BY <1>1, <1>2, CountingUp
  <1> QED  BY <1>3 DEF G

LEMMA FoldSteps ==
    ASSUME NEW s, Len(s) \in Nat
    PROVE  /\ FoldOf(s)[0] = Figures!NoSource
           /\ \A k \in 1 .. Len(s) : FoldOf(s)[k] = Figures!AddSource(FoldOf(s)[k - 1], s[k])
  <1> DEFINE u == FoldOf(s)
             f == [k \in 0 .. Len(s) |-> IF k = 0 THEN Figures!NoSource ELSE Figures!AddSource(u[k - 1], s[k])]
  <1>1. Folds(u, s, Len(s))
    BY FoldExists DEF FoldOf
  <1> HIDE DEF u
  <1>2. u = f
    BY <1>1 DEF Folds
  <1>3. \A k \in 0 .. Len(s) : f[k] = IF k = 0 THEN Figures!NoSource ELSE Figures!AddSource(u[k - 1], s[k])
    OBVIOUS
  <1> HIDE DEF f
  <1>4. \A k \in 0 .. Len(s) : u[k] = IF k = 0 THEN Figures!NoSource ELSE Figures!AddSource(u[k - 1], s[k])
    BY <1>2, <1>3
  <1> QED  BY <1>4 DEF u

(* A fold of sources is a source, and depends on what it has come by alone.      *)
LEMMA FoldIsASource ==
    ASSUME NEW s \in Seq(Figures!Sources)
    PROVE  \A k \in 0 .. Len(s) : FoldOf(s)[k] \in Figures!Sources
  <1> DEFINE G == { n \in Nat : n <= Len(s) => FoldOf(s)[n] \in Figures!Sources }
  <1>1. 0 \in G
    BY NoSourceIs, FoldSteps
  <1>2. ASSUME NEW n \in Nat, n \in G PROVE n + 1 \in G
    <2> SUFFICES ASSUME n + 1 <= Len(s) PROVE FoldOf(s)[n + 1] \in Figures!Sources
      OBVIOUS
    <2>1. n + 1 \in 1 .. Len(s) /\ (n + 1) - 1 = n
      OBVIOUS
    <2>2. s[n + 1] \in Figures!Sources /\ FoldOf(s)[n] \in Figures!Sources
      BY <1>2, <2>1
    <2>3. FoldOf(s)[n + 1] = Figures!AddSource(FoldOf(s)[n], s[n + 1])
      BY <2>1, FoldSteps
    <2> QED  BY <2>2, <2>3, SourcesAdd
  <1> HIDE DEF G
  <1>3. \A n \in Nat : n \in G
    BY <1>1, <1>2, CountingUp
  <1> QED  BY <1>3 DEF G

LEMMA FoldOfPrefix ==
    ASSUME NEW s \in Seq(Figures!Sources), NEW t \in Seq(Figures!Sources), NEW m \in Nat,
           m <= Len(s), m <= Len(t), \A k \in 1 .. m : s[k] = t[k]
    PROVE  FoldOf(s)[m] = FoldOf(t)[m]
  <1> DEFINE G == { n \in Nat : n <= m => FoldOf(s)[n] = FoldOf(t)[n] }
  <1>1. 0 \in G
    BY FoldSteps
  <1>2. ASSUME NEW n \in Nat, n \in G PROVE n + 1 \in G
    <2> SUFFICES ASSUME n + 1 <= m PROVE FoldOf(s)[n + 1] = FoldOf(t)[n + 1]
      OBVIOUS
    <2>1. /\ n + 1 \in 1 .. Len(s) /\ n + 1 \in 1 .. Len(t) /\ (n + 1) - 1 = n
          /\ s[n + 1] = t[n + 1] /\ FoldOf(s)[n] = FoldOf(t)[n]
      BY <1>2
    <2> QED  BY <2>1, FoldSteps
  <1> HIDE DEF G
  <1>3. m \in G
    BY <1>1, <1>2, CountingUp
  <1> QED  BY <1>3 DEF G

LEMMA FoldOfJoined ==
    ASSUME NEW s \in Seq(Figures!Sources), NEW t \in Seq(Figures!Sources)
    PROVE  /\ Figures!Folded(s \o t) = Figures!AddSource(Figures!Folded(s), Figures!Folded(t))
           /\ Figures!Folded(s) \in Figures!Sources
  <1> DEFINE st == s \o t
             G == { n \in Nat : n <= Len(t) =>
                       FoldOf(st)[Len(s) + n] = Figures!AddSource(Figures!Folded(s), FoldOf(t)[n]) }
  <1>1. /\ st \in Seq(Figures!Sources) /\ Len(st) = Len(s) + Len(t) /\ Len(s) \in Nat /\ Len(t) \in Nat
        /\ \A k \in 1 .. Len(s) : st[k] = s[k]
        /\ \A k \in 1 .. Len(t) : st[Len(s) + k] = t[k]
    OBVIOUS
  <1>2. Figures!Folded(s) = FoldOf(s)[Len(s)] /\ Figures!Folded(s) \in Figures!Sources
    BY <1>1, FoldedIs, FoldIsASource
  <1> HIDE DEF st
  <1> DEFINE fs == Figures!Folded(s)
  <1>3. 0 \in G
    <2>1. FoldOf(st)[Len(s)] = FoldOf(s)[Len(s)]
      <3>1. Len(s) <= Len(st) /\ Len(s) <= Len(s)
        BY <1>1
      <3> QED  BY <1>1, <3>1, FoldOfPrefix
    <2>2. FoldOf(t)[0] = Figures!NoSource
      BY <1>1, FoldSteps
    <2>3. Figures!AddSource(Figures!Folded(s), Figures!NoSource) = Figures!Folded(s)
      BY <1>2, SourcesAdd
    <2> QED  BY <1>1, <1>2, <2>1, <2>2, <2>3
  <1>4. ASSUME NEW n \in Nat, n \in G PROVE n + 1 \in G
    <2> SUFFICES ASSUME n + 1 <= Len(t)
                 PROVE  FoldOf(st)[Len(s) + (n + 1)] = Figures!AddSource(Figures!Folded(s), FoldOf(t)[n + 1])
      OBVIOUS
    <2>1. /\ n + 1 \in 1 .. Len(t) /\ n \in 0 .. Len(t) /\ (n + 1) - 1 = n
          /\ Len(s) + (n + 1) \in 1 .. Len(st) /\ (Len(s) + (n + 1)) - 1 = Len(s) + n
      BY <1>1
    <2>2. FoldOf(st)[Len(s) + (n + 1)] = Figures!AddSource(FoldOf(st)[Len(s) + n], t[n + 1])
      <3> DEFINE k == Len(s) + (n + 1)
      <3>1. k \in 1 .. Len(st) /\ k - 1 = Len(s) + n /\ st[k] = t[n + 1] /\ Len(st) \in Nat
        BY <1>1, <2>1
      <3> HIDE DEF k
      <3>2. FoldOf(st)[k] = Figures!AddSource(FoldOf(st)[k - 1], st[k])
        BY <3>1, FoldSteps
      <3>3. FoldOf(st)[k] = Figures!AddSource(FoldOf(st)[Len(s) + n], t[n + 1])
        BY <3>1, <3>2
      <3> QED  BY <3>3 DEF k
    <2>3. FoldOf(st)[Len(s) + n] = Figures!AddSource(Figures!Folded(s), FoldOf(t)[n])
      BY <1>4, <2>1
    <2>4. FoldOf(t)[n + 1] = Figures!AddSource(FoldOf(t)[n], t[n + 1])
      BY <1>1, <2>1, FoldSteps
    <2>5. FoldOf(t)[n] \in Figures!Sources /\ t[n + 1] \in Figures!Sources
      BY <2>1, FoldIsASource
    <2>6. Figures!AddSource(Figures!AddSource(fs, FoldOf(t)[n]), t[n + 1])
             = Figures!AddSource(fs, Figures!AddSource(FoldOf(t)[n], t[n + 1]))
      <3>1. fs \in Figures!Sources
        BY <1>2
      <3> HIDE DEF fs
      <3> QED  BY <3>1, <2>5, SourcesAdd
    <2> QED  BY <2>2, <2>3, <2>4, <2>6
  <1> HIDE DEF G
  <1>5. Len(t) \in G
    BY <1>1, <1>3, <1>4, CountingUp
  <1>6. Figures!Folded(st) = FoldOf(st)[Len(s) + Len(t)] /\ Figures!Folded(t) = FoldOf(t)[Len(t)]
    BY <1>1, FoldedIs
  <1>7. FoldOf(st)[Len(s) + Len(t)] = Figures!AddSource(Figures!Folded(s), FoldOf(t)[Len(t)])
    BY <1>1, <1>5 DEF G
  <1>8. Figures!Folded(st) = Figures!AddSource(Figures!Folded(s), Figures!Folded(t))
    BY <1>6, <1>7
  <1> QED  BY <1>2, <1>8 DEF st

LEMMA FoldOfOne ==
    ASSUME NEW x \in Figures!Sources
    PROVE  Figures!Folded(<<x>>) = x
  <1>1. Len(<<x>>) = 1 /\ <<x>>[1] = x /\ 1 - 1 = 0
    OBVIOUS
  <1>2. FoldOf(<<x>>)[1] = Figures!AddSource(FoldOf(<<x>>)[0], x) /\ FoldOf(<<x>>)[0] = Figures!NoSource
    <2> DEFINE s == <<x>>
    <2>1. Len(s) = 1 /\ s[1] = x
      BY <1>1
    <2> HIDE DEF s
    <2>2. FoldOf(s)[1] = Figures!AddSource(FoldOf(s)[0], x) /\ FoldOf(s)[0] = Figures!NoSource
      BY <2>1, FoldSteps
    <2> QED  BY <2>2 DEF s
  <1>3. Figures!AddSource(Figures!NoSource, x) = x
    BY SourcesAdd
  <1> QED  BY <1>1, <1>2, <1>3, FoldedIs

(* What a bucket tells of the seconds heard: how many have a reading, what these *)
(* come to, their extremes and how many fell in each bin.                        *)
HeardIn(h)   == { i \in 1 .. Len(h) : h[i] > 0 }
FellIn(h, b) == { i \in HeardIn(h) : Figures!BinIndexFor(h[i]) = b }

Extremes(a, h) ==
    /\ HeardIn(h) = {} => a.min = None /\ a.max = None
    /\ HeardIn(h) # {} => /\ \E i \in HeardIn(h) : a.min = h[i] /\ \A j \in HeardIn(h) : h[i] <= h[j]
                          /\ \E i \in HeardIn(h) : a.max = h[i] /\ \A j \in HeardIn(h) : h[i] >= h[j]

Tells(a, h) ==
    /\ a.count = Cardinality(HeardIn(h)) /\ a.sum = SumFunctionOnSet(h, HeardIn(h))
    /\ \A b \in Figures!Bins : a.bins[b] = Cardinality(FellIn(h, b))
    /\ Extremes(a, h)

FiguresType ==
    /\ minutes \in Seq(Figures!Sources) /\ Len(minutes) > 0
    /\ month \in Figures!Sources \cup {None} /\ heard \in Seq(Readable)

Mixture == Figures!Folded(Figures!Months \o minutes)

FiguresInv == FiguresType /\ Tells(Mixture, heard)

LEMMA HeardAre ==
    ASSUME NEW h \in Seq(Readable)
    PROVE  /\ IsFiniteSet(HeardIn(h)) /\ HeardIn(h) \subseteq 1 .. Len(h)
           /\ \A i \in HeardIn(h) : h[i] \in Nat /\ h[i] > 0 /\ h[i] \in Readable
  <1>1. IsFiniteSet(1 .. Len(h)) /\ HeardIn(h) \subseteq 1 .. Len(h)
    BY FS_Interval DEF HeardIn
  <1>2. (\A i \in 1 .. Len(h) : h[i] \in Readable) /\ Readable \subseteq Nat
    BY EdgesAre
  <1> QED  BY <1>1, <1>2, FS_Subset DEF HeardIn

(* The archive's row and the minutes kept make up the whole.                     *)
LEMMA WholeIs ==
    ASSUME NEW m \in Figures!Sources \cup {None}, NEW s \in Seq(Figures!Sources)
    PROVE  /\ Figures!Folded(s) \in Figures!Sources
           /\ Figures!Folded((IF m = None THEN <<>> ELSE <<m>>) \o s)
                 = IF m = None THEN Figures!Folded(s) ELSE Figures!AddSource(m, Figures!Folded(s))
  <1>1. Figures!Folded(s) \in Figures!Sources
    BY FoldOfJoined
  <1>2. CASE m = None
    <2>1. <<>> \o s = s
      OBVIOUS
    <2> QED  BY <1>1, <1>2, <2>1
  <1>3. CASE m # None
    <2>1. m \in Figures!Sources /\ <<m>> \in Seq(Figures!Sources)
      BY <1>3
    <2>2. Figures!Folded(<<m>> \o s) = Figures!AddSource(Figures!Folded(<<m>>), Figures!Folded(s))
      BY <2>1, FoldOfJoined
    <2>3. Figures!Folded(<<m>>) = m
      BY <2>1, FoldOfOne
    <2> QED  BY <1>1, <1>3, <2>2, <2>3
  <1> QED  BY <1>2, <1>3

LEMMA LastIsJoined ==
    ASSUME NEW s \in Seq(Figures!Sources), NEW x \in Figures!Sources
    PROVE  /\ Append(s, x) \in Seq(Figures!Sources)
           /\ Figures!Folded(Append(s, x)) = Figures!AddSource(Figures!Folded(s), x)
  <1>1. Append(s, x) = s \o <<x>> /\ <<x>> \in Seq(Figures!Sources) /\ Append(s, x) \in Seq(Figures!Sources)
    OBVIOUS
  <1> QED  BY <1>1, FoldOfJoined, FoldOfOne

LEMMA MixtureIs ==
    /\ minutes \in Seq(Figures!Sources) /\ month \in Figures!Sources \cup {None} =>
          /\ Figures!Folded(minutes) \in Figures!Sources
          /\ Mixture = IF month = None THEN Figures!Folded(minutes)
                       ELSE Figures!AddSource(month, Figures!Folded(minutes))
    /\ minutes' \in Seq(Figures!Sources) /\ month' \in Figures!Sources \cup {None} =>
          Mixture' = IF month' = None THEN Figures!Folded(minutes')
                     ELSE Figures!AddSource(month', Figures!Folded(minutes'))
  BY WholeIs DEF Mixture, Figures!Months

LEMMA HeadIs ==
    ASSUME NEW S, NEW s \in Seq(S), NEW k \in 0 .. Len(s)
    PROVE  SubSeq(s, 1, k) \in Seq(S) /\ Len(SubSeq(s, 1, k)) = k /\ \A i \in 1 .. k : SubSeq(s, 1, k)[i] = s[i]
  OBVIOUS

LEMMA JoinIs ==
    ASSUME NEW S, NEW h \in Seq(S), NEW t \in Seq(S)
    PROVE  /\ h \o t \in Seq(S) /\ Len(h \o t) = Len(h) + Len(t)
           /\ \A i \in 1 .. Len(h) : (h \o t)[i] = h[i]
           /\ \A i \in 1 .. Len(t) : (h \o t)[Len(h) + i] = t[i]
  OBVIOUS

(* A reading put in the open minute is put in the whole.                         *)
LEMMA OpenMinuteAdds ==
    ASSUME NEW s \in Seq(Figures!Sources), Len(s) > 0, NEW v \in Nat
    PROVE  LET t == [s EXCEPT ![Len(s)] = Figures!AddReading(@, v)]
           IN  /\ t \in Seq(Figures!Sources) /\ Len(t) = Len(s)
               /\ Figures!Folded(t) = Figures!AddReading(Figures!Folded(s), v)
  <1> DEFINE front == SubSeq(s, 1, Len(s) - 1)
             x == s[Len(s)]
             y == Figures!AddReading(x, v)
             t == [s EXCEPT ![Len(s)] = y]
  <1>1. x \in Figures!Sources /\ Len(s) \in 1 .. Len(s) /\ Len(s) \in Nat
    OBVIOUS
  <1>2. y \in Figures!Sources
    BY <1>1, ReadingAdds
  <1> HIDE DEF y
  <1>3. t \in Seq(Figures!Sources) /\ Len(t) = Len(s)
    BY <1>2
  <1>4. front \in Seq(Figures!Sources) /\ Len(front) = Len(s) - 1 /\ \A i \in 1 .. (Len(s) - 1) : front[i] = s[i]
    <2> DEFINE k == Len(s) - 1
    <2>1. k \in 0 .. Len(s)
      BY <1>1
    <2>2. front = SubSeq(s, 1, k)
      OBVIOUS
    <2> HIDE DEF k, front
    <2>3. /\ SubSeq(s, 1, k) \in Seq(Figures!Sources) /\ Len(SubSeq(s, 1, k)) = k
          /\ \A i \in 1 .. k : SubSeq(s, 1, k)[i] = s[i]
      BY <2>1, HeadIs
    <2> QED  BY <2>2, <2>3 DEF k
  <1> HIDE DEF front
  <1>5. s = Append(front, x)
    BY <1>1, <1>4
  <1>6. t = Append(front, y)
    <2>1. Append(front, y) \in Seq(Figures!Sources) /\ Len(Append(front, y)) = Len(s)
      BY <1>1, <1>2, <1>4
    <2>2. ASSUME NEW i \in 1 .. Len(s) PROVE t[i] = Append(front, y)[i]
      <3>1. CASE i = Len(s)
        BY <1>1, <1>4, <3>1
      <3>2. CASE i # Len(s)
        <4>1. i \in 1 .. (Len(s) - 1)
          BY <1>1, <3>2
        <4> QED  BY <1>1, <1>2, <1>4, <3>2, <4>1
      <3> QED  BY <3>1, <3>2
    <2> HIDE DEF t
    <2> QED  BY <1>3, <2>1, <2>2
  <1> HIDE DEF t, x
  <1>7. Figures!Folded(s) = Figures!AddSource(Figures!Folded(front), x)
    BY <1>1, <1>4, <1>5, LastIsJoined
  <1>8. Figures!Folded(t) = Figures!AddSource(Figures!Folded(front), y)
    BY <1>2, <1>4, <1>6, LastIsJoined
  <1>9. Figures!Folded(front) \in Figures!Sources
    BY <1>4, FoldOfJoined
  <1>10. Figures!AddSource(Figures!Folded(front), Figures!AddReading(x, v))
            = Figures!AddReading(Figures!AddSource(Figures!Folded(front), x), v)
    BY <1>1, <1>9, ReadingAdds
  <1> QED  BY <1>3, <1>7, <1>8, <1>10 DEF t, x, y

(* A minute with no reading yet changes nothing, nor does folding minutes away.  *)
LEMMA NewMinuteAddsNothing ==
    ASSUME NEW s \in Seq(Figures!Sources)
    PROVE  /\ Append(s, Figures!NoSource) \in Seq(Figures!Sources)
           /\ Figures!Folded(Append(s, Figures!NoSource)) = Figures!Folded(s)
  <1>1. Figures!Folded(s) \in Figures!Sources /\ Figures!NoSource \in Figures!Sources
    BY FoldOfJoined, NoSourceIs
  <1> QED  BY <1>1, LastIsJoined, SourcesAdd

LEMMA FoldParts ==
    ASSUME NEW s \in Seq(Figures!Sources), NEW n \in 1 .. (Len(s) - 1)
    PROVE  /\ SubSeq(s, 1, n) \in Seq(Figures!Sources)
           /\ SubSeq(s, n + 1, Len(s)) \in Seq(Figures!Sources) /\ Len(SubSeq(s, n + 1, Len(s))) > 0
           /\ Figures!Folded(s) = Figures!AddSource(Figures!Folded(SubSeq(s, 1, n)),
                                                    Figures!Folded(SubSeq(s, n + 1, Len(s))))
  <1> DEFINE h == SubSeq(s, 1, n)
             t == SubSeq(s, n + 1, Len(s))
  <1>1. /\ h \in Seq(Figures!Sources) /\ Len(h) = n /\ \A i \in 1 .. n : h[i] = s[i]
        /\ n \in Nat /\ n < Len(s) /\ Len(s) \in Nat
    OBVIOUS
  <1>2. /\ t \in Seq(Figures!Sources) /\ Len(t) = Len(s) - n /\ Len(t) > 0
        /\ \A i \in 1 .. (Len(s) - n) : t[i] = s[n + i]
    OBVIOUS
  <1> HIDE DEF h, t
  <1>3. s = h \o t
    <2>0. /\ h \o t \in Seq(Figures!Sources) /\ Len(h \o t) = Len(h) + Len(t)
          /\ \A i \in 1 .. Len(h) : (h \o t)[i] = h[i]
          /\ \A i \in 1 .. Len(t) : (h \o t)[Len(h) + i] = t[i]
      <3>1. h \in Seq(Figures!Sources) /\ t \in Seq(Figures!Sources)
        BY <1>1, <1>2
      <3> QED  BY ONLY <3>1, JoinIs
    <2> DEFINE ht == h \o t
    <2>1. ht \in Seq(Figures!Sources) /\ Len(ht) = Len(s)
      BY <1>1, <1>2, <2>0
    <2>2. ASSUME NEW i \in 1 .. Len(s) PROVE ht[i] = s[i]
      <3>1. CASE i <= n
        <4>1. i \in 1 .. n
          BY <1>1, <3>1
        <4> QED  BY <1>1, <2>0, <4>1
      <3>2. CASE i > n
        <4>1. i - n \in 1 .. (Len(s) - n) /\ n + (i - n) = i
          BY <1>1, <3>2
        <4>2. ht[Len(h) + (i - n)] = t[i - n] /\ t[i - n] = s[n + (i - n)]
          BY <1>2, <2>0, <4>1
        <4> HIDE DEF ht
        <4> HIDE DEF ht
        <4>3. Len(h) + (i - n) = i
          BY <1>1, <4>1
        <4> QED  BY <4>1, <4>2, <4>3
      <3>3. i <= n \/ i > n
        BY <1>1
      <3> HIDE DEF ht
      <3> QED  BY <3>1, <3>2, <3>3
    <2> HIDE DEF ht
    <2>3. s = ht
      BY <2>1, <2>2
    <2> QED  BY <2>3 DEF ht
  <1> QED  BY <1>1, <1>2, <1>3, FoldOfJoined DEF h, t

(* A reading more is one more in its bin, and the whole still tells it all.      *)
LEMMA ReadingIsTold ==
    ASSUME NEW h \in Seq(Readable), NEW v \in Readable, NEW a \in Figures!Sources, Tells(a, h)
    PROVE  Tells(Figures!AddReading(a, v), Append(h, v))
  <1> DEFINE g == Append(h, v)
             k == Len(h) + 1
             R == HeardIn(h)
             Q == HeardIn(g)
             c == Figures!BinIndexFor(v)
             s == Figures!AddReading(a, v)
  <1>1. /\ g \in Seq(Readable) /\ Len(g) = k /\ g[k] = v /\ \A i \in 1 .. Len(h) : g[i] = h[i]
        /\ k \in Nat /\ k \notin 1 .. Len(h) /\ 1 .. k = (1 .. Len(h)) \cup {k} /\ v \in Nat
    <2>1. v \in Nat
      BY EdgesAre
    <2>2. Len(h) \in Nat
      OBVIOUS
    <2>3. g \in Seq(Readable) /\ Len(g) = k /\ g[k] = v /\ \A i \in 1 .. Len(h) : g[i] = h[i]
      OBVIOUS
    <2> QED  BY <2>1, <2>2, <2>3
  <1>2. /\ IsFiniteSet(R) /\ R \subseteq 1 .. Len(h) /\ \A i \in R : h[i] \in Nat /\ g[i] = h[i] /\ i # k
        /\ Cardinality(R) \in Nat
    BY <1>1, HeardAre, FS_CardinalityType
  <1>3. Q = IF v > 0 THEN R \cup {k} ELSE R
    <2> HIDE DEF g, k
    <2> QED  BY <1>1 DEF HeardIn
  <1>4. SourceTyped(a) /\ c \in Figures!Bins
    BY <1>1, SourceIs, BinIs
  <1> HIDE DEF g, k, Q, R
  <1>5. \A i \in R : g[i] \in Int /\ h[i] \in Int /\ g[i] = h[i]
    BY <1>2
  <1>6. SumFunctionOnSet(g, R) = SumFunctionOnSet(h, R) /\ SumFunctionOnSet(h, R) \in Int
    BY <1>2, <1>5, SumsCompare, SumIsInt
  <1>7. CASE v = 0
    <2>1. Q = R /\ s = a
      BY <1>3, <1>7 DEF Figures!AddReading
    <2>2. ASSUME NEW b \in Figures!Bins PROVE FellIn(g, b) = FellIn(h, b)
      BY <1>2, <2>1 DEF FellIn, Q, R
    <2>3. Extremes(a, g)
      BY <1>2, <2>1 DEF Tells, Extremes, Q, R
    <2>4. Tells(a, g)
      BY <1>6, <2>1, <2>2, <2>3 DEF Tells, Q, R
    <2> QED  BY <2>1, <2>4 DEF g
  <1>8. CASE v # 0
    <2>1. Q = R \cup {k} /\ k \notin R /\ k \in Q /\ Q \ {k} = R
      BY <1>1, <1>2, <1>3, <1>8
    <2>2. IsFiniteSet(Q) /\ Cardinality(Q) = Cardinality(R) + 1 /\ \A i \in Q : g[i] \in Int
      BY <1>1, <1>2, <2>1, FS_AddElement
    <2>3. SumFunctionOnSet(g, Q) = v + SumFunctionOnSet(h, R)
      <3>1. SumFunctionOnSet(g, Q) = g[k] + SumFunctionOnSet(g, Q \ {k})
        BY <2>1, <2>2, SumRemoves
      <3> QED  BY <1>1, <1>6, <2>1, <3>1
    <2> HIDE DEF s, c
    <2>4. /\ s.count = a.count + 1 /\ s.sum = a.sum + v
          /\ s.min = Figures!Least(a.min, v) /\ s.max = Figures!Most(a.max, v)
          /\ s.bins = [a.bins EXCEPT ![c] = @ + 1]
      BY <1>8 DEF s, c, Figures!AddReading
    <2>5. ASSUME NEW b \in Figures!Bins PROVE s.bins[b] = Cardinality(FellIn(g, b))
      <3>1. s.bins[b] = IF b = c THEN a.bins[b] + 1 ELSE a.bins[b]
        <4>1. a.bins = [i \in Figures!Bins |-> a.bins[i]]
          BY SourceIs DEF SourceShape
        <4> QED  BY <1>4, <2>4, <4>1
      <3>2. FellIn(g, b) = IF b = c THEN FellIn(h, b) \cup {k} ELSE FellIn(h, b)
        BY <1>1, <1>2, <2>1 DEF FellIn, Q, R, c
      <3>3. IsFiniteSet(FellIn(h, b)) /\ k \notin FellIn(h, b)
        <4>1. FellIn(h, b) \subseteq R
          BY DEF FellIn, R
        <4> QED  BY <1>2, <2>1, <4>1, FS_Subset
      <3>4. Cardinality(FellIn(h, b) \cup {k}) = Cardinality(FellIn(h, b)) + 1
        BY <3>3, FS_AddElement
      <3>5. a.bins[b] = Cardinality(FellIn(h, b))
        BY DEF Tells
      <3> QED  BY <3>1, <3>2, <3>4, <3>5
    <2>6. Extremes(s, g)
      <3>1. CASE R = {}
        <4>1. s.min = v /\ s.max = v
          BY <1>1, <2>4, <3>1, ExtremesAre DEF Tells, Extremes, R
        <4>2. Q = {k}
          BY <2>1, <3>1
        <4> QED  BY <1>1, <4>1, <4>2 DEF Extremes, Q
      <3>2. CASE R # {}
        <4>1. PICK m \in R : a.min = h[m] /\ \A j \in R : h[m] <= h[j]
          BY <3>2 DEF Tells, Extremes, R
        <4>2. PICK n \in R : a.max = h[n] /\ \A j \in R : h[n] >= h[j]
          BY <3>2 DEF Tells, Extremes, R
        <4>3. None \notin Nat
          BY EdgesAre
        <4>4. \E i \in Q : s.min = g[i] /\ \A j \in Q : g[i] <= g[j]
          <5>1. CASE h[m] < v
            <6>1. s.min = g[m]
              BY <1>1, <1>2, <2>4, <4>1, <4>3, <5>1 DEF Figures!Least
            <6>2. \A j \in Q : g[m] <= g[j]
              BY <1>1, <1>2, <2>1, <4>1, <5>1
            <6> QED  BY <2>1, <6>1, <6>2
          <5>2. CASE ~(h[m] < v)
            <6>1. s.min = g[k]
              BY <1>1, <1>2, <2>4, <4>1, <4>3, <5>2 DEF Figures!Least
            <6>2. \A j \in Q : g[k] <= g[j]
              BY <1>1, <1>2, <2>1, <4>1, <5>2
            <6> QED  BY <2>1, <6>1, <6>2
          <5> QED  BY <5>1, <5>2
        <4>5. \E i \in Q : s.max = g[i] /\ \A j \in Q : g[i] >= g[j]
          <5>1. CASE h[n] > v
            <6>1. s.max = g[n]
              BY <1>1, <1>2, <2>4, <4>2, <4>3, <5>1 DEF Figures!Most
            <6>2. \A j \in Q : g[n] >= g[j]
              BY <1>1, <1>2, <2>1, <4>2, <5>1
            <6> QED  BY <2>1, <6>1, <6>2
          <5>2. CASE ~(h[n] > v)
            <6>1. s.max = g[k]
              BY <1>1, <1>2, <2>4, <4>2, <4>3, <5>2 DEF Figures!Most
            <6>2. \A j \in Q : g[k] >= g[j]
              BY <1>1, <1>2, <2>1, <4>2, <5>2
            <6> QED  BY <2>1, <6>1, <6>2
          <5> QED  BY <5>1, <5>2
        <4>6. Q # {}
          BY <2>1
        <4> QED  BY <4>4, <4>5, <4>6 DEF Extremes, Q
      <3> QED  BY <3>1, <3>2
    <2>7. s.count = Cardinality(Q) /\ s.sum = SumFunctionOnSet(g, Q)
      <3>1. a.count = Cardinality(R) /\ a.sum = SumFunctionOnSet(h, R)
        BY DEF Tells, R
      <3> QED  BY <1>1, <1>2, <1>6, <2>2, <2>3, <2>4, <3>1
    <2> QED  BY <2>5, <2>6, <2>7 DEF Tells, Q, g, s
  <1> QED  BY <1>7, <1>8

LEMMA FiguresStart == DesktopInit => FiguresInv
  <1> SUFFICES ASSUME DesktopInit PROVE FiguresInv
    OBVIOUS
  <1>1. minutes = <<Figures!NoSource>> /\ month = None /\ heard = <<>>
    BY DEF DesktopInit, Figures!Init
  <1>2. Mixture = Figures!NoSource /\ Figures!NoSource \in Figures!Sources
    <2>1. <<>> \o <<Figures!NoSource>> = <<Figures!NoSource>> /\ Figures!NoSource \in Figures!Sources
      BY NoSourceIs
    <2> QED  BY <1>1, <2>1, FoldOfOne DEF Mixture, Figures!Months
  <1>3. FiguresType
    <2>1. <<Figures!NoSource>> \in Seq(Figures!Sources) /\ Len(<<Figures!NoSource>>) > 0 /\ <<>> \in Seq(Readable)
      BY <1>2
    <2> QED  BY <1>1, <2>1 DEF FiguresType
  <1>4. Tells(Figures!NoSource, <<>>)
    <2>1. HeardIn(<<>>) = {} /\ \A b : FellIn(<<>>, b) = {}
      BY DEF HeardIn, FellIn
    <2>2. Cardinality({}) = 0 /\ SumFunctionOnSet(<<>>, {}) = 0
      BY FS_EmptySet, SumUnfolds
    <2> QED  BY <2>1, <2>2, NoSourceIs DEF Tells, Extremes
  <1> QED  BY <1>1, <1>2, <1>3, <1>4 DEF FiguresInv

LEMMA ReadingComes == ASSUME FiguresInv, NEW v \in Readable, Figures!Second(v) PROVE FiguresInv'
  <1>1. /\ minutes \in Seq(Figures!Sources) /\ Len(minutes) > 0 /\ month \in Figures!Sources \cup {None}
        /\ heard \in Seq(Readable) /\ v \in Nat /\ Tells(Mixture, heard)
    BY EdgesAre DEF FiguresInv, FiguresType
  <1>2. heard' = Append(heard, v) /\ month' = month
        /\ minutes' = [minutes EXCEPT ![Len(minutes)] = Figures!AddReading(@, v)]
    BY DEF Figures!Second, Figures!Open
  <1>3. /\ minutes' \in Seq(Figures!Sources) /\ Len(minutes') = Len(minutes)
        /\ Figures!Folded(minutes') = Figures!AddReading(Figures!Folded(minutes), v)
    BY <1>1, <1>2, OpenMinuteAdds
  <1>4. FiguresType'
    <2>1. Append(heard, v) \in Seq(Readable)
      BY <1>1
    <2> QED  BY <1>1, <1>2, <1>3, <2>1 DEF FiguresType
  <1>5. Mixture' = Figures!AddReading(Mixture, v) /\ Mixture \in Figures!Sources
    <2> DEFINE f == Figures!Folded(minutes)
    <2>1. f \in Figures!Sources /\ Mixture = IF month = None THEN f ELSE Figures!AddSource(month, f)
      BY <1>1, MixtureIs
    <2>2. Mixture' = IF month = None THEN Figures!AddReading(f, v)
                     ELSE Figures!AddSource(month, Figures!AddReading(f, v))
      BY <1>1, <1>2, <1>3, MixtureIs
    <2> HIDE DEF f
    <2>3. CASE month = None
      BY <2>1, <2>2, <2>3
    <2>4. CASE month # None
      <3>1. month \in Figures!Sources
        BY <1>1, <2>4
      <3>2. Figures!AddSource(month, Figures!AddReading(f, v)) = Figures!AddReading(Figures!AddSource(month, f), v)
        BY <1>1, <2>1, <3>1, ReadingAdds
      <3>3. Figures!AddSource(month, f) \in Figures!Sources
        BY <2>1, <3>1, SourcesAdd
      <3> QED  BY <2>1, <2>2, <2>4, <3>2, <3>3
    <2> QED  BY <2>3, <2>4
  <1>6. Tells(Mixture', heard')
    BY <1>1, <1>2, <1>5, ReadingIsTold
  <1> QED  BY <1>4, <1>6 DEF FiguresInv

LEMMA MinuteBegins == ASSUME FiguresInv, Figures!NextMinute PROVE FiguresInv'
  <1>1. minutes' = Append(minutes, Figures!NoSource) /\ month' = month /\ heard' = heard
    BY DEF Figures!NextMinute
  <1>2. minutes \in Seq(Figures!Sources) /\ Len(minutes) > 0 /\ month \in Figures!Sources \cup {None}
    BY DEF FiguresInv, FiguresType
  <1>3. /\ minutes' \in Seq(Figures!Sources) /\ Len(minutes') > 0
        /\ Figures!Folded(minutes') = Figures!Folded(minutes)
    <2>1. Len(Append(minutes, Figures!NoSource)) > 0
      BY <1>2, NoSourceIs
    <2> QED  BY <1>1, <1>2, <2>1, NewMinuteAddsNothing
  <1>4. Mixture' = Mixture
    BY <1>1, <1>2, <1>3, MixtureIs
  <1> QED  BY <1>1, <1>2, <1>3, <1>4 DEF FiguresInv, FiguresType

LEMMA MonthIsFolded == ASSUME FiguresInv, Figures!Compact PROVE FiguresInv'
  <1>1. PICK n \in 1 .. (Len(minutes) - 1) :
           /\ month' = IF month = None THEN Figures!Folded(SubSeq(minutes, 1, n))
                       ELSE Figures!AddSource(month, Figures!Folded(SubSeq(minutes, 1, n)))
           /\ minutes' = SubSeq(minutes, n + 1, Len(minutes))
    BY DEF Figures!Compact, Figures!Open
  <1>2. heard' = heard
    BY DEF Figures!Compact
  <1>3. minutes \in Seq(Figures!Sources) /\ month \in Figures!Sources \cup {None} /\ heard \in Seq(Readable)
    BY DEF FiguresInv, FiguresType
  <1> DEFINE old == Figures!Folded(SubSeq(minutes, 1, n))
             new == Figures!Folded(minutes')
  <1>4. /\ minutes' \in Seq(Figures!Sources) /\ Len(minutes') > 0 /\ old \in Figures!Sources
        /\ new \in Figures!Sources /\ Figures!Folded(minutes) = Figures!AddSource(old, new)
    BY <1>1, <1>3, FoldParts, FoldOfJoined
  <1>5. month' = IF month = None THEN old ELSE Figures!AddSource(month, old)
    BY <1>1
  <1> HIDE DEF old, new
  <1>6. None \notin Figures!Sources
    BY EdgesAre
  <1>7. month' \in Figures!Sources
    BY <1>3, <1>4, <1>5, SourcesAdd
  <1>8. Mixture' = Figures!AddSource(month', new)
    BY <1>4, <1>6, <1>7, MixtureIs DEF new
  <1>9. Mixture = IF month = None THEN Figures!AddSource(old, new)
                  ELSE Figures!AddSource(month, Figures!AddSource(old, new))
    BY <1>3, <1>4, MixtureIs
  <1>10. Mixture' = Mixture
    <2>1. CASE month = None
      BY <1>5, <1>8, <1>9, <2>1
    <2>2. CASE month # None
      <3>1. month \in Figures!Sources
        BY <1>3, <2>2
      <3>2. Figures!AddSource(Figures!AddSource(month, old), new)
               = Figures!AddSource(month, Figures!AddSource(old, new))
        BY <1>4, <3>1, SourcesAdd
      <3> QED  BY <1>5, <1>8, <1>9, <2>2, <3>2
    <2> QED  BY <2>1, <2>2
  <1> QED  BY <1>2, <1>3, <1>4, <1>7, <1>10 DEF FiguresInv, FiguresType

LEMMA FiguresStep == ASSUME FiguresInv, [DesktopNext]_desktopVars PROVE FiguresInv'
  <1>1. CASE Figures!Next
    BY <1>1, ReadingComes, MinuteBegins, MonthIsFolded DEF Figures!Next
  <1>2. CASE UNCHANGED figureVars
    BY <1>2 DEF figureVars, FiguresInv, FiguresType, Mixture, Figures!Months
  <1> QED  BY <1>1, <1>2 DEF DesktopNext, OfficeNext, PageNext, DashboardNext, desktopVars,
             dashboardVars

(* The readings up to a bin, whose number the bins before it and in it add up to,*)
(* and the share of them a percentile reaches.                                   *)
UpToBin(h, b)  == { i \in HeardIn(h) : Figures!BinIndexFor(h[i]) <= b }
Reached(h, b)  == Cardinality(UpToBin(h, b))
Sought(h, p)   == p * Cardinality(HeardIn(h))
LastBin        == Len(BinEdges) + 1

(* The readings up to a value, and those below it.                               *)
UpToValue(h, w) == { i \in HeardIn(h) : h[i] <= w }
Below(h, w)     == { i \in HeardIn(h) : h[i] < w }

LEMMA FigureSums ==
    ASSUME NEW f
    PROVE  /\ \A I : Figures!SumFunctionOnSet(f, I) = SumFunctionOnSet(f, I)
           /\ Figures!SumFunction(f) = SumFunctionOnSet(f, DOMAIN f)
  BY DEF Figures!SumFunction, Figures!SumFunctionOnSet, Figures!FoldFunctionOnSet, Figures!MapThenFoldSet,
         SumFunctionOnSet, FoldFunctionOnSet, MapThenFoldSet

LEMMA ReachedAre ==
    ASSUME NEW h \in Seq(Readable)
    PROVE  /\ Reached(h, 0) = 0 /\ Reached(h, LastBin) = Cardinality(HeardIn(h))
           /\ \A b \in Nat : Reached(h, b) \in Nat /\ IsFiniteSet(UpToBin(h, b))
           /\ \A b, c \in Nat : b <= c => Reached(h, b) <= Reached(h, c)
           /\ \A b \in Nat : Reached(h, b + 1) = Reached(h, b) + Cardinality(FellIn(h, b + 1))
           /\ \A b \in Nat : Cardinality(FellIn(h, b)) \in Nat
  <1>1. ASSUME NEW T \in SUBSET HeardIn(h) PROVE IsFiniteSet(T) /\ Cardinality(T) \in Nat
    BY HeardAre, FS_Subset, FS_CardinalityType
  <1>2. \A i \in HeardIn(h) : Figures!BinIndexFor(h[i]) \in Nat /\ Figures!BinIndexFor(h[i]) \in 1 .. LastBin
    <2>1. Figures!Bins = 1 .. LastBin /\ LastBin \in Nat
      BY EdgesAre DEF LastBin
    <2>2. \A i \in HeardIn(h) : Figures!BinIndexFor(h[i]) \in Figures!Bins
      BY HeardAre, BinIs
    <2> QED  BY <2>1, <2>2
  <1>3. \A b \in Nat : Reached(h, b) \in Nat /\ IsFiniteSet(UpToBin(h, b)) /\ Cardinality(FellIn(h, b)) \in Nat
    BY <1>1 DEF UpToBin, FellIn, Reached
  <1>4. UpToBin(h, 0) = {} /\ UpToBin(h, LastBin) = HeardIn(h)
    BY <1>2 DEF UpToBin
  <1>5. ASSUME NEW b \in Nat, NEW c \in Nat, b <= c PROVE Reached(h, b) <= Reached(h, c)
    <2>1. UpToBin(h, b) \subseteq UpToBin(h, c)
      BY <1>2, <1>5 DEF UpToBin
    <2> QED  BY <1>3, <2>1, FS_Subset DEF Reached
  <1>6. ASSUME NEW b \in Nat PROVE Reached(h, b + 1) = Reached(h, b) + Cardinality(FellIn(h, b + 1))
    <2> DEFINE U == UpToBin(h, b)
               F == FellIn(h, b + 1)
    <2>1. UpToBin(h, b + 1) = U \cup F /\ U \cap F = {}
      <3>1. \A i \in HeardIn(h) : Figures!BinIndexFor(h[i]) <= b + 1
                                    <=> Figures!BinIndexFor(h[i]) <= b \/ Figures!BinIndexFor(h[i]) = b + 1
        BY <1>2
      <3>2. \A i \in HeardIn(h) : ~(Figures!BinIndexFor(h[i]) <= b /\ Figures!BinIndexFor(h[i]) = b + 1)
        BY <1>2
      <3> QED  BY <3>1, <3>2 DEF UpToBin, FellIn
    <2>2. IsFiniteSet(U) /\ IsFiniteSet(F) /\ Cardinality(U) \in Nat /\ Cardinality(F) \in Nat
      BY <1>1 DEF UpToBin, FellIn
    <2>3. Cardinality(U \cup F) = Cardinality(U) + Cardinality(F) - Cardinality(U \cap F)
      BY <2>2, FS_Union
    <2>4. Cardinality(U \cap F) = 0
      BY <2>1, FS_EmptySet
    <2>5. Cardinality(UpToBin(h, b + 1)) = Cardinality(U) + Cardinality(F)
      <3> HIDE DEF U, F
      <3>1. Cardinality(UpToBin(h, b + 1)) = Cardinality(U \cup F)
        BY <2>1
      <3> QED  BY <2>2, <2>3, <2>4, <3>1
    <2> QED  BY <2>5 DEF Reached
  <1>7. Reached(h, 0) = 0
    BY <1>4, FS_EmptySet DEF Reached
  <1>8. Reached(h, LastBin) = Cardinality(HeardIn(h))
    BY <1>4 DEF Reached
  <1> QED  BY <1>3, <1>5, <1>6, <1>7, <1>8

LEMMA BinsAddUp ==
    ASSUME NEW h \in Seq(Readable), NEW a \in Figures!Sources, Tells(a, h)
    PROVE  /\ \A b \in 0 .. LastBin : Figures!UpTo(a.bins, b) = Reached(h, b)
           /\ Figures!Total(a.bins) = Cardinality(HeardIn(h))
  <1>1. LastBin \in Nat /\ Figures!Bins = 1 .. LastBin
    BY EdgesAre DEF LastBin
  <1>2. a.bins = [i \in 1 .. LastBin |-> a.bins[i]] /\ \A i \in 1 .. LastBin : a.bins[i] \in Int
    BY <1>1, SourceIs DEF SourceShape, SourceTyped
  <1> DEFINE sum(b) == SumFunctionOnSet(a.bins, 1 .. b)
             G == { b \in Nat : b <= LastBin => sum(b) = Reached(h, b) }
  <1>3. 0 \in G
    <2>1. SumFunctionOnSet(a.bins, {}) = 0
      BY SumUnfolds, FS_EmptySet
    <2>2. 1 .. 0 = {}
      OBVIOUS
    <2>3. sum(0) = 0
      BY <2>1, <2>2
    <2>4. Reached(h, 0) = 0
      BY ReachedAre
    <2> HIDE DEF sum
    <2> QED  BY <2>3, <2>4
  <1>4. ASSUME NEW b \in Nat, b \in G PROVE b + 1 \in G
    <2> SUFFICES ASSUME b + 1 <= LastBin PROVE sum(b + 1) = Reached(h, b + 1)
      OBVIOUS
    <2>1. /\ IsFiniteSet(1 .. (b + 1)) /\ b + 1 \in 1 .. (b + 1) /\ (1 .. (b + 1)) \ {b + 1} = 1 .. b
          /\ 1 .. (b + 1) \subseteq 1 .. LastBin
      <3>1. b + 1 \in Int /\ 1 \in Int
        OBVIOUS
      <3>2. IsFiniteSet(1 .. (b + 1))
        BY <3>1, FS_Interval
      <3>3. b + 1 \in 1 .. (b + 1) /\ (1 .. (b + 1)) \ {b + 1} = 1 .. b
        OBVIOUS
      <3>4. 1 .. (b + 1) \subseteq 1 .. LastBin
        BY <1>1
      <3> QED  BY <3>2, <3>3, <3>4
    <2>2. sum(b + 1) = a.bins[b + 1] + SumFunctionOnSet(a.bins, (1 .. (b + 1)) \ {b + 1})
      <3>1. \A i \in 1 .. (b + 1) : a.bins[i] \in Int
        BY <1>2, <2>1
      <3> QED  BY <2>1, <3>1, SumRemoves
    <2>3. sum(b) = Reached(h, b) /\ Reached(h, b) \in Nat
      BY <1>1, <1>4, ReachedAre
    <2>4. a.bins[b + 1] = Cardinality(FellIn(h, b + 1)) /\ Cardinality(FellIn(h, b + 1)) \in Nat
      <3>1. b + 1 \in Figures!Bins /\ b + 1 \in Nat
        BY <1>1, <2>1
      <3>2. a.bins[b + 1] = Cardinality(FellIn(h, b + 1))
        BY <3>1 DEF Tells
      <3>3. Cardinality(FellIn(h, b + 1)) \in Nat
        BY <3>1, ReachedAre
      <3> QED  BY <3>2, <3>3
    <2>5. Reached(h, b + 1) = Reached(h, b) + Cardinality(FellIn(h, b + 1))
      BY ReachedAre
    <2> HIDE DEF sum
    <2>6. sum(b + 1) = a.bins[b + 1] + sum(b)
      BY <2>1, <2>2 DEF sum
    <2> QED  BY <2>3, <2>4, <2>5, <2>6
  <1> HIDE DEF G
  <1>5. \A b \in Nat : b \in G
    BY <1>3, <1>4, CountingUp
  <1>6. \A b \in 0 .. LastBin : Figures!UpTo(a.bins, b) = Reached(h, b)
    <2> SUFFICES ASSUME NEW b \in 0 .. LastBin PROVE Figures!UpTo(a.bins, b) = Reached(h, b)
      OBVIOUS
    <2>1. b \in Nat /\ b <= LastBin
      BY <1>1
    <2>2. sum(b) = Reached(h, b)
      BY <1>5, <2>1 DEF G
    <2>3. Figures!UpTo(a.bins, b) = SumFunctionOnSet(a.bins, 1 .. b)
      BY FigureSums DEF Figures!UpTo
    <2> QED  BY <2>2, <2>3
  <1>7. Figures!Total(a.bins) = Reached(h, LastBin)
    <2>1. DOMAIN a.bins = 1 .. LastBin
      BY <1>2
    <2>2. sum(LastBin) = Reached(h, LastBin)
      BY <1>1, <1>5 DEF G
    <2> QED  BY <2>1, <2>2, FigureSums DEF Figures!Total
  <1> QED  BY <1>6, <1>7, ReachedAre

(* The bin a percentile lands in is the one whose readings reach it.             *)
Lands(h, p, i) ==
    /\ i \in 1 .. LastBin
    /\ Sought(h, p) <= 100 * Reached(h, i) /\ Sought(h, p) > 100 * Reached(h, i - 1)

LEMMA SoughtIs ==
    ASSUME NEW h \in Seq(Readable), HeardIn(h) # {}, NEW p \in 1 .. 99
    PROVE  /\ Sought(h, p) \in Nat /\ Sought(h, p) > 0 /\ Sought(h, p) <= 100 * Cardinality(HeardIn(h))
           /\ Cardinality(HeardIn(h)) \in Nat /\ LastBin \in Nat /\ LastBin > 1
           /\ \A q \in 1 .. 99 : p < q => Sought(h, p) < Sought(h, q)
  <1> DEFINE N == Cardinality(HeardIn(h))
  <1>1. N \in Nat /\ N # 0
    BY HeardAre, FS_CardinalityType, FS_EmptySet
  <1>2. LastBin \in Nat /\ LastBin > 1
    BY EdgesAre DEF LastBin
  <1> HIDE DEF N
  <1>3. p * N \in Nat /\ p * N > 0 /\ p * N <= 100 * N
    BY <1>1
  <1>4. ASSUME NEW q \in 1 .. 99, p < q PROVE p * N < q * N
    BY <1>1, <1>4
  <1> QED  BY <1>1, <1>2, <1>3, <1>4 DEF Sought, N

LEMMA LandsInIs ==
    ASSUME NEW h \in Seq(Readable), NEW a \in Figures!Sources, Tells(a, h), HeardIn(h) # {}, NEW p \in 1 .. 99
    PROVE  LET i == Figures!LandsIn(a.bins, p)
           IN  Lands(h, p, i) /\ a.bins[i] = Reached(h, i) - Reached(h, i - 1)
  <1> DEFINE t == Sought(h, p)
             T == { i \in 1 .. LastBin : t <= 100 * Reached(h, i) }
             Chosen(i) == /\ a.bins[i] > 0 /\ p * Figures!Total(a.bins) <= 100 * Figures!UpTo(a.bins, i)
                          /\ \A j \in 1 .. (i - 1) : a.bins[j] = 0
                                \/ p * Figures!Total(a.bins) > 100 * Figures!UpTo(a.bins, j)
             i == Figures!LandsIn(a.bins, p)
  <1>1. i = CHOOSE k \in Figures!Bins : Chosen(k)
    BY DEF Figures!LandsIn
  <1>2. p * Figures!Total(a.bins) = t /\ \A b \in 0 .. LastBin : Figures!UpTo(a.bins, b) = Reached(h, b)
    BY BinsAddUp DEF Sought
  <1>3. /\ Figures!Bins = 1 .. LastBin /\ LastBin \in Nat /\ LastBin > 1
        /\ t \in Nat /\ t > 0 /\ t <= 100 * Cardinality(HeardIn(h))
    BY SoughtIs, EdgesAre DEF LastBin
  <1>4. \A b \in Nat : Reached(h, b) \in Nat
    BY ReachedAre
  <1>5. ASSUME NEW b \in 1 .. LastBin
        PROVE  /\ b - 1 \in Nat /\ a.bins[b] = Reached(h, b) - Reached(h, b - 1)
               /\ a.bins[b] \in Nat /\ b \in 0 .. LastBin
    <2>1. b - 1 \in Nat /\ b = (b - 1) + 1 /\ b \in Nat /\ b \in 0 .. LastBin
      BY <1>3
    <2> DEFINE c == b - 1
    <2>2. c \in Nat /\ b = c + 1
      BY <2>1
    <2> HIDE DEF c
    <2>3. Reached(h, c + 1) = Reached(h, c) + Cardinality(FellIn(h, c + 1)) /\ Cardinality(FellIn(h, c + 1)) \in Nat
      BY <2>2, ReachedAre
    <2>4. a.bins[b] = Cardinality(FellIn(h, b))
      BY <1>3 DEF Tells
    <2>5. Reached(h, b) = Reached(h, c) + a.bins[b] /\ a.bins[b] \in Nat
      BY <2>2, <2>3, <2>4
    <2>6. Reached(h, c) \in Nat /\ Reached(h, b) \in Nat
      BY <1>4, <2>1, <2>2
    <2>7. a.bins[b] = Reached(h, b) - Reached(h, c)
      BY <2>5, <2>6
    <2> QED  BY <2>1, <2>5, <2>7 DEF c
  <1> HIDE DEF t, i
  <1>6. LastBin \in T /\ T \in SUBSET Nat
    BY <1>3, ReachedAre
  <1>7. PICK k \in T : \A m \in T : k <= m
    <2> HIDE DEF T
    <2> QED  BY <1>6, LeastExists
  <1>8. k \in 1 .. LastBin /\ t <= 100 * Reached(h, k) /\ k \in Nat
    BY <1>3, <1>7
  <1>9. \A m \in 1 .. (k - 1) : t > 100 * Reached(h, m)
    <2> SUFFICES ASSUME NEW m \in 1 .. (k - 1) PROVE t > 100 * Reached(h, m)
      OBVIOUS
    <2>1. m \in 1 .. LastBin /\ ~(k <= m) /\ m \in Nat
      BY <1>3, <1>8
    <2>2. ~(t <= 100 * Reached(h, m))
      BY <1>7, <2>1
    <2> QED  BY <1>3, <1>4, <2>1, <2>2
  <1> HIDE DEF T
  <1>10. t > 100 * Reached(h, k - 1)
    <2>1. CASE k = 1
      <3>1. k - 1 = 0 /\ Reached(h, 0) = 0
        BY <2>1, ReachedAre
      <3> QED  BY <1>3, <3>1
    <2>2. CASE k # 1
      <3>1. k - 1 \in 1 .. (k - 1)
        BY <1>8, <2>2
      <3> QED  BY <1>9, <3>1
    <2> QED  BY <2>1, <2>2
  <1>11. Chosen(k)
    <2>1. a.bins[k] > 0
      <3>1. Reached(h, k) \in Nat /\ Reached(h, k - 1) \in Nat /\ a.bins[k] = Reached(h, k) - Reached(h, k - 1)
        BY <1>4, <1>5, <1>8
      <3> QED  BY <1>3, <1>8, <1>10, <3>1
    <2>2. \A j \in 1 .. (k - 1) : j \in 0 .. LastBin
      BY <1>3, <1>8
    <2>3. k \in 0 .. LastBin
      BY <1>8
    <2> QED  BY <1>2, <1>8, <1>9, <2>1, <2>2, <2>3
  <1>12. i \in 1 .. LastBin /\ Chosen(i)
    BY <1>1, <1>3, <1>8, <1>11
  <1>13. i = k
    <2>1. i \in 0 .. LastBin /\ t <= 100 * Reached(h, i) /\ i \in Nat
      BY <1>2, <1>3, <1>12
    <2>2. k <= i
      BY <1>7, <1>12, <2>1 DEF T
    <2>3. ~(k < i)
      <3> SUFFICES ASSUME k < i PROVE FALSE
        OBVIOUS
      <3>1. k \in 1 .. (i - 1) /\ k \in 0 .. LastBin
        BY <1>8, <2>1
      <3>2. a.bins[k] = 0 \/ t > 100 * Reached(h, k)
        BY <1>2, <1>12, <3>1
      <3>3. a.bins[k] > 0
        BY <1>11
      <3>4. Reached(h, k) \in Nat /\ a.bins[k] \in Nat
        BY <1>4, <1>5, <1>8
      <3> QED  BY <1>3, <1>8, <3>2, <3>3, <3>4
    <2> QED  BY <1>8, <2>1, <2>2, <2>3
  <1>14. a.bins[k] = Reached(h, k) - Reached(h, k - 1)
    BY <1>5, <1>8
  <1>15. Lands(h, p, i)
    BY <1>8, <1>10, <1>13 DEF Lands, t
  <1> QED  BY <1>13, <1>14, <1>15 DEF i

(* The reading of a rank: it has one, and it lies in the bin of its percentile.  *)
IsRanked(h, p, w) ==
    /\ 100 * Cardinality(UpToValue(h, w)) >= Sought(h, p)
    /\ 100 * Cardinality(Below(h, w)) < Sought(h, p)

LEMMA RanksAre ==
    ASSUME NEW h \in Seq(Readable)
    PROVE  /\ \A w \in Nat : Cardinality(UpToValue(h, w)) \in Nat /\ Cardinality(Below(h, w)) \in Nat
           /\ UpToValue(h, 0) = {}
           /\ \A w \in Nat : UpToValue(h, w) = Below(h, w + 1)
           /\ \A w \in Nat \ Readable : UpToValue(h, w) = Below(h, w)
  <1>1. \A i \in HeardIn(h) : h[i] \in Nat /\ h[i] > 0 /\ h[i] \in Readable
    BY HeardAre
  <1>2. \A T \in SUBSET HeardIn(h) : Cardinality(T) \in Nat
    BY HeardAre, FS_Subset, FS_CardinalityType
  <1>3. \A w \in Nat : Cardinality(UpToValue(h, w)) \in Nat /\ Cardinality(Below(h, w)) \in Nat
    BY <1>2 DEF UpToValue, Below
  <1>4. UpToValue(h, 0) = {}
    BY <1>1 DEF UpToValue
  <1>5. ASSUME NEW w \in Nat PROVE UpToValue(h, w) = Below(h, w + 1)
    <2>1. \A i \in HeardIn(h) : h[i] <= w <=> h[i] < w + 1
      BY <1>1
    <2> QED  BY <2>1 DEF UpToValue, Below
  <1>6. ASSUME NEW w \in Nat \ Readable PROVE UpToValue(h, w) = Below(h, w)
    <2>1. \A i \in HeardIn(h) : h[i] <= w <=> h[i] < w
      BY <1>1
    <2> QED  BY <2>1 DEF UpToValue, Below
  <1> QED  BY <1>3, <1>4, <1>5, <1>6

LEMMA RankExists ==
    ASSUME NEW h \in Seq(Readable), HeardIn(h) # {}, NEW a \in Figures!Sources, Tells(a, h), NEW p \in 1 .. 99
    PROVE  \E w \in Readable : IsRanked(h, p, w)
  <1> DEFINE t == Sought(h, p)
             T == { w \in Nat : 100 * Cardinality(UpToValue(h, w)) >= t }
  <1>1. t \in Nat /\ t > 0 /\ t <= 100 * Cardinality(HeardIn(h)) /\ Cardinality(HeardIn(h)) \in Nat
    BY SoughtIs
  <1> HIDE DEF t
  <1>2. T # {} /\ T \in SUBSET Nat
    <2>1. PICK i \in HeardIn(h) : \A j \in HeardIn(h) : h[i] >= h[j]
      BY DEF Tells, Extremes
    <2>2. h[i] \in Nat /\ \A j \in HeardIn(h) : h[j] \in Nat
      BY HeardAre
    <2>3. UpToValue(h, h[i]) = HeardIn(h)
      BY <2>1, <2>2 DEF UpToValue
    <2>4. 100 * Cardinality(UpToValue(h, h[i])) >= t
      BY <1>1, <2>3
    <2>5. h[i] \in T
      BY <2>2, <2>4
    <2> QED  BY <2>5
  <1>3. PICK w \in T : \A m \in T : w <= m
    <2> HIDE DEF T
    <2> QED  BY <1>2, LeastExists
  <1>4. w \in Nat /\ 100 * Cardinality(UpToValue(h, w)) >= t
    BY <1>3
  <1>5. w # 0
    <2>1. Cardinality(UpToValue(h, 0)) = 0
      BY RanksAre, FS_EmptySet
    <2> QED  BY <1>1, <1>4, <2>1
  <1> DEFINE u == w - 1
  <1>6. u \in Nat /\ w = u + 1 /\ ~(w <= u)
    BY <1>4, <1>5
  <1> HIDE DEF u
  <1>7. u \notin T
    BY <1>3, <1>6
  <1>8. Cardinality(UpToValue(h, u)) \in Nat /\ UpToValue(h, u) = Below(h, w)
    BY <1>6, RanksAre
  <1>9. 100 * Cardinality(Below(h, w)) < t
    <2>1. ~(100 * Cardinality(UpToValue(h, u)) >= t)
      BY <1>6, <1>7
    <2> QED  BY <1>1, <1>8, <2>1
  <1>10. w \in Readable
    <2>1. UpToValue(h, w) # Below(h, w)
      <3>1. Cardinality(UpToValue(h, w)) \in Nat /\ Cardinality(Below(h, w)) \in Nat
        BY <1>4, RanksAre
      <3> QED  BY <1>1, <1>4, <1>9, <3>1
    <2> QED  BY <1>4, <2>1, RanksAre
  <1> QED  BY <1>4, <1>9, <1>10 DEF IsRanked, t

LEMMA RankLands ==
    ASSUME NEW h \in Seq(Readable), HeardIn(h) # {}, NEW p \in 1 .. 99,
           NEW w \in Readable, IsRanked(h, p, w), NEW i, Lands(h, p, i)
    PROVE  Figures!BinIndexFor(w) = i
  <1> DEFINE b == Figures!BinIndexFor(w)
             t == Sought(h, p)
  <1>1. w \in Nat /\ b \in 1 .. LastBin /\ LastBin \in Nat /\ i \in 1 .. LastBin
    <2>1. w \in Nat /\ Figures!Bins = 1 .. LastBin /\ LastBin \in Nat
      BY EdgesAre DEF LastBin
    <2> QED  BY <2>1, BinIs DEF Lands
  <1>2. \A j \in HeardIn(h) : h[j] \in Nat /\ Figures!BinIndexFor(h[j]) \in Nat
    <2>1. \A j \in HeardIn(h) : h[j] \in Nat
      BY HeardAre
    <2>2. \A j \in HeardIn(h) : Figures!BinIndexFor(h[j]) \in Figures!Bins
      BY <2>1, BinIs
    <2> QED  BY <2>1, <2>2, EdgesAre
  <1>3. UpToValue(h, w) \subseteq UpToBin(h, b)
    BY <1>1, <1>2, BinsKeepOrder DEF UpToValue, UpToBin
  <1> HIDE DEF b
  <1>4. b \in Nat /\ b - 1 \in Nat /\ i \in Nat /\ i - 1 \in Nat
    BY <1>1
  <1>5. UpToBin(h, b - 1) \subseteq Below(h, w)
    <2> SUFFICES ASSUME NEW j \in HeardIn(h), Figures!BinIndexFor(h[j]) <= b - 1 PROVE h[j] < w
      BY DEF UpToBin, Below
    <2>1. ~(w <= h[j])
      <3> SUFFICES ASSUME w <= h[j] PROVE FALSE
        OBVIOUS
      <3>1. b <= Figures!BinIndexFor(h[j])
        BY <1>1, <1>2, BinsKeepOrder DEF b
      <3> QED  BY <1>2, <1>4, <3>1
    <2> QED  BY <1>1, <1>2, <2>1
  <1>6. Cardinality(UpToValue(h, w)) <= Reached(h, b)
    BY <1>3, <1>4, ReachedAre, FS_Subset DEF Reached
  <1>7. Reached(h, b - 1) <= Cardinality(Below(h, w))
    <2>1. IsFiniteSet(Below(h, w))
      BY HeardAre, FS_Subset DEF Below
    <2> QED  BY <1>5, <2>1, FS_Subset DEF Reached
  <1>8. /\ Cardinality(UpToValue(h, w)) \in Nat /\ Cardinality(Below(h, w)) \in Nat /\ t \in Nat
        /\ Reached(h, b) \in Nat /\ Reached(h, b - 1) \in Nat /\ Reached(h, i) \in Nat /\ Reached(h, i - 1) \in Nat
    BY <1>1, <1>4, RanksAre, ReachedAre, SoughtIs
  <1> HIDE DEF t
  <1>9. /\ t <= 100 * Reached(h, i) /\ t > 100 * Reached(h, i - 1)
        /\ 100 * Cardinality(UpToValue(h, w)) >= t /\ 100 * Cardinality(Below(h, w)) < t
    BY DEF Lands, IsRanked, t
  <1>10. ~(b <= i - 1)
    <2> SUFFICES ASSUME b <= i - 1 PROVE FALSE
      OBVIOUS
    <2>1. Reached(h, b) <= Reached(h, i - 1)
      BY <1>4, ReachedAre
    <2> QED  BY <1>6, <1>8, <1>9, <2>1
  <1>11. ~(i <= b - 1)
    <2> SUFFICES ASSUME i <= b - 1 PROVE FALSE
      OBVIOUS
    <2>1. Reached(h, i) <= Reached(h, b - 1)
      BY <1>4, ReachedAre
    <2> QED  BY <1>7, <1>8, <1>9, <2>1
  <1>12. b = i
    BY <1>4, <1>10, <1>11
  <1> QED  BY <1>12 DEF b

(* Products of naturals, one fact at a time.                                      *)
LEMMA FactorsChange ==
    ASSUME NEW x \in Nat, NEW y \in Nat, NEW z \in Nat
    PROVE  (x * y) * z = (x * z) * y /\ (x * y) * z \in Nat
  OBVIOUS

LEMMA Products ==
    ASSUME NEW x \in Nat, NEW y \in Nat, NEW z \in Nat
    PROVE  /\ x <= y => x * z <= y * z
           /\ x * z \in Nat
           /\ y <= x => x * z = y * z + (x - y) * z
  OBVIOUS

(* What is interpolated in a bin lies between the bin's ends.                    *)
LEMMA Interpolated ==
    ASSUME NEW l \in Nat, NEW u \in Nat, l <= u, NEW n \in Nat, NEW d \in Nat, d <= n
    PROVE  l * n <= l * n + d * (u - l) /\ l * n + d * (u - l) <= u * n /\ l * n + d * (u - l) \in Nat
  <1>1. u - l \in Nat
    OBVIOUS
  <1> DEFINE w == u - l
  <1>2. w \in Nat /\ u = l + w
    OBVIOUS
  <1> HIDE DEF w
  <1>3. d * w <= n * w /\ d * w \in Nat /\ n * w \in Nat /\ l * n \in Nat
    BY <1>2, Products
  <1>4. u * n = l * n + n * w
    BY <1>2
  <1> QED  BY <1>3, <1>4 DEF w

(* A percentile: from the low end of its bin to the high one, by the share of    *)
(* the bin's readings it takes.                                                  *)
Interpolates(h, a, p) ==
    LET i == Figures!LandsIn(a.bins, p)
        n == Figures!Percentile(a.bins, p).under
        x == Figures!Percentile(a.bins, p).over
        d == Sought(h, p) - 100 * Reached(h, i - 1)
    IN  /\ Lands(h, p, i) /\ n = 100 * (Reached(h, i) - Reached(h, i - 1)) /\ n \in Nat /\ n > 0
        /\ x = Figures!Lower(i) * n + d * (Figures!Upper(i) - Figures!Lower(i)) /\ d \in Nat /\ d <= n
        /\ x \in Nat /\ Figures!Lower(i) * n <= x /\ x <= Figures!Upper(i) * n
        /\ Figures!Lower(i) \in Nat /\ Figures!Upper(i) \in Nat /\ Figures!Lower(i) <= Figures!Upper(i)

LEMMA PercentileIs ==
    ASSUME NEW h \in Seq(Readable), NEW a \in Figures!Sources, Tells(a, h), HeardIn(h) # {}, NEW p \in 1 .. 99
    PROVE  Interpolates(h, a, p)
  <1> DEFINE i == Figures!LandsIn(a.bins, p)
             n == Figures!Percentile(a.bins, p).under
             x == Figures!Percentile(a.bins, p).over
             d == Sought(h, p) - 100 * Reached(h, i - 1)
             l == Figures!Lower(i)
             u == Figures!Upper(i)
  <1>1. Lands(h, p, i) /\ a.bins[i] = Reached(h, i) - Reached(h, i - 1)
    BY LandsInIs
  <1>2. /\ n = 100 * a.bins[i]
        /\ x = l * n + (p * Figures!Total(a.bins) - 100 * Figures!UpTo(a.bins, i - 1)) * (u - l)
    BY DEF Figures!Percentile
  <1>3. i \in 1 .. LastBin /\ LastBin \in Nat /\ i \in Nat /\ i - 1 \in Nat /\ i - 1 \in 0 .. LastBin
    <2> HIDE DEF i
    <2>1. i \in 1 .. LastBin
      BY <1>1 DEF Lands
    <2>2. LastBin \in Nat
      BY SoughtIs
    <2> QED  BY <2>1, <2>2
  <1> HIDE DEF i, n, x
  <1>4. p * Figures!Total(a.bins) = Sought(h, p) /\ Figures!UpTo(a.bins, i - 1) = Reached(h, i - 1)
    BY <1>3, BinsAddUp DEF Sought
  <1>5. Reached(h, i) \in Nat /\ Reached(h, i - 1) \in Nat /\ Sought(h, p) \in Nat
    BY <1>3, ReachedAre, SoughtIs
  <1>6. /\ Sought(h, p) <= 100 * Reached(h, i) /\ Sought(h, p) > 100 * Reached(h, i - 1)
    BY <1>1 DEF Lands
  <1>7. n \in Nat /\ n > 0 /\ d \in Nat /\ d <= n /\ n = 100 * (Reached(h, i) - Reached(h, i - 1))
    BY <1>1, <1>2, <1>5, <1>6
  <1>8. l \in Nat /\ u \in Nat /\ l <= u
    <2>1. LastBin = Len(BinEdges) + 1 /\ Len(BinEdges) \in Nat \ {0} /\ \A j \in 1 .. Len(BinEdges) : BinEdges[j] \in Nat
      BY EdgesAre DEF LastBin, Edge
    <2>2. \A j, k \in 1 .. Len(BinEdges) : j <= k => BinEdges[j] <= BinEdges[k]
      BY EdgesAscend DEF Edge
    <2>3. i = 1 \/ i - 1 \in 1 .. Len(BinEdges)
      BY <1>3, <2>1
    <2>4. i > Len(BinEdges) \/ i \in 1 .. Len(BinEdges)
      BY <1>3, <2>1
    <2>5. Len(BinEdges) \in 1 .. Len(BinEdges)
      BY <2>1
    <2>6. l \in Nat
      BY <2>1, <2>3 DEF Figures!Lower
    <2>7. u \in Nat
      BY <2>1, <2>4, <2>5 DEF Figures!Upper
    <2>8. l <= u
      <3>1. CASE i = 1
        BY <2>7, <3>1 DEF Figures!Lower
      <3>2. CASE i # 1 /\ i > Len(BinEdges)
        <4>1. i - 1 \in 1 .. Len(BinEdges) /\ i - 1 <= Len(BinEdges)
          BY <1>3, <2>1, <2>3, <3>2
        <4> QED  BY <2>2, <2>5, <3>2, <4>1 DEF Figures!Lower, Figures!Upper
      <3>3. CASE i # 1 /\ ~(i > Len(BinEdges))
        <4>1. i - 1 \in 1 .. Len(BinEdges) /\ i \in 1 .. Len(BinEdges) /\ i - 1 <= i
          BY <1>3, <2>3, <2>4, <3>3
        <4> QED  BY <2>2, <3>3, <4>1 DEF Figures!Lower, Figures!Upper
      <3> QED  BY <3>1, <3>2, <3>3
    <2> QED  BY <2>6, <2>7, <2>8
  <1>9. x = l * n + d * (u - l)
    BY <1>2, <1>4
  <1> HIDE DEF l, u, d
  <1>10. x \in Nat /\ l * n <= x /\ x <= u * n
    BY <1>7, <1>8, <1>9, Interpolated
  <1> QED  BY <1>1, <1>7, <1>8, <1>9, <1>10 DEF Interpolates, i, n, x, l, u, d

(* No edge of a bin lies between a percentile and the reading of its rank.       *)
LEMMA PercentileIsByItsReading ==
    ASSUME NEW h \in Seq(Readable), NEW a \in Figures!Sources, Tells(a, h), HeardIn(h) # {}, NEW p \in 1 .. 99,
           NEW w \in Readable, IsRanked(h, p, w), NEW e \in 1 .. Len(BinEdges)
    PROVE  IF Edge(e) <= w
           THEN Edge(e) * Figures!Percentile(a.bins, p).under <= Figures!Percentile(a.bins, p).over
           ELSE Edge(e) * Figures!Percentile(a.bins, p).under >= Figures!Percentile(a.bins, p).over
  <1> DEFINE i == Figures!LandsIn(a.bins, p)
             n == Figures!Percentile(a.bins, p).under
             x == Figures!Percentile(a.bins, p).over
             l == Figures!Lower(i)
             u == Figures!Upper(i)
  <1>1. /\ Lands(h, p, i) /\ n \in Nat /\ x \in Nat /\ l * n <= x /\ x <= u * n /\ l \in Nat /\ u \in Nat
    BY PercentileIs DEF Interpolates
  <1> HIDE DEF i, n, x
  <1>2. i \in 1 .. LastBin /\ LastBin = Len(BinEdges) + 1 /\ Len(BinEdges) \in Nat /\ i \in Nat /\ e \in Nat
    BY <1>1, EdgesAre DEF Lands, LastBin
  <1>3. w \in Nat /\ Figures!BinIndexFor(w) = i
    BY <1>1, EdgesAre, RankLands
  <1>4. Edge(e) <= w <=> i > e
    BY <1>3, BinSides
  <1>5. Edge(e) \in Nat
    BY EdgesAre
  <1>6. CASE Edge(e) <= w
    <2>1. i - 1 \in 1 .. Len(BinEdges) /\ e <= i - 1 /\ i # 1
      BY <1>2, <1>4, <1>6
    <2>2. l = Edge(i - 1)
      BY <2>1 DEF Figures!Lower, Edge
    <2>3. Edge(e) <= l
      BY <2>1, <2>2, EdgesAscend
    <2> HIDE DEF l
    <2>4. Edge(e) * n <= l * n /\ Edge(e) * n \in Nat /\ l * n \in Nat
      BY <1>1, <1>5, <2>3, Products
    <2>5. Edge(e) * n <= x
      BY <1>1, <2>4
    <2> QED  BY <1>6, <2>5 DEF n, x
  <1>7. CASE ~(Edge(e) <= w)
    <2>1. i \in 1 .. Len(BinEdges) /\ i <= e /\ ~(i > Len(BinEdges))
      BY <1>2, <1>4, <1>7
    <2>2. u = Edge(i)
      BY <2>1 DEF Figures!Upper, Edge
    <2>3. u <= Edge(e)
      BY <2>1, <2>2, EdgesAscend
    <2> HIDE DEF u
    <2>4. u * n <= Edge(e) * n /\ Edge(e) * n \in Nat /\ u * n \in Nat
      BY <1>1, <1>5, <2>3, Products
    <2>5. Edge(e) * n >= x
      BY <1>1, <2>4
    <2> QED  BY <1>7, <2>5 DEF n, x
  <1> QED  BY <1>6, <1>7

(* A higher percentile is no lower.                                              *)
LEMMA PercentilesAscend ==
    ASSUME NEW h \in Seq(Readable), NEW a \in Figures!Sources, Tells(a, h), HeardIn(h) # {},
           NEW p \in 1 .. 99, NEW q \in 1 .. 99, p < q
    PROVE  Figures!Percentile(a.bins, p).over * Figures!Percentile(a.bins, q).under
              <= Figures!Percentile(a.bins, q).over * Figures!Percentile(a.bins, p).under
  <1> DEFINE i == Figures!LandsIn(a.bins, p)
             n == Figures!Percentile(a.bins, p).under
             x == Figures!Percentile(a.bins, p).over
             c == Sought(h, p) - 100 * Reached(h, i - 1)
             l == Figures!Lower(i)
             u == Figures!Upper(i)
             j == Figures!LandsIn(a.bins, q)
             m == Figures!Percentile(a.bins, q).under
             y == Figures!Percentile(a.bins, q).over
             d == Sought(h, q) - 100 * Reached(h, j - 1)
             k == Figures!Lower(j)
             v == Figures!Upper(j)
  <1>1. /\ Lands(h, p, i) /\ n = 100 * (Reached(h, i) - Reached(h, i - 1)) /\ n \in Nat
        /\ x = l * n + c * (u - l) /\ c \in Nat /\ x \in Nat /\ x <= u * n /\ l \in Nat /\ u \in Nat /\ l <= u
    <2>1. Interpolates(h, a, p)
      BY PercentileIs
    <2> QED  BY <2>1 DEF Interpolates
  <1>2. /\ Lands(h, q, j) /\ m = 100 * (Reached(h, j) - Reached(h, j - 1)) /\ m \in Nat
        /\ y = k * m + d * (v - k) /\ d \in Nat /\ y \in Nat /\ k * m <= y /\ k \in Nat /\ v \in Nat
    <2>1. Interpolates(h, a, q)
      BY PercentileIs
    <2> QED  BY <2>1 DEF Interpolates
  <1>3. Sought(h, p) < Sought(h, q) /\ Sought(h, p) \in Nat /\ Sought(h, q) \in Nat
    BY SoughtIs
  <1> HIDE DEF i, j, n, m, x, y
  <1>4. /\ i \in 1 .. LastBin /\ j \in 1 .. LastBin /\ LastBin = Len(BinEdges) + 1 /\ Len(BinEdges) \in Nat
        /\ i - 1 \in Nat /\ j \in Nat /\ i \in Nat
    <2>1. LastBin = Len(BinEdges) + 1 /\ Len(BinEdges) \in Nat
      BY EdgesAre DEF LastBin
    <2>2. i \in 1 .. LastBin /\ j \in 1 .. LastBin
      BY <1>1, <1>2 DEF Lands
    <2> QED  BY <2>1, <2>2
  <1>5. ~(j <= i - 1)
    <2> SUFFICES ASSUME j <= i - 1 PROVE FALSE
      OBVIOUS
    <2>1. Reached(h, j) <= Reached(h, i - 1) /\ Reached(h, j) \in Nat /\ Reached(h, i - 1) \in Nat
      BY <1>4, ReachedAre
    <2>2. Sought(h, p) > 100 * Reached(h, i - 1) /\ Sought(h, q) <= 100 * Reached(h, j)
      BY <1>1, <1>2 DEF Lands
    <2> QED  BY <1>3, <2>1, <2>2
  <1>6. CASE i = j
    <2>1. n = m /\ l = k /\ u = v
      BY <1>1, <1>2, <1>6
    <2>2. c <= d
      <3>1. Reached(h, i - 1) \in Nat
        BY <1>4, ReachedAre
      <3> QED  BY <1>3, <1>6, <3>1
    <2> HIDE DEF c, d, l, k, u, v
    <2>3. u - l \in Nat
      BY <1>1
    <2>4. c * (u - l) <= d * (u - l) /\ c * (u - l) \in Nat /\ d * (u - l) \in Nat /\ l * n \in Nat
      <3> DEFINE b == u - l
      <3>1. b \in Nat
        BY <2>3
      <3> HIDE DEF b
      <3>2. c * b <= d * b /\ c * b \in Nat /\ d * b \in Nat /\ l * n \in Nat
        <4>1. c \in Nat /\ d \in Nat /\ l \in Nat /\ n \in Nat
          BY <1>1, <1>2
        <4> QED  BY ONLY <2>2, <3>1, <4>1, Products
      <3> QED  BY <3>2 DEF b
    <2>5. y = l * n + d * (u - l)
      BY <1>2, <2>1
    <2>6. x <= y
      BY <1>1, <2>4, <2>5
    <2>7. x * n <= y * n
      BY <1>1, <1>2, <2>6, Products
    <2>8. x * m <= y * n
      BY <2>1, <2>7
    <2> QED  BY <2>8 DEF n, m, x, y
  <1>7. CASE i # j
    <2>1. i <= j - 1 /\ j # 1 /\ j - 1 \in 1 .. Len(BinEdges) /\ i \in 1 .. Len(BinEdges) /\ ~(i > Len(BinEdges))
      BY <1>4, <1>5, <1>7
    <2>2. u = Edge(i) /\ k = Edge(j - 1)
      BY <2>1 DEF Figures!Upper, Figures!Lower, Edge
    <2>3. u <= k
      BY <2>1, <2>2, EdgesAscend
    <2> HIDE DEF c, d, l, k, u, v
    <2>4. x <= u * n /\ u * n <= k * n /\ u * n \in Nat /\ k * n \in Nat
      <3>1. u \in Nat /\ k \in Nat /\ n \in Nat /\ x <= u * n
        BY <1>1, <1>2
      <3> QED  BY ONLY <2>3, <3>1, Products
    <2>5. x * m <= (k * n) * m
      <3> DEFINE b == k * n
      <3>1. b \in Nat /\ x <= b
        BY <1>1, <2>4
      <3> HIDE DEF b
      <3>2. x * m <= b * m
        BY <1>1, <1>2, <3>1, Products
      <3> QED  BY <3>2 DEF b
    <2>6. (k * m) * n <= y * n
      <3> DEFINE b == k * m
      <3>1. b \in Nat /\ b <= y
        BY <1>2, Products
      <3> HIDE DEF b
      <3>2. b * n <= y * n
        BY <1>1, <1>2, <3>1, Products
      <3> QED  BY <3>2 DEF b
    <2>7. (k * n) * m = (k * m) * n /\ (k * m) * n \in Nat /\ x * m \in Nat /\ y * n \in Nat
      <3>1. x \in Nat /\ y \in Nat /\ k \in Nat /\ n \in Nat /\ m \in Nat
        BY <1>1, <1>2
      <3> QED  BY ONLY <3>1, Products, FactorsChange
    <2>8. x * m <= y * n
      BY <2>5, <2>6, <2>7
    <2> QED  BY <2>8 DEF n, m, x, y
  <1> QED  BY <1>6, <1>7

LEMMA FiguresTell == ASSUME FiguresInv PROVE Figures!FiguresAreOfTheReadings
  <1> DEFINE h == heard
             a == Mixture
             R == Figures!Readings
  <1>1. h \in Seq(Readable) /\ a \in Figures!Sources /\ Tells(a, h) /\ R = HeardIn(h)
    <2>1. a \in Figures!Sources
      BY MixtureIs, SourcesAdd DEF FiguresInv, FiguresType
    <2> QED  BY <2>1 DEF FiguresInv, FiguresType, Figures!Readings, HeardIn
  <1> DEFINE all == Figures!MergeBuckets(Figures!Months \o minutes)
  <1>2. a = Figures!Folded(Figures!Months \o minutes)
    BY DEF Mixture
  <1>9. all.count = a.count /\ all.sum = a.sum /\ all.bins = a.bins
    <2>1. all = [a EXCEPT !.min = None, !.max = None]
      BY <1>2 DEF Figures!MergeBuckets
    <2> HIDE DEF a, all
    <2> QED  BY <1>1, <2>1 DEF Figures!Sources
  <1> HIDE DEF a, all
  <1>3. (\A S : Figures!Cardinality(S) = Cardinality(S)) /\ Quantiles \subseteq 1 .. 99
    BY EdgesAre DEF Cardinality, Figures!Cardinality
  <1>4. a.count = Figures!Cardinality(R) /\ a.sum = Figures!SumFunctionOnSet(heard, R)
    BY <1>1, <1>3, FigureSums DEF Tells
  <1>5. ASSUME R # {}
        PROVE  /\ a.min = heard[CHOOSE i \in R : \A j \in R : heard[i] <= heard[j]]
               /\ a.max = heard[CHOOSE i \in R : \A j \in R : heard[i] >= heard[j]]
    <2>0. \A i \in R : heard[i] \in Nat
      BY <1>1, HeardAre
    <2>1. PICK m \in R : a.min = heard[m] /\ \A j \in R : heard[m] <= heard[j]
      BY <1>1, <1>5 DEF Tells, Extremes
    <2>2. PICK n \in R : a.max = heard[n] /\ \A j \in R : heard[n] >= heard[j]
      BY <1>1, <1>5 DEF Tells, Extremes
    <2> DEFINE f == CHOOSE i \in R : \A j \in R : heard[i] <= heard[j]
               g == CHOOSE i \in R : \A j \in R : heard[i] >= heard[j]
    <2>3. f \in R /\ \A j \in R : heard[f] <= heard[j]
      BY <2>1
    <2>4. g \in R /\ \A j \in R : heard[g] >= heard[j]
      BY <2>2
    <2> HIDE DEF f, g, R
    <2>5. heard[f] = heard[m] /\ heard[g] = heard[n]
      BY <2>0, <2>1, <2>2, <2>3, <2>4
    <2> QED  BY <2>1, <2>2, <2>5 DEF f, g
  <1> DEFINE w(p) == Figures!Ranked(p)
             x(p) == Figures!Percentile(a.bins, p).over
             n(p) == Figures!Percentile(a.bins, p).under
  <1>6. ASSUME R # {}, NEW p \in Quantiles PROVE w(p) \in Readable /\ IsRanked(h, p, w(p))
    <2>1. p \in 1 .. 99 /\ Cardinality(R) \in Nat
      BY <1>1, <1>3, HeardAre, FS_CardinalityType
    <2>2. PICK r \in Readable : IsRanked(h, p, r)
      BY <1>1, <1>6, <2>1, RankExists
    <2>3. w(p) = CHOOSE s \in Readable : IsRanked(h, p, s)
      BY <1>1, <1>3 DEF Figures!Ranked, IsRanked, UpToValue, Below, Sought
    <2> HIDE DEF w
    <2> QED  BY <2>2, <2>3
  <1>7. ASSUME R # {}, NEW p \in Quantiles, NEW e \in 1 .. Len(BinEdges)
        PROVE  IF BinEdges[e] <= w(p) THEN BinEdges[e] * n(p) <= x(p) ELSE BinEdges[e] * n(p) >= x(p)
    <2>1. p \in 1 .. 99 /\ w(p) \in Readable /\ IsRanked(h, p, w(p))
      BY <1>3, <1>6, <1>7
    <2> HIDE DEF w
    <2> QED  BY <1>1, <1>7, <2>1, PercentileIsByItsReading DEF Edge
  <1>8. ASSUME R # {}, NEW p \in Quantiles, NEW q \in Quantiles, p < q PROVE x(p) * n(q) <= x(q) * n(p)
    <2>1. p \in 1 .. 99 /\ q \in 1 .. 99 /\ p < q
      BY <1>3, <1>8
    <2>2. HeardIn(h) # {}
      BY <1>1, <1>8
    <2> HIDE DEF h, R, w
    <2> QED  BY <1>1, <2>1, <2>2, PercentilesAscend
  <1> HIDE DEF h, R, w
  <1> QED  BY <1>2, <1>4, <1>5, <1>7, <1>8, <1>9 DEF Figures!FiguresAreOfTheReadings, all, R, w

(* However the seconds of a span are split into minutes and the minutes folded   *)
(* into months, its figures are those of the readings heard: their number and    *)
(* sum; percentiles no edge of a bin away from the reading of that rank; and     *)
(* none below a lower one (mergeBuckets, percentile, sourceMetrics).  So are the *)
(* extremes kept on file (addSource).                                            *)
THEOREM FiguresAreAlwaysOfTheReadings == DesktopSpec => []FiguresAreOfTheReadings
  <1>1. DesktopInit => FiguresInv
    BY FiguresStart
  <1>2. FiguresInv /\ [DesktopNext]_desktopVars => FiguresInv'
    BY FiguresStep
  <1>3. FiguresInv => FiguresAreOfTheReadings
    BY FiguresTell DEF FiguresAreOfTheReadings
  <1> QED  BY <1>1, <1>2, <1>3, PTL DEF DesktopSpec

--------------------------------------------------------------------------------
(* The data directory's lock, for any number of processes and any bound on the *)
(* attempts.  That the attempts stay in bounds needs to know that a            *)
(* claim under way has one left.                                               *)

AttemptsLeft == \A p \in Pids : at[p] \in Claiming => tries[p] < MaxAttempts

LockTypeInv == TypeOK /\ AttemptsLeft

LEMMA InitLockTyped == Init => LockTypeInv
BY AttemptsArePositive DEF Init, LockTypeInv, TypeOK, AttemptsLeft, Locks, Places, Claiming

LEMMA StepLockTyped == LockTypeInv /\ [Next]_vars => LockTypeInv'
<1> SUFFICES ASSUME LockTypeInv, [Next]_vars PROVE LockTypeInv'
  OBVIOUS
<1> USE DEF LockTypeInv, TypeOK, AttemptsLeft, GoTo, Places, Claiming
<1>1. /\ Absent \in Locks
      /\ 0 \in 0 .. MaxAttempts /\ 0 < MaxAttempts /\ MaxAttempts \in Nat
  BY AttemptsArePositive DEF Locks
<1>2. ASSUME NEW p \in Pids PROVE [maker |-> p, pid |-> NoPid] \in Locks
  BY DEF Locks
<1>3. ASSUME NEW p \in Pids, lock = [maker |-> p, pid |-> NoPid]
      PROVE  [lock EXCEPT !.pid = p] \in Locks
  BY <1>3 DEF Locks
<1>4. ASSUME NEW p \in Pids, Start(p) \/ Open(p) \/ WritePid(p) \/ ReadOwner(p)
      PROVE  LockTypeInv'
  BY <1>1, <1>2, <1>3, <1>4 DEF Start, Open, WritePid, ReadOwner
<1>5. ASSUME NEW p \in Pids, Exit(p) \/ Release(p) \/ Die(p)
      PROVE  LockTypeInv'
  BY <1>1, <1>5 DEF Exit, Release, Die
<1>6. ASSUME NEW p \in Pids, Unlink(p)
      PROVE  LockTypeInv'
  <2>1. tries[p] \in Nat /\ tries[p] < MaxAttempts
    BY <1>6 DEF Unlink
  <2>2. tries[p] + 1 \in 0 .. MaxAttempts
    BY <1>1, <2>1
  <2>3. tries[p] + 1 # MaxAttempts => tries[p] + 1 < MaxAttempts
    BY <1>1, <2>1
  <2> QED BY <1>1, <1>6, <2>2, <2>3 DEF Unlink
<1>7. CASE UNCHANGED vars
  BY <1>7 DEF vars
<1> QED BY <1>4, <1>5, <1>6, <1>7 DEF Next, Step

\* The lock keeps its shape and no claim is tried more than MaxAttempts times,
\* however starts overlap.
THEOREM LockTypeCorrect == Spec => []TypeOK
<1>1. LockTypeInv => TypeOK
  BY DEF LockTypeInv
<1> QED BY InitLockTyped, StepLockTyped, <1>1, PTL DEF Spec

--------------------------------------------------------------------------------
(* One owner, as long as no recorder starts while another is claiming.  The    *)
(* lock then names whoever owns the directory, which two cannot both be.       *)

OneClaim == \A p, q \in Pids : at[p] \in Claiming /\ at[q] \in Claiming => p = q

LockInv == TypeOK /\ OneClaim /\ LockNamesTheOwner

LEMMA LockParts ==
    ASSUME TypeOK
    PROVE  /\ Absent.pid \notin Pids /\ \A p \in Pids : Absent # [maker |-> p, pid |-> NoPid]
           /\ \A p \in Pids : [maker |-> p, pid |-> NoPid].pid = NoPid
           /\ lock = Absent \/ lock.pid \in Pids \cup {NoPid}
<1>1. Absent.pid = NoPid /\ Absent.maker = NoPid
  BY DEF Absent
<1> QED BY <1>1, NoPidIsNone DEF TypeOK, Locks

LEMMA StepOneClaim ==
    ASSUME LockInv, [Next]_vars, ~Overlap
    PROVE  OneClaim'
<1> USE DEF LockInv, TypeOK, OneClaim, GoTo, Claiming
<1>1. ASSUME NEW p \in Pids, Start(p)
      PROVE  OneClaim'
  BY <1>1 DEF Start
<1>2. ASSUME NEW p \in Pids, Step(p) \/ Exit(p) \/ Die(p)
      PROVE  OneClaim'
  BY <1>2 DEF Step, Open, WritePid, ReadOwner, Unlink, Release, Exit, Die
<1> QED BY <1>1, <1>2 DEF Next, vars

LEMMA StepLockNames ==
    ASSUME LockInv, [Next]_vars, ~Overlap
    PROVE  LockNamesTheOwner'
<1> USE NoPidIsNone, LockParts
    DEF LockInv, TypeOK, OneClaim, LockNamesTheOwner, OwnedByAnother, Alive, GoTo, Claiming
<1>1. ASSUME NEW p \in Pids, Start(p)
      PROVE  LockNamesTheOwner'
  BY <1>1 DEF Start
<1>2. ASSUME NEW p \in Pids, Open(p)
      PROVE  LockNamesTheOwner'
  BY <1>2 DEF Open
<1>3. ASSUME NEW p \in Pids, WritePid(p)
      PROVE  LockNamesTheOwner'
  <2>1. lock'.pid = p
    BY <1>3 DEF WritePid
  <2> QED BY <1>3, <2>1 DEF WritePid
<1>4. ASSUME NEW p \in Pids, ReadOwner(p)
      PROVE  LockNamesTheOwner'
  BY <1>4 DEF ReadOwner
<1>5. ASSUME NEW p \in Pids, Unlink(p)
      PROVE  LockNamesTheOwner'
  BY <1>5 DEF Unlink
<1>6. ASSUME NEW p \in Pids, Release(p)
      PROVE  LockNamesTheOwner'
  BY <1>6 DEF Release
<1>7. ASSUME NEW p \in Pids, Exit(p)
      PROVE  LockNamesTheOwner'
  BY <1>7 DEF Exit
<1>8. ASSUME NEW p \in Pids, Die(p)
      PROVE  LockNamesTheOwner'
  BY <1>8 DEF Die
<1>9. CASE UNCHANGED vars
  BY <1>9 DEF vars
<1> QED BY <1>1, <1>2, <1>3, <1>4, <1>5, <1>6, <1>7, <1>8, <1>9 DEF Next, Step

\* The two halves of the claim hold together as long as starts do not overlap.
LEMMA ClaimsInvariant ==
    ASSUME ~Overlap
    PROVE  Spec => []LockInv
<1>1. Init => LockInv
  BY InitLockTyped DEF LockTypeInv, LockInv, Init, OneClaim, LockNamesTheOwner, Claiming
<1>2. LockInv /\ [Next]_vars => OneClaim' /\ LockNamesTheOwner'
  BY StepOneClaim, StepLockNames
<1>3. TypeOK' /\ OneClaim' /\ LockNamesTheOwner' => LockInv'
  BY DEF LockInv
<1> QED BY LockTypeCorrect, <1>1, <1>2, <1>3, PTL DEF Spec

\* Whoever owns the directory is named by its lock, and nobody is about to
\* remove that lock, as long as starts do not overlap.
THEOREM OwnerIsNamed ==
    ASSUME ~Overlap
    PROVE  Spec => []LockNamesTheOwner
<1>1. LockInv => LockNamesTheOwner
  BY DEF LockInv
<1> QED BY ClaimsInvariant, <1>1, PTL

\* A single collector owns a data directory as long as starts do not overlap,
\* wherever the ones before it died.
THEOREM OneOwner ==
    ASSUME ~Overlap
    PROVE  Spec => []SingleOwner
<1>1. LockNamesTheOwner => SingleOwner
  BY DEF LockNamesTheOwner, SingleOwner
<1> QED BY OwnerIsNamed, <1>1, PTL
================================================================================
