---------------------- MODULE ExtensionEnforcement_proofs ----------------------
(***************************************************************************)
(* Proofs about the browser extension's enforcement, for any devices,      *)
(* rules and retry window.                                                 *)
(***************************************************************************)
EXTENDS ExtensionEnforcement, TLAPS

--------------------------------------------------------------------------------
(* What the operators on records return.                                    *)

LEMMA BlankIsARecord == Blank \in DevicePauseRecord
BY RetryWindowIsPositive DEF Blank, DevicePauseRecord, PauseStates

\* A stamp or an outcome is a record whatever write it is of.
LEMMA StampsAreRecords ==
    ASSUME NEW p \in DevicePauseRecord, NEW blocking \in BOOLEAN, NEW state \in PauseStates
    PROVE  /\ Stamped(p, blocking) \in DevicePauseRecord
           /\ Outcome(p, blocking, state) \in DevicePauseRecord
           /\ NoteBlockLanded(p) \in DevicePauseRecord
           /\ NoteReleasedByHand \in DevicePauseRecord
           /\ [p EXCEPT !.overridden = FALSE] \in DevicePauseRecord
           /\ Aged(p) \in DevicePauseRecord
<1>1. 0 \in 0 .. RetryWindow
  BY RetryWindowIsPositive
<1>2. Stamped(p, blocking) \in DevicePauseRecord
  <2> DEFINE keeps == ~blocking /\ p.confirmed
  <2>1. keeps \in BOOLEAN
    OBVIOUS
  <2> HIDE DEF keeps
  <2>2. ASSUME NEW s \in PauseStates, NEW k \in WriteKinds
        PROVE  [state |-> s, attempted |-> k, age |-> 0, confirmed |-> keeps,
                overridden |-> FALSE] \in DevicePauseRecord
    BY <1>1, <2>1 DEF DevicePauseRecord
  <2> QED BY <2>2 DEF Stamped, keeps, PauseStates, WriteKinds, DevicePauseRecord
<1>3. Outcome(p, blocking, state) \in DevicePauseRecord
  <2> DEFINE keeps == ~blocking /\ state = "applied" /\ p.confirmed
  <2>1. keeps \in BOOLEAN
    OBVIOUS
  <2> HIDE DEF keeps
  <2>2. ASSUME NEW k \in WriteKinds
        PROVE  [state |-> state, attempted |-> k, age |-> 0, confirmed |-> keeps,
                overridden |-> FALSE] \in DevicePauseRecord
    BY <1>1, <2>1 DEF DevicePauseRecord
  <2> QED BY <2>2 DEF Outcome, keeps, WriteKinds
<1>4. NoteBlockLanded(p) \in DevicePauseRecord
  BY DEF NoteBlockLanded, DevicePauseRecord
<1>5. NoteReleasedByHand \in DevicePauseRecord
  BY <1>1 DEF NoteReleasedByHand, DevicePauseRecord, PauseStates, WriteKinds
<1>6. [p EXCEPT !.overridden = FALSE] \in DevicePauseRecord
  BY DEF DevicePauseRecord
<1>7. Aged(p) \in DevicePauseRecord
  BY RetryWindowIsPositive DEF Aged, DevicePauseRecord
<1> QED BY <1>2, <1>3, <1>4, <1>5, <1>6, <1>7

\* The record a tick starts from says what the stored one says, unless the roster
\* has shown the block or a person's release of it.
LEMMA BeginValue ==
    ASSUME TypeOK, NEW nowHolding, NEW seen, NEW d \in Devices
    PROVE  LET p == ClearSettledOverrides(RosterNoted(seen), nowHolding)[d]
           IN  /\ p \in DevicePauseRecord
               /\ \/ /\ p.state = pauses[d].state
                     /\ p.confirmed => pauses[d].confirmed \/ seen[d] = "blocked"
                  \/ pauses[d].confirmed /\ seen[d] = "free"
<1> DEFINE n == RosterNoted(seen)[d]
           p == ClearSettledOverrides(RosterNoted(seen), nowHolding)[d]
<1>1. pauses[d] \in DevicePauseRecord
  BY DEF TypeOK
<1>2. \/ d \in BlocksLanded(pauses, seen) /\ n = NoteBlockLanded(pauses[d])
      \/ d \in ReleasedByHand(pauses, seen) /\ n = NoteReleasedByHand
      \/ n = pauses[d]
  BY DEF RosterNoted
<1>3. n \in DevicePauseRecord
  BY <1>1, <1>2, StampsAreRecords DEF PauseStates
<1>4. \/ n.state = pauses[d].state /\ (n.confirmed => pauses[d].confirmed \/ seen[d] = "blocked")
      \/ pauses[d].confirmed /\ seen[d] = "free"
  BY <1>1, <1>2 DEF BlocksLanded, ReleasedByHand, NoteBlockLanded, DevicePauseRecord
<1> HIDE DEF n
<1>5. p = n \/ p = [n EXCEPT !.overridden = FALSE]
  BY DEF ClearSettledOverrides, n
<1>6. p \in DevicePauseRecord /\ p.state = n.state /\ (p.confirmed <=> n.confirmed)
  BY <1>3, <1>5 DEF DevicePauseRecord
<1> QED BY <1>4, <1>6

LEMMA BeginType ==
    ASSUME TypeOK, NEW nowHolding, NEW seen
    PROVE  ClearSettledOverrides(RosterNoted(seen), nowHolding)
              \in [Devices -> DevicePauseRecord]
<1>1. DOMAIN ClearSettledOverrides(RosterNoted(seen), nowHolding) = Devices
  BY DEF ClearSettledOverrides
<1> QED BY <1>1, BeginValue DEF ClearSettledOverrides

LEMMA NoAccountType ==
    ASSUME NEW ps \in [Devices -> DevicePauseRecord], NEW toPause, NEW toRelease
    PROVE  NoAccount(ps, toPause, toRelease) \in [Devices -> DevicePauseRecord]
<1>1. ASSUME NEW d \in Devices
      PROVE  Outcome(ps[d], d \in toPause, AfterFailure(d \in toPause)) \in DevicePauseRecord
  <2>1. AfterFailure(d \in toPause) \in PauseStates /\ (d \in toPause) \in BOOLEAN
    BY DEF AfterFailure, PauseStates
  <2> QED BY <2>1, StampsAreRecords
<1> QED BY <1>1 DEF NoAccount

--------------------------------------------------------------------------------
(* Type correctness.                                                        *)

Consistent(list) == list.auto \subseteq list.rules /\ list.holding \subseteq list.rules

LEMMA InitType == Init => TypeOK
<1> SUFFICES ASSUME Init PROVE TypeOK
  OBVIOUS
<1>1. NoRules \in RuleLists /\ Consistent(NoRules)
  BY DEF NoRules, RuleLists, Consistent
<1>2. NoRecords \in [Devices -> DevicePauseRecord]
  BY BlankIsARecord DEF NoRecords
<1>3. Idle \in Ticks /\ Idle.list = NoRules
  BY <1>1, <1>2 DEF Idle, Ticks
<1>4. NoEdit \in Edits /\ NoEdit.list = NoRules
  BY <1>1 DEF NoEdit, Edits
<1> QED BY <1>1, <1>2, <1>3, <1>4 DEF Init, TypeOK, Consistent

LEMMA EditType == TypeOK /\ (ReadForEdit \/ WriteEdit) => TypeOK'
<1>1. ASSUME TypeOK, ReadForEdit PROVE TypeOK'
  <2>1. PICK new \in RuleLists : Edited(stored, new) /\ edit' = [busy |-> TRUE, list |-> new]
    BY <1>1 DEF ReadForEdit
  <2>2. Consistent(new)
    BY <1>1, <2>1 DEF Edited, Without, Consistent, TypeOK, RuleLists
  <2>3. edit' \in Edits /\ edit'.list = new
    BY <2>1 DEF Edits
  <2> QED BY <1>1, <2>2, <2>3 DEF ReadForEdit, TypeOK, Consistent
<1>2. ASSUME TypeOK, WriteEdit PROVE TypeOK'
  <2>1. NoEdit \in Edits /\ NoEdit.list = NoRules /\ Consistent(NoRules)
    BY DEF NoEdit, Edits, NoRules, RuleLists, Consistent
  <2>2. edit.list \in RuleLists
    BY <1>2 DEF TypeOK, Edits
  <2> QED BY <1>2, <2>1, <2>2 DEF WriteEdit, TypeOK, Consistent
<1> QED BY <1>1, <1>2

LEMMA BeginTickType == TypeOK /\ BeginTick => TypeOK'
<1> SUFFICES ASSUME TypeOK, BeginTick PROVE TypeOK'
  OBVIOUS
<1>1. PICK nowHolding \in SUBSET stored.rules, seen \in Readings, signedIn \in BOOLEAN :
         BeginTickWith(nowHolding, seen, signedIn)
  BY DEF BeginTick
<1> DEFINE ps == ClearSettledOverrides(RosterNoted(seen), nowHolding)
           list == [stored EXCEPT !.holding = nowHolding]
<1>2. list \in RuleLists /\ Consistent(list)
  BY DEF TypeOK, RuleLists, Consistent
<1>3. ps \in [Devices -> DevicePauseRecord]
  BY BeginType
<1>4. /\ PausesOwed(ps, nowHolding, stored.auto) \subseteq Devices
      /\ ReleasesOwed(ps, nowHolding) \subseteq Devices
  <2>1. DevicesOwedPause(nowHolding, stored.auto) \subseteq Devices
    BY RuleNamesADevice DEF DevicesOwedPause, DevicesOf, TypeOK, RuleLists
  <2> QED BY <2>1 DEF PausesOwed, ReleasesOwed
<1> HIDE DEF ps, list
<1>5. NoAccount(ps, PausesOwed(ps, nowHolding, stored.auto), ReleasesOwed(ps, nowHolding))
         \in [Devices -> DevicePauseRecord]
  BY <1>3, NoAccountType
<1>6. tick' \in Ticks /\ tick'.list = list
  BY <1>1, <1>2, <1>3, <1>4, <1>5 DEF BeginTickWith, Ticks, ps, list
<1>7. UNCHANGED <<stored, pauses, edit, router, shown>>
  BY <1>1 DEF BeginTickWith
<1> QED BY <1>2, <1>6, <1>7 DEF TypeOK, Consistent

LEMMA SendType ==
    ASSUME TypeOK, NEW d \in Devices, Send(d)
    PROVE  TypeOK'
<1> DEFINE p == Stamped(tick.pauses[d], d \in tick.toPause)
<1>1. tick \in Ticks /\ tick.pauses \in [Devices -> DevicePauseRecord]
  BY DEF TypeOK, Ticks
<1>2. p \in DevicePauseRecord /\ Outcome(p, TRUE, "failed") \in DevicePauseRecord
  <2>1. (d \in tick.toPause) \in BOOLEAN /\ "failed" \in PauseStates
    BY DEF PauseStates
  <2>2. p \in DevicePauseRecord
    BY <1>1, <2>1, StampsAreRecords
  <2> HIDE DEF p
  <2>3. Outcome(p, TRUE, "failed") \in DevicePauseRecord
    BY <2>1, <2>2, StampsAreRecords
  <2> QED BY <2>2, <2>3
<1>3. [for |-> d, blocking |-> d \in tick.toPause, landed |-> FALSE] \in Waiting
  BY DEF Waiting
<1> HIDE DEF p
<1>4. PICK q \in DevicePauseRecord, waiting \in SUBSET Waiting, toRelease \in SUBSET Devices :
         tick' = [tick EXCEPT !.toPause = @ \ {d}, !.toRelease = toRelease,
                              !.pauses[d] = q, !.waiting = waiting]
  BY <1>1, <1>2, <1>3 DEF Send, p, Ticks
<1>5. tick' \in Ticks /\ tick'.list = tick.list
  BY <1>1, <1>4 DEF Ticks
<1> QED BY <1>5 DEF Send, TypeOK

LEMMA WriteOutType ==
    ASSUME TypeOK, NEW w \in tick.waiting, Land(w) \/ Answer(w)
    PROVE  TypeOK'
<1>1. tick \in Ticks /\ tick.pauses \in [Devices -> DevicePauseRecord]
  BY DEF TypeOK, Ticks
<1>2. w \in Waiting /\ w.for \in Devices /\ w.blocking \in BOOLEAN
  BY <1>1 DEF Ticks, Waiting
<1>3. CASE Land(w)
  <2>1. [w EXCEPT !.landed = TRUE] \in Waiting
    BY <1>2 DEF Waiting
  <2>2. tick' \in Ticks /\ tick'.list = tick.list
    BY <1>1, <1>2, <1>3, <2>1 DEF Land, Ticks
  <2>3. router' \in [Devices -> {"free", "blocked"}]
    BY <1>3 DEF Land, TypeOK
  <2> QED BY <1>3, <2>2, <2>3 DEF Land, TypeOK
<1>4. CASE Answer(w)
  <2>1. PICK state \in PauseStates : Answered(w, state)
    BY <1>2, <1>4 DEF Answer, ReplyOk, Dropped, Refused, ReplyLost, AfterFailure, AfterSuccess,
                      PauseStates
  <2>2. Outcome(tick.pauses[w.for], w.blocking, state) \in DevicePauseRecord
    BY <1>1, <1>2, StampsAreRecords
  <2>3. tick' \in Ticks /\ tick'.list = tick.list
    BY <1>1, <2>1, <2>2 DEF Answered, Ticks
  <2> QED BY <2>1, <2>3 DEF Answered, TypeOK
<1> QED BY <1>3, <1>4

LEMMA CloseType == TypeOK /\ (WriteRules \/ WritePauses \/ Teardown) => TypeOK'
<1> SUFFICES ASSUME TypeOK PROVE WriteRules \/ WritePauses \/ Teardown => TypeOK'
  OBVIOUS
<1>1. tick \in Ticks /\ tick.pauses \in [Devices -> DevicePauseRecord]
      /\ tick.list \in RuleLists /\ Consistent(tick.list)
  BY DEF TypeOK, Ticks, Consistent
<1>2. /\ Idle \in Ticks /\ Idle.list = NoRules
      /\ NoEdit \in Edits /\ NoEdit.list = NoRules
      /\ NoRules \in RuleLists /\ Consistent(NoRules)
  <2>1. NoRules \in RuleLists /\ Consistent(NoRules)
    BY DEF NoRules, RuleLists, Consistent
  <2>2. NoRecords \in [Devices -> DevicePauseRecord]
    BY BlankIsARecord DEF NoRecords
  <2> QED BY <2>1, <2>2 DEF Idle, NoEdit, Ticks, Edits
<1>3. CASE WriteRules
  <2>1. tick' \in Ticks /\ tick'.list = tick.list
    BY <1>1, <1>3 DEF WriteRules, Ticks
  <2> QED BY <1>1, <1>3, <2>1 DEF WriteRules, TypeOK, Consistent
<1>4. CASE WritePauses
  <2>1. pauses' \in [Devices -> DevicePauseRecord]
    BY <1>1, <1>4, BlankIsARecord DEF WritePauses, ForgetSettled
  <2> QED BY <1>2, <1>4, <2>1 DEF WritePauses, TypeOK, Consistent
<1>5. CASE Teardown
  BY <1>2, <1>5 DEF Teardown, TypeOK, Consistent
<1> QED BY <1>3, <1>4, <1>5

LEMMA WorldType ==
    ASSUME TypeOK, \/ \E d \in Devices : RosterCatchesUp(d) \/ HandFree(d)
                   \/ Clock \/ UNCHANGED vars
    PROVE  TypeOK'
<1>1. CASE \E d \in Devices : RosterCatchesUp(d)
  BY <1>1 DEF RosterCatchesUp, TypeOK
<1>2. CASE \E d \in Devices : HandFree(d)
  BY <1>2 DEF HandFree, TypeOK
<1>3. CASE Clock
  <2>1. pauses' \in [Devices -> DevicePauseRecord]
    <3>1. ASSUME NEW d \in Devices PROVE Aged(pauses[d]) \in DevicePauseRecord
      BY StampsAreRecords, TRUE \in BOOLEAN, "none" \in PauseStates DEF TypeOK, PauseStates
    <3> QED BY <1>3, <3>1 DEF Clock
  <2> QED BY <1>3, <2>1 DEF Clock, TypeOK
<1>4. CASE UNCHANGED vars
  BY <1>4 DEF vars, TypeOK
<1> QED BY <1>1, <1>2, <1>3, <1>4

LEMMA NextType == TypeOK /\ [Next]_vars => TypeOK'
BY EditType, BeginTickType, SendType, WriteOutType, CloseType, WorldType DEF Next

\* The rules and the records keep their shape in both stores, and nothing holds or
\* enforces that is not a rule, whatever is torn down and wherever.
THEOREM TypeCorrect == Spec => []TypeOK
BY InitType, NextType, PTL DEF Spec

--------------------------------------------------------------------------------
(* The block is remembered.  A tick holds its own copy of the records, so the   *)
(* argument needs both: the stored one is right until a pause of the tick lands, *)
(* the tick's own is right whenever it could be written back.                    *)

\* A blocked device reads "applied" in ps, and a block that was seen is still shown.
Remembers(ps, d) ==
    router[d] = "blocked" =>
        ps[d].state = "applied" /\ (ps[d].confirmed => shown[d] = "blocked")

\* One write is waited on at a time, of a device that can be named.
WaitingIsOne ==
    \A w \in tick.waiting :
        /\ tick.waiting = {w} /\ w.for \in Routable /\ tick.stage = "sending"
        /\ w.blocking => ~tick.pauses[w.for].confirmed
        /\ w.landed /\ w.blocking => tick.blocked
        /\ w.landed /\ ~w.blocking => router[w.for] = "free"

\* The device whose pause has just landed, its answer still to come.
JustBlocked(d) == \E w \in tick.waiting : w.for = d /\ w.blocking /\ w.landed

IInv ==
    /\ TypeOK
    /\ \A d \in Devices : router[d] = "blocked" => d \in Routable
    /\ tick.stage = "idle" => tick.waiting = {} /\ ~tick.blocked
    /\ WaitingIsOne
    /\ ~tick.blocked => \A d \in Devices : Remembers(pauses, d)
    /\ tick.stage # "idle" => \A d \in Devices : JustBlocked(d) \/ Remembers(tick.pauses, d)

\* The faults no record survives: a worker torn down once a pause has landed, and a
\* tick that finds no account on a block it has yet to see.
RecordFaults == {"lateTeardown", "signOut"}

LEMMA InitIInv == Init => IInv
<1> SUFFICES ASSUME Init PROVE IInv
  OBVIOUS
<1>1. tick.waiting = {} /\ ~tick.blocked /\ tick.stage = "idle"
  BY DEF Init, Idle
<1>2. \A d \in Devices : router[d] = "free"
  BY DEF Init
<1> QED BY <1>1, <1>2, InitType DEF IInv, WaitingIsOne, Remembers

\* What the invariant says of a state is all the tick, the router, the roster and the
\* stored records decide.
LEMMA EditKeepsIInv ==
    ASSUME IInv, TypeOK', UNCHANGED <<tick, pauses, router, shown>>
    PROVE  IInv'
BY DEF IInv, WaitingIsOne, Remembers, JustBlocked

LEMMA BeginKeepsIInv ==
    ASSUME IInv, BeginTick, Faults \cap RecordFaults = {}
    PROVE  IInv'
<1>1. PICK nowHolding \in SUBSET stored.rules, seen \in Readings :
         BeginTickWith(nowHolding, seen, TRUE)
  BY DEF BeginTick, RecordFaults
<1> DEFINE ps == ClearSettledOverrides(RosterNoted(seen), nowHolding)
<1>2. TypeOK /\ TypeOK' /\ tick.stage = "idle" /\ UNCHANGED <<pauses, router, shown>>
  BY <1>1, BeginTickType DEF IInv, BeginTickWith
<1>3. tick'.stage = "sending" /\ tick'.pauses = ps /\ tick'.waiting = {} /\ ~tick'.blocked
  BY <1>1 DEF BeginTickWith
<1>4. ASSUME NEW d \in Devices, router[d] = "blocked"
      PROVE  ps[d].state = "applied" /\ (ps[d].confirmed => shown[d] = "blocked")
  <2>1. Remembers(pauses, d)
    BY <1>2 DEF IInv
  <2>2. seen[d] \in {"unasked", shown[d]}
    BY DEF Readings
  <2>3. \/ /\ ps[d].state = pauses[d].state
           /\ ps[d].confirmed => pauses[d].confirmed \/ seen[d] = "blocked"
        \/ pauses[d].confirmed /\ seen[d] = "free"
    BY <1>2, BeginValue
  <2> HIDE DEF ps
  <2> QED BY <1>4, <2>1, <2>2, <2>3 DEF Remembers
<1> HIDE DEF ps
<1>5. \A d \in Devices : Remembers(tick.pauses, d)'
  BY <1>2, <1>3, <1>4 DEF Remembers
<1> QED BY <1>2, <1>3, <1>5 DEF IInv, WaitingIsOne, Remembers

LEMMA SendKeepsIInv ==
    ASSUME IInv, NEW e \in Devices, Send(e)
    PROVE  IInv'
<1> DEFINE blocking == e \in tick.toPause
           p == Stamped(tick.pauses[e], blocking)
           q == IF e \in Routable \/ ~blocking THEN p ELSE Outcome(p, TRUE, "failed")
<1>1. /\ TypeOK /\ TypeOK' /\ tick.stage = "sending" /\ tick.waiting = {}
      /\ tick \in Ticks /\ tick.pauses \in [Devices -> DevicePauseRecord]
      /\ UNCHANGED <<pauses, router, shown>>
  BY SendType DEF IInv, Send, TypeOK, Ticks
<1>2. /\ tick'.stage = "sending" /\ tick'.blocked = tick.blocked
      /\ tick'.pauses = [tick.pauses EXCEPT ![e] = q]
      /\ tick'.waiting = IF e \in Routable
                         THEN {[for |-> e, blocking |-> blocking, landed |-> FALSE]} ELSE {}
  BY <1>1 DEF Send, Ticks
<1>3. /\ p.state = IF blocking THEN tick.pauses[e].state ELSE "applied"
      /\ p.confirmed <=> ~blocking /\ tick.pauses[e].confirmed
  BY DEF Stamped
<1>4. q = p \/ e \notin Routable
  OBVIOUS
<1> HIDE DEF p, q
<1>5. ASSUME NEW d \in Devices PROVE Remembers(tick.pauses, d)'
  <2>1. Remembers(tick.pauses, d)
    BY <1>1 DEF IInv, JustBlocked
  <2>2. CASE d # e
    BY <1>1, <1>2, <2>1, <2>2 DEF Remembers
  <2>3. CASE d = e
    <3>1. tick'.pauses[d] = q
      BY <1>1, <1>2, <2>3
    <3>2. router[d] = "blocked" => d \in Routable
      BY DEF IInv
    <3> QED BY <1>1, <1>3, <1>4, <2>1, <2>3, <3>1, <3>2 DEF Remembers
  <2> QED BY <2>2, <2>3
<1>6. WaitingIsOne'
  <2> SUFFICES ASSUME NEW w \in tick'.waiting PROVE
           /\ tick'.waiting = {w} /\ w.for \in Routable /\ tick'.stage = "sending"
           /\ w.blocking => ~tick'.pauses[w.for].confirmed
           /\ ~w.landed
    BY DEF WaitingIsOne
  <2>1. e \in Routable /\ w = [for |-> e, blocking |-> blocking, landed |-> FALSE]
    BY <1>2
  <2>2. w.for = e /\ (w.blocking <=> blocking) /\ ~w.landed
    BY <2>1
  <2>3. tick'.pauses[e] = p
    BY <1>1, <1>2, <1>4, <2>1
  <2> QED BY <1>2, <1>3, <2>1, <2>2, <2>3
<1> QED BY <1>1, <1>2, <1>5, <1>6 DEF IInv, Remembers

LEMMA WriteKeepsIInv ==
    ASSUME IInv, NEW w \in tick.waiting, Land(w) \/ Answer(w)
    PROVE  IInv'
<1>1. /\ TypeOK /\ TypeOK' /\ tick.stage = "sending" /\ tick.waiting = {w}
      /\ tick \in Ticks /\ tick.pauses \in [Devices -> DevicePauseRecord]
      /\ w \in Waiting /\ w.for \in Devices /\ w.blocking \in BOOLEAN /\ w.landed \in BOOLEAN
      /\ w.for \in Routable
      /\ UNCHANGED <<pauses, shown>>
  BY WriteOutType DEF IInv, WaitingIsOne, TypeOK, Ticks, Waiting, Land, Answer, ReplyOk, Dropped,
                      Refused, ReplyLost, Answered
<1>2. CASE Land(w)
  <2> DEFINE v == [w EXCEPT !.landed = TRUE]
  <2>1. /\ v.for = w.for /\ (v.blocking <=> w.blocking) /\ v.landed
    BY <1>1 DEF Waiting
  <2> HIDE DEF v
  <2>2. /\ tick'.stage = "sending" /\ tick'.waiting = {v} /\ tick'.pauses = tick.pauses
        /\ tick'.blocked <=> tick.blocked \/ w.blocking
    BY <1>1, <1>2 DEF Land, Ticks, v
  <2>3. /\ shown[w.for] = router[w.for]
        /\ router' = [router EXCEPT ![w.for] = IF w.blocking THEN "blocked" ELSE "free"]
        /\ router \in [Devices -> {"free", "blocked"}]
    BY <1>1, <1>2 DEF Land, TypeOK
  <2>4. WaitingIsOne'
    BY <1>1, <2>1, <2>2, <2>3 DEF IInv, WaitingIsOne
  <2>5. ASSUME NEW d \in Devices
        PROVE  /\ router'[d] = "blocked" => d \in Routable
               /\ ~tick'.blocked => Remembers(pauses, d)'
               /\ JustBlocked(d)' \/ Remembers(tick.pauses, d)'
    <3>1. CASE d = w.for
      <4>1. CASE w.blocking
        BY <1>1, <2>1, <2>2, <3>1, <4>1 DEF JustBlocked
      <4>2. CASE ~w.blocking
        BY <1>1, <2>3, <3>1, <4>2 DEF Remembers
      <4> QED BY <4>1, <4>2
    <3>2. CASE d # w.for
      <4>1. router'[d] = router[d] /\ ~JustBlocked(d)
        BY <1>1, <2>3, <3>2 DEF JustBlocked
      <4> QED BY <1>1, <2>2, <4>1 DEF IInv, Remembers
    <3> QED BY <3>1, <3>2
  <2> QED BY <1>1, <2>2, <2>4, <2>5 DEF IInv
<1>3. CASE Answer(w)
  <2>1. PICK state \in PauseStates :
           /\ Answered(w, state)
           /\ w.blocking => state = "applied" \/ (~w.landed /\ router[w.for] = "free")
           /\ ~w.blocking => state = "applied" \/ w.landed
    BY <1>1, <1>3 DEF Answer, ReplyOk, Dropped, Refused, ReplyLost, AfterFailure, AfterSuccess,
                      PauseStates
  <2>2. /\ tick'.stage = "sending" /\ tick'.waiting = {} /\ tick'.blocked = tick.blocked
        /\ tick'.pauses = [tick.pauses EXCEPT
                              ![w.for] = Outcome(tick.pauses[w.for], w.blocking, state)]
        /\ router' = router
    BY <1>1, <2>1 DEF Answered, Ticks
  <2>3. ASSUME NEW d \in Devices PROVE Remembers(tick.pauses, d)'
    <3>1. CASE d # w.for
      <4>1. Remembers(tick.pauses, d)
        BY <1>1, <3>1 DEF IInv, JustBlocked
      <4> QED BY <1>1, <2>2, <3>1, <4>1 DEF Remembers
    <3>2. CASE d = w.for
      <4> DEFINE o == Outcome(tick.pauses[d], w.blocking, state)
      <4>1. o.state = state /\ (o.confirmed => ~w.blocking /\ tick.pauses[d].confirmed)
        BY DEF Outcome
      <4>2. tick'.pauses[d] = o
        BY <1>1, <2>2, <3>2
      <4> HIDE DEF o
      <4>3. w.landed /\ ~w.blocking => router[d] = "free"
        BY <3>2 DEF IInv, WaitingIsOne
      <4>4. ~w.blocking => Remembers(tick.pauses, d)
        BY <1>1, <3>2 DEF IInv, JustBlocked
      <4> QED BY <1>1, <2>1, <2>2, <3>2, <4>1, <4>2, <4>3, <4>4 DEF Remembers
    <3> QED BY <3>1, <3>2
  <2>4. (\A d \in Devices : Remembers(pauses, d)) => (\A d \in Devices : Remembers(pauses, d)')
    BY <1>1, <2>2 DEF Remembers
  <2> QED BY <1>1, <2>2, <2>3, <2>4 DEF IInv, WaitingIsOne
<1> QED BY <1>2, <1>3

LEMMA CloseKeepsIInv ==
    ASSUME IInv, WriteRules \/ WritePauses \/ Teardown, Faults \cap RecordFaults = {}
    PROVE  IInv'
<1>1. TypeOK /\ TypeOK' /\ tick \in Ticks /\ UNCHANGED <<router, shown>>
  BY CloseType DEF IInv, TypeOK, WriteRules, WritePauses, Teardown
<1>2. CASE WriteRules
  <2>1. /\ tick'.stage = "closing" /\ tick'.waiting = {} /\ tick.waiting = {}
        /\ tick'.blocked = tick.blocked /\ tick'.pauses = tick.pauses /\ pauses' = pauses
        /\ tick.stage # "idle"
    BY <1>1, <1>2 DEF WriteRules, Ticks
  <2> QED BY <1>1, <2>1 DEF IInv, WaitingIsOne, Remembers, JustBlocked
<1>3. CASE WritePauses
  <2>1. tick'.stage = "idle" /\ tick'.waiting = {} /\ ~tick'.blocked
    BY <1>3 DEF WritePauses, Idle
  <2>2. ASSUME NEW d \in Devices PROVE Remembers(pauses, d)'
    <3>1. Remembers(tick.pauses, d)
      BY <1>3 DEF WritePauses, IInv, WaitingIsOne, JustBlocked
    <3>2. pauses'[d] = tick.pauses[d] \/ tick.pauses[d].state = "none"
      BY <1>3 DEF WritePauses, ForgetSettled
    <3> QED BY <1>1, <3>1, <3>2 DEF Remembers
  <2> QED BY <1>1, <2>1, <2>2 DEF IInv, WaitingIsOne
<1>4. CASE Teardown
  <2>1. /\ tick'.stage = "idle" /\ tick'.waiting = {} /\ ~tick'.blocked
        /\ ~tick.blocked /\ pauses' = pauses
    BY <1>4 DEF Teardown, Idle, RecordFaults
  <2> QED BY <1>1, <2>1 DEF IInv, WaitingIsOne, Remembers
<1> QED BY <1>2, <1>3, <1>4

LEMMA WorldKeepsIInv ==
    ASSUME IInv, NEW e \in Devices, RosterCatchesUp(e) \/ HandFree(e) \/ Clock
    PROVE  IInv'
<1>1. TypeOK /\ TypeOK' /\ tick' = tick
  BY WorldType DEF IInv, RosterCatchesUp, HandFree, Clock
<1>2. ASSUME NEW d \in Devices, NEW ps, NEW qs,
             router'[d] = "blocked" => router[d] = "blocked",
             router[d] = "blocked" /\ shown[d] = "blocked" => shown'[d] = "blocked",
             Remembers(ps, d), qs[d].state = ps[d].state, qs[d].confirmed <=> ps[d].confirmed
      PROVE  router'[d] = "blocked" =>
                qs[d].state = "applied" /\ (qs[d].confirmed => shown'[d] = "blocked")
  BY <1>2 DEF Remembers
<1>3. ASSUME NEW d \in Devices
      PROVE  /\ router'[d] = "blocked" => router[d] = "blocked"
             /\ router[d] = "blocked" /\ shown[d] = "blocked" => shown'[d] = "blocked"
             /\ pauses'[d].state = pauses[d].state
             /\ pauses'[d].confirmed <=> pauses[d].confirmed
  <2>1. CASE Clock
    <3>1. pauses[d] \in DevicePauseRecord
      BY <1>1 DEF TypeOK
    <3>2. Aged(pauses[d]).state = pauses[d].state /\ (Aged(pauses[d]).confirmed <=> pauses[d].confirmed)
      BY <3>1 DEF Aged, DevicePauseRecord
    <3> QED BY <2>1, <3>2 DEF Clock
  <2>2. CASE RosterCatchesUp(e) \/ HandFree(e)
    BY <1>1, <2>2 DEF RosterCatchesUp, HandFree, TypeOK
  <2> QED BY <2>1, <2>2
<1>4. ASSUME NEW d \in Devices
      PROVE  /\ Remembers(pauses, d) => Remembers(pauses, d)'
             /\ Remembers(tick.pauses, d) => Remembers(tick.pauses, d)'
             /\ JustBlocked(d) => JustBlocked(d)'
  BY <1>1, <1>3 DEF Remembers, JustBlocked
<1>5. WaitingIsOne'
  <2>1. ASSUME NEW d \in Devices, router[d] = "free" PROVE router'[d] = "free"
    BY <1>1, <1>3, <2>1 DEF TypeOK
  <2> QED BY <1>1, <2>1 DEF IInv, WaitingIsOne, TypeOK, Ticks, Waiting
<1> QED BY <1>1, <1>3, <1>4, <1>5 DEF IInv

LEMMA NextIInv ==
    ASSUME Faults \cap RecordFaults = {}
    PROVE  IInv /\ [Next]_vars => IInv'
<1> SUFFICES ASSUME IInv, [Next]_vars PROVE IInv'
  OBVIOUS
<1>1. TypeOK'
  BY NextType DEF IInv
<1>2. CASE ReadForEdit \/ WriteEdit \/ UNCHANGED vars
  BY <1>1, <1>2, EditKeepsIInv DEF ReadForEdit, WriteEdit, vars
<1>3. CASE BeginTick
  BY <1>3, BeginKeepsIInv
<1>4. CASE \E d \in Devices : Send(d)
  BY <1>4, SendKeepsIInv
<1>5. CASE \E w \in tick.waiting : Land(w) \/ Answer(w)
  BY <1>5, WriteKeepsIInv
<1>6. CASE WriteRules \/ WritePauses \/ Teardown
  BY <1>6, CloseKeepsIInv
<1>7. CASE \E d \in Devices : RosterCatchesUp(d) \/ HandFree(d)
  BY <1>7, WorldKeepsIInv
<1>8. CASE Clock
  <2>1. CASE Devices = {}
    BY <1>1, <1>8, <2>1 DEF Clock, IInv, WaitingIsOne, TypeOK, Ticks, Waiting
  <2>2. CASE Devices # {}
    BY <1>8, <2>2, WorldKeepsIInv
  <2> QED BY <2>1, <2>2
<1> QED BY <1>2, <1>3, <1>4, <1>5, <1>6, <1>7, <1>8 DEF Next

\* Between ticks, and whatever became of the writes of the ticks before, of a worker
\* torn down before its pause landed or of requests made meanwhile, a device the
\* router blocks has a record that says so: the only thing that knows to free it.
THEOREM BlocksAreRemembered ==
    ASSUME Faults \cap RecordFaults = {}
    PROVE  Spec => []BlockIsRemembered
<1>1. IInv => BlockIsRemembered
  BY DEF IInv, BlockIsRemembered, Remembers
<1>2. IInv /\ [Next]_vars => IInv'
  BY NextIInv
<1> QED BY InitIInv, <1>1, <1>2, PTL DEF Spec
================================================================================
