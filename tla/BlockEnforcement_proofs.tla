------------------------- MODULE BlockEnforcement_proofs -------------------------
(***************************************************************************)
(* Proofs about the desktop recorder's enforcement loop, for any devices,  *)
(* rules, retry window and bounds.                                         *)
(***************************************************************************)
EXTENDS BlockEnforcement, SequenceTheorems, TLAPS

--------------------------------------------------------------------------------
(* What the operators on records return.                                    *)

LEMMA BlankIsARecord == Blank \in DevicePauseRecord
BY RetryWindowIsPositive DEF Blank, DevicePauseRecord, PauseStates

LEMMA NotesKeepARecord ==
    ASSUME NEW p \in DevicePauseRecord, NEW kind \in WriteKinds, NEW state \in PauseStates
    PROVE  /\ NoteAttempt(p, kind) \in DevicePauseRecord
           /\ NotePauseState(p, state) \in DevicePauseRecord
           /\ NoteBlockLanded(p) \in DevicePauseRecord
           /\ NoteReleasedByHand \in DevicePauseRecord
           /\ Aged(p) \in DevicePauseRecord
<1>0. 0 \in 0 .. RetryWindow
  BY RetryWindowIsPositive
<1>1. NoteAttempt(p, kind) \in DevicePauseRecord
  BY <1>0 DEF NoteAttempt, DevicePauseRecord
<1>2. NotePauseState(p, state) \in DevicePauseRecord
  <2> DEFINE stays == p.confirmed /\ p.state = "applied" /\ state = "applied"
  <2>1. stays \in BOOLEAN
    OBVIOUS
  <2> HIDE DEF stays
  <2>2. [p EXCEPT !.state = state, !.age = 0, !.confirmed = stays, !.overridden = FALSE]
            \in DevicePauseRecord
    BY <1>0, <2>1 DEF DevicePauseRecord
  <2> QED BY <2>2 DEF NotePauseState, stays
<1>3. NoteBlockLanded(p) \in DevicePauseRecord
  BY DEF NoteBlockLanded, DevicePauseRecord
<1>4. NoteReleasedByHand \in DevicePauseRecord
  BY RetryWindowIsPositive DEF NoteReleasedByHand, DevicePauseRecord, PauseStates, WriteKinds
<1>5. Aged(p) \in DevicePauseRecord
  BY RetryWindowIsPositive DEF Aged, DevicePauseRecord
<1> QED BY <1>1, <1>2, <1>3, <1>4, <1>5

\* A note leaves the record noted, or drops one that reads "none".
LEMMA NotedValue ==
    ASSUME NEW before, NEW after, NEW rs, NEW d \in Devices
    PROVE  \/ Noted(before, after, rs)[d] = after[d]
           \/ after[d].state = "none" /\ Noted(before, after, rs)[d] = Blank
BY DEF Noted, ForgetSettled

LEMMA NotedType ==
    ASSUME NEW before \in [Devices -> DevicePauseRecord],
           NEW after \in [Devices -> DevicePauseRecord], NEW rs
    PROVE  Noted(before, after, rs) \in [Devices -> DevicePauseRecord]
BY BlankIsARecord DEF Noted, ForgetSettled

LEMMA SettledType ==
    ASSUME TypeOK, NEW nowHolding
    PROVE  Settled(nowHolding) \in [Devices -> DevicePauseRecord]
<1>1. RosterNoted \in [Devices -> DevicePauseRecord]
  BY NotesKeepARecord DEF RosterNoted, TypeOK, WriteKinds, PauseStates
<1>2. Noted(pauses, RosterNoted, rules) \in [Devices -> DevicePauseRecord]
  BY <1>1, NotedType DEF TypeOK
<1>3. ASSUME NEW p \in DevicePauseRecord
      PROVE  [p EXCEPT !.overridden = FALSE] \in DevicePauseRecord
  BY DEF DevicePauseRecord
<1> QED BY <1>2, <1>3 DEF Settled, ClearSettledOverrides

LEMMA ScannedType ==
    ASSUME TypeOK, NEW nowHolding, NEW d \in Devices
    PROVE  Scanned(d, nowHolding) \in DevicePauseRecord
<1> DEFINE p == Settled(nowHolding)[d]
<1>1. p \in DevicePauseRecord
  BY SettledType
<1>2. KindDue(d, nowHolding) \in WriteKinds
  BY DEF KindDue, WriteKinds
<1>3. /\ "pending" \in PauseStates /\ "failed" \in PauseStates
      /\ "applied" \in PauseStates /\ "pause" \in WriteKinds /\ "release" \in WriteKinds
  BY DEF PauseStates, WriteKinds
<1>4. ASSUME NEW k \in WriteKinds
      PROVE  NoteSending(p, d, k) \in DevicePauseRecord
  BY <1>1, <1>3, NotesKeepARecord DEF NoteSending
<1>5. ASSUME NEW k \in WriteKinds
      PROVE  NoteNoAccount(p, k) \in DevicePauseRecord
  BY <1>1, <1>3, NotesKeepARecord DEF NoteNoAccount
<1> HIDE DEF p
<1>6. CASE d \notin Due(nowHolding)
  BY <1>1, <1>6 DEF Scanned, p
<1>7. CASE d \in Due(nowHolding) /\ signedIn
  BY <1>2, <1>4, <1>7 DEF Scanned, p
<1>8. CASE d \in Due(nowHolding) /\ ~signedIn
  BY <1>2, <1>5, <1>8 DEF Scanned, p
<1> QED BY <1>6, <1>7, <1>8

--------------------------------------------------------------------------------
(* Type correctness.                                                        *)

LEMMA NewWriteQueued ==
    ASSUME NEW blocking \in BOOLEAN
    PROVE  /\ NewWrite(blocking) \in Write
           /\ <<NewWrite(blocking)>> \in Seq(Write)
           /\ <<>> \o <<NewWrite(blocking)>> = <<NewWrite(blocking)>>
           /\ Len(<<NewWrite(blocking)>>) = 1
           /\ <<NewWrite(blocking)>> # <<>>
           /\ Head(<<NewWrite(blocking)>>).blocking = blocking
           /\ Head(<<NewWrite(blocking)>>).landed = FALSE
<1>1. NewWrite(blocking) \in Write
  BY DEF NewWrite, Write
<1>2. ASSUME NEW w \in Write
      PROVE  /\ <<w>> \in Seq(Write) /\ Len(<<w>>) = 1
             /\ <<w>> # <<>> /\ Head(<<w>>) = w
  OBVIOUS
<1>3. <<>> \o <<NewWrite(blocking)>> = <<NewWrite(blocking)>>
  BY <1>1, <1>2, ConcatEmptySeq
<1>4. NewWrite(blocking).blocking = blocking /\ NewWrite(blocking).landed = FALSE
  BY DEF NewWrite
<1> QED BY <1>1, <1>2, <1>3, <1>4

LEMMA InitType == Init => TypeOK
<1> SUFFICES ASSUME Init PROVE TypeOK
  OBVIOUS
<1>1. pauses \in [Devices -> DevicePauseRecord]
  BY BlankIsARecord DEF Init
<1>2. asked \in [Devices -> Asked]
  BY RetryWindowIsPositive DEF Init, Asked, NeverAsked
<1>3. writes \in [Devices -> Seq(Write)] /\ behind \in [Devices -> Seq({"free", "blocked"})]
  BY DEF Init
<1> QED BY <1>1, <1>2, <1>3 DEF Init, TypeOK

LEMMA UpsertType ==
    ASSUME TypeOK, NEW r \in Rules, UpsertRule(r)
    PROVE  TypeOK'
BY DEF UpsertRule, TypeOK, worldVars, history

LEMMA RunMetersType == TypeOK /\ RunMeters => TypeOK'
<1> SUFFICES ASSUME TypeOK, RunMeters PROVE TypeOK'
  OBVIOUS
<1> PICK nowHolding \in SUBSET rules :
        /\ holding' = nowHolding
        /\ pauses' = Noted(Settled(nowHolding),
                           [d \in Devices |-> Scanned(d, nowHolding)], rules)
        /\ writes' = [d \in Devices |-> writes[d] \o Sent(d, nowHolding)]
        /\ asked' = [d \in Devices |->
                        IF d \in Due(nowHolding)
                        THEN [kind |-> KindDue(d, nowHolding), age |-> 0]
                        ELSE IF d \in ReleasedByHand(pauses, roster)
                        THEN NeverAsked ELSE asked[d]]
        /\ opened' = opened \ ReleasedByHand(pauses, roster)
        /\ UNCHANGED <<rules, auto, worldVars>>
  BY DEF RunMeters
<1>1. pauses' \in [Devices -> DevicePauseRecord]
  <2>1. [d \in Devices |-> Scanned(d, nowHolding)] \in [Devices -> DevicePauseRecord]
    BY ScannedType
  <2> QED BY <2>1, SettledType, NotedType
<1>2. writes' \in [Devices -> Seq(Write)]
  <2>1. ASSUME NEW d \in Devices PROVE Sent(d, nowHolding) \in Seq(Write)
    <3>1. \/ Sent(d, nowHolding) = <<>>
          \/ Sent(d, nowHolding) = <<NewWrite(TRUE)>>
          \/ Sent(d, nowHolding) = <<NewWrite(FALSE)>>
      BY DEF Sent
    <3>2. <<>> \in Seq(Write)
      BY EmptySeq
    <3> QED BY <3>1, <3>2, NewWriteQueued
  <2> QED BY <2>1 DEF TypeOK
<1>3. asked' \in [Devices -> Asked]
  <2>1. ASSUME NEW d \in Devices PROVE [kind |-> KindDue(d, nowHolding), age |-> 0] \in Asked
    BY RetryWindowIsPositive DEF Asked, KindDue, WriteKinds
  <2>2. NeverAsked \in Asked
    BY RetryWindowIsPositive DEF Asked, NeverAsked
  <2> QED BY <2>1, <2>2 DEF TypeOK
<1> QED BY <1>1, <1>2, <1>3 DEF TypeOK, worldVars

\* The answer to a write: the record settles and the write leaves the queue.
LEMMA SettleType ==
    ASSUME TypeOK, NEW d \in Devices, NEW state \in PauseStates,
           writes[d] # <<>>, Settle(d, state)
    PROVE  /\ rules' \subseteq Rules /\ auto' \subseteq rules' /\ holding' \subseteq rules'
           /\ pauses' \in [Devices -> DevicePauseRecord]
           /\ writes' \in [Devices -> Seq(Write)]
           /\ UNCHANGED <<router, behind, roster, signedIn, asked>>
<1>1. [pauses EXCEPT ![d] = NotePauseState(@, state)] \in [Devices -> DevicePauseRecord]
  BY NotesKeepARecord DEF TypeOK, WriteKinds
<1>2. pauses' \in [Devices -> DevicePauseRecord]
  BY <1>1, NotedType DEF Settle, TypeOK
<1>3. Tail(writes[d]) \in Seq(Write)
  BY DEF TypeOK
<1> QED BY <1>2, <1>3 DEF Settle, TypeOK, ruleVars, worldVars

LEMMA AnswerType ==
    ASSUME TypeOK, NEW d \in Devices,
           ReplyOk(d) \/ Dropped(d) \/ Refused(d) \/ ReplyLost(d)
    PROVE  TypeOK'
<1>1. /\ AfterSuccess(Blocks(d)) \in PauseStates
      /\ AfterFailure(Blocks(d)) \in PauseStates
  BY DEF AfterSuccess, AfterFailure, PauseStates
<1>2. /\ writes[d] # <<>>
      /\ Settle(d, AfterSuccess(Blocks(d))) \/ Settle(d, AfterFailure(Blocks(d)))
      /\ opened' \subseteq Devices
  BY DEF ReplyOk, Dropped, Refused, ReplyLost, TypeOK
<1> QED BY <1>1, <1>2, SettleType DEF TypeOK

\* The router takes an update, from a write or from a person.
LEMMA TurnType ==
    ASSUME TypeOK, NEW d \in Devices, NEW now \in {"free", "blocked"}, Turn(d, now)
    PROVE  /\ router' \in [Devices -> {"free", "blocked"}]
           /\ behind' \in [Devices -> Seq({"free", "blocked"})]
<1>1. Append(behind[d], router[d]) \in Seq({"free", "blocked"})
  BY DEF TypeOK
<1> QED BY <1>1 DEF Turn, TypeOK

LEMMA LandType ==
    ASSUME TypeOK, NEW d \in Devices, Land(d)
    PROVE  TypeOK'
<1>1. <<[Head(writes[d]) EXCEPT !.landed = TRUE]>> \o Tail(writes[d]) \in Seq(Write)
  <2>1. Head(writes[d]) \in Write /\ Tail(writes[d]) \in Seq(Write)
    BY DEF Land, TypeOK
  <2>2. [Head(writes[d]) EXCEPT !.landed = TRUE] \in Write
    BY <2>1 DEF Write
  <2> QED BY <2>1, <2>2
<1>2. writes' \in [Devices -> Seq(Write)]
  BY <1>1 DEF Land, TypeOK
<1>3. /\ router' \in [Devices -> {"free", "blocked"}]
      /\ behind' \in [Devices -> Seq({"free", "blocked"})]
  BY TurnType DEF Land
<1> QED BY <1>2, <1>3 DEF Land, TypeOK, ruleVars

LEMMA WorldType ==
    ASSUME TypeOK, NEW d \in Devices,
           \/ RosterCatchesUp(d) \/ ReadRoster(d) \/ MissingFromRoster(d) \/ HandFree(d)
    PROVE  TypeOK'
<1>1. CASE RosterCatchesUp(d)
  <2>1. Tail(behind[d]) \in Seq({"free", "blocked"})
    BY <1>1 DEF RosterCatchesUp, TypeOK
  <2> QED BY <1>1, <2>1 DEF RosterCatchesUp, TypeOK, ruleVars, history
<1>2. CASE ReadRoster(d)
  <2>1. Shown(d) \in {"free", "blocked"}
    BY DEF Shown, TypeOK
  <2> QED BY <1>2, <2>1 DEF ReadRoster, TypeOK, ruleVars, history
<1>3. CASE MissingFromRoster(d)
  BY <1>3 DEF MissingFromRoster, TypeOK, ruleVars, history
<1>4. CASE HandFree(d)
  BY <1>4, TurnType DEF HandFree, TypeOK, ruleVars
<1> QED BY <1>1, <1>2, <1>3, <1>4

LEMMA OtherType ==
    ASSUME TypeOK, SignOut \/ SignIn \/ Restart \/ Tick \/ UNCHANGED vars
    PROVE  TypeOK'
<1>1. CASE SignOut \/ SignIn
  BY <1>1 DEF SignOut, SignIn, TypeOK, ruleVars, history
<1>2. CASE Restart
  BY <1>2 DEF Restart, TypeOK, ruleVars, history
<1>3. CASE Tick
  <2>1. pauses' \in [Devices -> DevicePauseRecord]
    BY <1>3, NotesKeepARecord DEF Tick, TypeOK, PauseStates, WriteKinds
  <2>2. asked' \in [Devices -> Asked]
    <3>1. ASSUME NEW n \in 0 .. RetryWindow
          PROVE  (IF n < RetryWindow THEN n + 1 ELSE n) \in 0 .. RetryWindow
      BY RetryWindowIsPositive
    <3>2. ASSUME NEW a \in Asked
          PROVE  [a EXCEPT !.age = IF @ < RetryWindow THEN @ + 1 ELSE @] \in Asked
      BY <3>1 DEF Asked
    <3> QED BY <1>3, <3>2 DEF Tick, TypeOK
  <2> QED BY <1>3, <2>1, <2>2 DEF Tick, TypeOK, ruleVars, worldVars
<1>4. CASE UNCHANGED vars
  BY <1>4 DEF vars, TypeOK, ruleVars, worldVars, history
<1> QED BY <1>1, <1>2, <1>3, <1>4

LEMMA NextType == TypeOK /\ [Next]_vars => TypeOK'
<1> SUFFICES ASSUME TypeOK, [Next]_vars PROVE TypeOK'
  OBVIOUS
<1>1. CASE \E r \in Rules : UpsertRule(r)
  BY <1>1, UpsertType
<1>2. CASE \E gone \in SUBSET Rules : DropRules(gone)
  <2>1. PICK gone \in SUBSET Rules : DropRules(gone)
    BY <1>2
  <2> QED BY <2>1 DEF DropRules, TypeOK, worldVars, history
<1>3. CASE RunMeters
  BY <1>3, RunMetersType
<1>4. CASE \E d \in Devices : Land(d)
  BY <1>4, LandType
<1>5. CASE \E d \in Devices : ReplyOk(d) \/ Dropped(d) \/ Refused(d) \/ ReplyLost(d)
  BY <1>5, AnswerType
<1>6. CASE \E d \in Devices :
              RosterCatchesUp(d) \/ ReadRoster(d) \/ MissingFromRoster(d) \/ HandFree(d)
  BY <1>6, WorldType
<1>7. CASE SignOut \/ SignIn \/ Restart \/ Tick \/ UNCHANGED vars
  BY <1>7, OtherType
<1> QED BY <1>1, <1>2, <1>3, <1>4, <1>5, <1>6, <1>7 DEF Next

\* The enforcement loop keeps every variable in its type, whatever the world does:
\* in particular no record's age ever leaves the retry window.
THEOREM TypeCorrect == Spec => []TypeOK
<1> QED BY InitType, NextType, PTL DEF Spec

--------------------------------------------------------------------------------
(* A block is remembered, under the faults the recorder absorbs.  RecordInStep *)
(* is the strengthening: that a blocked device's record is never lost follows  *)
(* only from there being one write out, from the record naming it, and from    *)
(* the roster never calling free a block that was seen and still stands.       *)

IInv == TypeOK /\ signedIn /\ RecordInStep

LEMMA AbsentFaults ==
    ASSUME Faults \subseteq BenignFaults
    PROVE  /\ "refusedRepeat" \notin Faults /\ "droppedRelease" \notin Faults
           /\ "lostPauseReply" \notin Faults /\ "signOut" \notin Faults
           /\ "slowWrite" \notin Faults /\ "reholdMidRelease" \notin Faults
           /\ "staleRoster" \notin Faults
BY DEF BenignFaults

\* With one write out, answering it leaves none.
LEMMA OnlyWrite ==
    ASSUME TypeOK, NEW d \in Devices, InStep(d), writes[d] # <<>>
    PROVE  /\ Tail(writes[d]) = <<>>
           /\ writes[d] = <<Head(writes[d])>>
           /\ Head(writes[d]) \in Write
<1>1. writes[d] \in Seq(Write) /\ Len(writes[d]) = 1
  BY DEF InStep, TypeOK
<1>2. ASSUME NEW w \in Seq(Write), Len(w) = 1
      PROVE  Tail(w) = <<>> /\ w = <<Head(w)>> /\ Head(w) \in Write
  <2>1. w # <<>>
    <3>1. Len(<<>>) = 0 /\ 0 # 1
      BY EmptySeq
    <3> QED BY <1>2, <3>1, Zenon
  <2>2. Len(Tail(w)) = 0 /\ Tail(w) \in Seq(Write) /\ Head(w) \in Write
    BY <1>2, <2>1, HeadTailProperties
  <2>3. Tail(w) = <<>>
    BY <2>2, EmptySeq
  <2>4. Head(w) = w[1]
    BY <2>1
  <2>5. <<Head(w)>> \in Seq(Write) /\ Len(<<Head(w)>>) = 1 /\ <<Head(w)>>[1] = w[1]
    BY <2>2, <2>4
  <2>6. w = <<Head(w)>>
    BY <1>2, <2>5, SeqEqual
  <2> QED BY <2>2, <2>3, <2>6
<1> QED BY <1>1, <1>2

\* What a poll's reading of the roster does to one record, before any write.
LEMMA SettledValue ==
    ASSUME TypeOK, NEW d \in Devices, NEW nowHolding
    PROVE  LET p == pauses[d]
               s == Settled(nowHolding)[d]
           IN  /\ \/ /\ s.state = p.state /\ s.attempted = p.attempted /\ s.age = p.age
                     /\ s.confirmed => p.confirmed \/ roster[d] = "blocked"
                  \/ /\ s.state = "none"
                     /\ \/ p.state = "none"
                        \/ p.state = "applied" /\ p.confirmed /\ roster[d] = "free"
               /\ d \in ReleasedByHand(pauses, roster) => s.state = "none"
<1> DEFINE p == pauses[d]
           r == RosterNoted[d]
           n == Noted(pauses, RosterNoted, rules)[d]
           s == Settled(nowHolding)[d]
<1>1. p \in DevicePauseRecord /\ n \in DevicePauseRecord
  <2>1. RosterNoted \in [Devices -> DevicePauseRecord]
    BY NotesKeepARecord DEF RosterNoted, TypeOK, WriteKinds, PauseStates
  <2> QED BY <2>1, NotedType DEF TypeOK
<1>2. \/ d \in BlocksLanded(pauses, roster) /\ r = NoteBlockLanded(p)
      \/ d \in ReleasedByHand(pauses, roster) /\ r = NoteReleasedByHand
      \/ r = p
  BY DEF RosterNoted
<1>3. \/ /\ r.state = p.state /\ r.attempted = p.attempted /\ r.age = p.age
         /\ r.confirmed => p.confirmed \/ roster[d] = "blocked"
      \/ r.state = "none" /\ p.state = "applied" /\ p.confirmed /\ roster[d] = "free"
  BY <1>1, <1>2 DEF BlocksLanded, ReleasedByHand, NoteBlockLanded, NoteReleasedByHand,
                    DevicePauseRecord
<1>4. n = r \/ (r.state = "none" /\ n = Blank)
  BY NotedValue
<1>5. /\ s.state = n.state /\ s.attempted = n.attempted
      /\ s.age = n.age /\ s.confirmed = n.confirmed
  BY <1>1 DEF Settled, ClearSettledOverrides, DevicePauseRecord
<1>6. Blank.state = "none"
  BY DEF Blank
<1>8. d \in ReleasedByHand(pauses, roster) => s.state = "none"
  <2> SUFFICES ASSUME d \in ReleasedByHand(pauses, roster) PROVE s.state = "none"
    OBVIOUS
  <2>1. r = NoteReleasedByHand
    BY DEF RosterNoted, ReleasedByHand, BlocksLanded
  <2>2. r.state = "none"
    BY <2>1 DEF NoteReleasedByHand
  <2> HIDE DEF r, n, s
  <2> QED BY <1>4, <1>5, <1>6, <2>2
<1> HIDE DEF p, r, n, s
<1>7. \/ /\ s.state = p.state /\ s.attempted = p.attempted /\ s.age = p.age
         /\ s.confirmed => p.confirmed \/ roster[d] = "blocked"
      \/ /\ s.state = "none"
         /\ \/ p.state = "none"
            \/ p.state = "applied" /\ p.confirmed /\ roster[d] = "free"
  BY <1>3, <1>4, <1>5, <1>6
<1> QED BY <1>7, <1>8 DEF p, s

\* A poll writes for no device that has a write out already.
LEMMA NoSecondWrite ==
    ASSUME TypeOK, NEW d \in Devices, InStep(d), NEW nowHolding,
           "reholdMidRelease" \notin Faults, MayTakeHold(nowHolding),
           writes[d] # <<>>
    PROVE  d \notin Due(nowHolding)
<1> DEFINE p == pauses[d]
           s == Settled(nowHolding)[d]
<1>1. /\ p.age \in 0 .. RetryWindow /\ s.age \in 0 .. RetryWindow
      /\ RetryWindow \in Nat
  BY SettledType, RetryWindowIsPositive DEF TypeOK, DevicePauseRecord
<1>2. CASE Blocks(d)
  <2>1. p.state = "pending" /\ p.attempted = "pause" /\ p.age < RetryWindow
    BY <1>2 DEF InStep
  <2>2. s.state = "pending" /\ s.attempted = "pause" /\ s.age < RetryWindow
    BY <2>1, SettledValue
  <2> QED BY <1>1, <2>2 DEF Due, PausesDue, ReleasesDue, PausesOwed, ReleasesOwed,
                            DueNow, Stalled
<1>3. CASE ~Blocks(d)
  <2>1. /\ ~Held(d)
        /\ \/ p.state = "none"
           \/ /\ p.state \in {"applied", "pending"}
              /\ p.attempted = "release" /\ p.age < RetryWindow
    BY <1>3 DEF InStep
  <2>2. ~DeviceHeld(nowHolding, d)
    <3>1. Releasing(d)
      BY <1>3 DEF Releasing, Blocks, TypeOK
    <3> QED BY <2>1, <3>1 DEF MayTakeHold
  <2>3. d \notin PausesDue(nowHolding)
    BY <2>2 DEF PausesDue, PausesOwed, DevicesOwedPause, DeviceHeld, DevicesOf
  <2>4. \/ s.state = "none"
        \/ s.attempted = "release" /\ s.age < RetryWindow
    BY <2>1, SettledValue
  <2>5. d \notin ReleasesDue(nowHolding)
    BY <1>1, <2>4 DEF ReleasesDue, ReleasesOwed, DueNow, Stalled
  <2> QED BY <2>3, <2>5 DEF Due
<1> QED BY <1>2, <1>3

LEMMA RunMetersKeepsStep ==
    ASSUME IInv, RunMeters, Faults \subseteq BenignFaults, NEW d \in Devices
    PROVE  InStep(d)'
<1> PICK nowHolding \in SUBSET rules :
        /\ MayTakeHold(nowHolding)
        /\ holding' = nowHolding
        /\ pauses' = Noted(Settled(nowHolding),
                           [e \in Devices |-> Scanned(e, nowHolding)], rules)
        /\ writes' = [e \in Devices |-> writes[e] \o Sent(e, nowHolding)]
        /\ asked' = [e \in Devices |->
                        IF e \in Due(nowHolding)
                        THEN [kind |-> KindDue(e, nowHolding), age |-> 0]
                        ELSE IF e \in ReleasedByHand(pauses, roster)
                        THEN NeverAsked ELSE asked[e]]
        /\ UNCHANGED <<rules, auto, router, behind, roster, signedIn>>
  BY DEF RunMeters, worldVars
<1> DEFINE p == pauses[d]
           s == Settled(nowHolding)[d]
           q == Scanned(d, nowHolding)
<1>1. TypeOK /\ signedIn /\ InStep(d) /\ "reholdMidRelease" \notin Faults
  BY AbsentFaults DEF IInv, RecordInStep
<1>2. /\ s \in DevicePauseRecord /\ p \in DevicePauseRecord
      /\ RetryWindow \in Nat \ {0}
  BY <1>1, SettledType, RetryWindowIsPositive DEF TypeOK
<1>3. \/ /\ s.state = p.state /\ s.attempted = p.attempted /\ s.age = p.age
         /\ s.confirmed => p.confirmed \/ roster[d] = "blocked"
      \/ /\ s.state = "none"
         /\ p.state = "none" \/ (p.state = "applied" /\ p.confirmed /\ roster[d] = "free")
  BY <1>1, SettledValue
<1>4. pauses'[d] = q \/ (q.state = "none" /\ pauses'[d] = Blank)
  BY NotedValue
<1>5. Blank.state = "none"
  BY DEF Blank
\* What the roster could say of a block that stands never undoes its record.
<1>6. router[d] = "blocked" =>
         /\ d \in Routable
         /\ s.state = p.state /\ p.state \in {"applied", "pending"}
         /\ behind[d] = <<>> \/ (behind[d] = <<"free">> /\ roster[d] # "blocked")
         /\ s.state = "applied" /\ s.confirmed => behind[d] = <<>> /\ roster[d] # "free"
  BY <1>1, <1>3 DEF InStep
<1>7. CASE d \notin Due(nowHolding)
  <2>1. q = s
    BY <1>7 DEF Scanned
  <2>2. writes'[d] = writes[d]
    <3>1. Sent(d, nowHolding) = <<>>
      BY <1>7 DEF Sent, Due
    <3> QED BY <1>1, <3>1, ConcatEmptySeq DEF TypeOK
  <2>3. writes[d] # <<>> /\ ~Blocks(d) => ~DeviceHeld(nowHolding, d)
    <3> SUFFICES ASSUME writes[d] # <<>>, ~Blocks(d) PROVE ~DeviceHeld(nowHolding, d)
      OBVIOUS
    <3>1. Releasing(d)
      BY <1>1 DEF Releasing, Blocks, TypeOK
    <3>2. ~Held(d)
      BY <1>1 DEF InStep
    <3> QED BY <1>1, <3>1, <3>2 DEF MayTakeHold
  <2>4. asked'[d] = asked[d] \/ (d \in ReleasedByHand(pauses, roster) /\ s.state = "none")
    BY <1>1, <1>7, SettledValue
  <2>5. pauses'[d] = s \/ (s.state = "none" /\ pauses'[d].state = "none")
    BY <2>1, <1>4, <1>5
  <2>6. /\ Blocks(d)' = Blocks(d) /\ Held(d)' = DeviceHeld(nowHolding, d)
    BY <2>2 DEF Blocks, Held
  <2> HIDE DEF p, s, q
  <2>7. /\ writes'[d] # <<>> => Len(writes'[d]) = 1 /\ d \in Routable
        /\ writes'[d] # <<>> /\ Blocks(d)' =>
              /\ pauses'[d].state = "pending" /\ pauses'[d].attempted = "pause"
              /\ pauses'[d].age = asked'[d].age /\ pauses'[d].age < RetryWindow
    BY <1>1, <1>3, <2>2, <2>4, <2>5, <2>6 DEF InStep, p
  <2>8. writes'[d] # <<>> /\ ~Blocks(d)' =>
           /\ ~Held(d)'
           /\ \/ pauses'[d].state = "none"
              \/ /\ pauses'[d].state \in {"applied", "pending"}
                 /\ pauses'[d].attempted = "release"
                 /\ pauses'[d].age = asked'[d].age /\ pauses'[d].age < RetryWindow
           /\ Head(writes'[d]).landed => router[d] = "free"
    BY <1>1, <1>3, <2>2, <2>3, <2>4, <2>5, <2>6 DEF InStep, p
  <2>9. router[d] = "blocked" => pauses'[d] = s
    BY <1>6, <2>5
  <2> QED BY <1>6, <2>7, <2>8, <2>9 DEF InStep
<1>8. CASE d \in Due(nowHolding)
  <2>1. writes[d] = <<>>
    BY <1>1, <1>8, NoSecondWrite
  <2>2. CASE d \notin Routable
    <3>1. router[d] # "blocked"
      BY <1>6, <2>2
    <3>2. writes'[d] = <<>>
      BY <2>1, <2>2 DEF Sent
    <3> QED BY <3>1, <3>2 DEF InStep
  <2>3. CASE d \in Routable /\ d \in PausesDue(nowHolding)
    <3>1. /\ q.state = "pending" /\ q.attempted = "pause" /\ q.age = 0
      BY <1>1, <1>2, <1>8, <2>3 DEF Scanned, KindDue, NoteSending, NoteAttempt,
                                    NotePauseState, DevicePauseRecord
    <3>2. writes'[d] = <<NewWrite(TRUE)>>
      BY <1>1, <2>1, <2>3, NewWriteQueued DEF Sent
    <3>3. asked'[d].age = 0 /\ pauses'[d] = q
      BY <1>4, <1>8, <3>1
    <3>4. writes'[d] # <<>> /\ Len(writes'[d]) = 1 /\ Blocks(d)'
      BY <3>2, NewWriteQueued DEF Blocks
    <3> HIDE DEF p, s, q
    <3> QED BY <1>2, <1>6, <2>3, <3>1, <3>3, <3>4 DEF InStep
  <2>4. CASE d \in Routable /\ d \notin PausesDue(nowHolding)
    <3>1. /\ d \in ReleasesDue(nowHolding)
          /\ ~DeviceHeld(nowHolding, d) /\ s.state \in {"applied", "pending"}
      BY <1>8, <2>4 DEF Due, ReleasesDue, ReleasesOwed
    <3>2. /\ q.state = s.state /\ q.attempted = "release" /\ q.age = 0
          /\ q.confirmed = s.confirmed
      BY <1>1, <1>2, <1>8, <2>4 DEF Scanned, KindDue, NoteSending, NoteAttempt,
                                    DevicePauseRecord
    <3>3. writes'[d] = <<NewWrite(FALSE)>>
      BY <1>1, <2>1, <2>4, <3>1, NewWriteQueued DEF Sent
    <3>4. asked'[d].age = 0 /\ pauses'[d] = q
      BY <1>4, <1>8, <3>1, <3>2
    <3>5. /\ writes'[d] # <<>> /\ Len(writes'[d]) = 1
          /\ ~Blocks(d)' /\ ~Head(writes'[d]).landed /\ ~Held(d)'
      BY <3>1, <3>3, NewWriteQueued DEF Blocks, Held
    <3> HIDE DEF p, s, q
    <3> QED BY <1>2, <1>6, <2>4, <3>1, <3>2, <3>4, <3>5 DEF InStep
  <2> QED BY <2>2, <2>3, <2>4
<1> QED BY <1>7, <1>8

\* A device a step does not touch stays in step, rules that let go of it and a
\* settled record dropped included.
LEMMA UntouchedKeepsStep ==
    ASSUME NEW d \in Devices, InStep(d),
           writes'[d] = writes[d], router'[d] = router[d], behind'[d] = behind[d],
           roster'[d] = roster[d], asked'[d] = asked[d], Held(d)' => Held(d),
           \/ pauses'[d] = pauses[d]
           \/ pauses[d].state = "none" /\ pauses'[d].state = "none"
    PROVE  InStep(d)'
<1>1. Blocks(d)' = Blocks(d)
  BY DEF Blocks
<1> QED BY <1>1 DEF InStep

LEMMA RulesKeepStep ==
    ASSUME IInv, Faults \subseteq BenignFaults, NEW d \in Devices,
           \/ \E r \in Rules : UpsertRule(r)
           \/ \E gone \in SUBSET Rules : DropRules(gone)
    PROVE  InStep(d)'
<1>1. /\ UNCHANGED <<pauses, writes, router, behind, roster, asked>>
      /\ MayTakeHold(holding') \/ holding' \subseteq holding
  BY DEF UpsertRule, DropRules, worldVars, history
<1>2. TypeOK /\ InStep(d) /\ "reholdMidRelease" \notin Faults
  BY AbsentFaults DEF IInv, RecordInStep
<1>3. CASE holding' \subseteq holding
  <2>1. Held(d)' => Held(d)
    BY <1>3 DEF Held, DeviceHeld, DevicesOf
  <2> QED BY <1>1, <1>2, <2>1, UntouchedKeepsStep
<1>4. CASE MayTakeHold(holding')
  <2>1. writes[d] # <<>> /\ ~Blocks(d) => ~Held(d)'
    <3> SUFFICES ASSUME writes[d] # <<>>, ~Blocks(d) PROVE ~Held(d)'
      OBVIOUS
    <3>1. Releasing(d)
      BY <1>2 DEF Releasing, Blocks, TypeOK
    <3>2. ~Held(d)
      BY <1>2 DEF InStep
    <3> QED BY <1>2, <1>4, <3>1, <3>2 DEF MayTakeHold, Held
  <2>2. Blocks(d)' = Blocks(d)
    BY <1>1 DEF Blocks
  <2> QED BY <1>1, <1>2, <2>1, <2>2 DEF InStep
<1> QED BY <1>1, <1>3, <1>4

\* A write lands only once the roster is level with the router, so a block that
\* lands is at most one change ahead of what the roster will say next.
LEMMA LandKeepsStep ==
    ASSUME IInv, Faults \subseteq BenignFaults, NEW d \in Devices,
           NEW e \in Devices, Land(e)
    PROVE  InStep(d)'
<1>1. TypeOK /\ InStep(d) /\ InStep(e) /\ "staleRoster" \notin Faults
  BY AbsentFaults DEF IInv, RecordInStep
<1>2. UNCHANGED <<holding, pauses, roster, asked>> /\ Held(d)' = Held(d)
  BY DEF Land, ruleVars, Held
<1>3. CASE e # d
  <2>1. writes'[d] = writes[d] /\ router'[d] = router[d] /\ behind'[d] = behind[d]
    BY <1>1, <1>3 DEF Land, Turn, TypeOK
  <2> QED BY <1>1, <1>2, <2>1, UntouchedKeepsStep
<1>4. CASE e = d
  <2> DEFINE w == Head(writes[d])
             v == [w EXCEPT !.landed = TRUE]
  <2>1. writes[d] # <<>> /\ Tail(writes[d]) = <<>> /\ w \in Write
    BY <1>1, <1>4, OnlyWrite DEF Land
  <2>2. v \in Write /\ v.blocking = w.blocking
    BY <2>1 DEF Write
  <2>3. <<v>> \in Seq(Write) /\ Head(<<v>>) = v /\ Len(<<v>>) = 1 /\ <<v>> # <<>>
    <3> HIDE DEF v
    <3> QED BY <2>2
  <2>4. writes'[d] = <<v>>
    <3>1. writes'[d] = <<v>> \o Tail(writes[d])
      BY <1>1, <1>4 DEF Land, TypeOK
    <3> HIDE DEF v, w
    <3> QED BY <2>1, <2>3, <3>1, ConcatEmptySeq
  <2>5. Blocks(d)' = Blocks(d)
    <3>1. Blocks(d)' = v.blocking
      BY <2>3, <2>4 DEF Blocks
    <3> QED BY <2>2, <3>1 DEF Blocks
  <2>6. d \in Routable /\ behind[d] = <<>> /\ roster[d] \in {"unasked", router[d]}
    BY <1>1, <1>4, <2>1 DEF InStep, Land, Fresh, RosterSettled
  <2>7. writes'[d] # <<>> /\ Len(writes'[d]) = 1
    BY <2>3, <2>4
  <2>8. CASE Blocks(d)
    <3>1. pauses[d].state = "pending" /\ pauses[d].attempted = "pause"
          /\ pauses[d].age = asked[d].age /\ pauses[d].age < RetryWindow
      BY <1>1, <2>1, <2>8 DEF InStep
    <3>2. behind'[d] = <<>> \/ (behind'[d] = <<"free">> /\ roster[d] # "blocked")
      <4>1. CASE router[d] = "blocked"
        BY <1>1, <1>4, <2>6, <2>8, <4>1 DEF Land, Turn, TypeOK
      <4>2. CASE router[d] = "free"
        <5>1. behind'[d] = Append(behind[d], "free")
          BY <1>1, <1>4, <2>8, <4>2 DEF Land, Turn, TypeOK
        <5>2. Append(<<>>, "free") = <<"free">>
          OBVIOUS
        <5> QED BY <2>6, <4>2, <5>1, <5>2
      <4> QED BY <1>1, <4>1, <4>2 DEF TypeOK
    <3> HIDE DEF v, w
    <3> QED BY <1>2, <2>5, <2>6, <2>7, <2>8, <3>1, <3>2 DEF InStep
  <2>9. CASE ~Blocks(d)
    <3>1. router'[d] = "free"
      BY <1>1, <1>4, <2>9 DEF Land, Turn, TypeOK
    <3> HIDE DEF v, w
    <3> QED BY <1>1, <1>2, <2>1, <2>5, <2>6, <2>7, <2>9, <3>1 DEF InStep
  <2> QED BY <2>8, <2>9
<1> QED BY <1>3, <1>4

\* An answer that leaves "applied" behind whenever the router still blocks keeps
\* every device in step, the answered one included.
LEMMA SettleKeepsStep ==
    ASSUME IInv, NEW d \in Devices, NEW e \in Devices, NEW state \in PauseStates,
           writes[e] # <<>>, Settle(e, state),
           router[e] = "blocked" => state = "applied"
    PROVE  InStep(d)'
<1> DEFINE after == [pauses EXCEPT ![e] = NotePauseState(@, state)]
<1>1. TypeOK /\ InStep(d) /\ InStep(e)
  BY DEF IInv, RecordInStep
<1>2. /\ UNCHANGED <<holding, router, behind, roster, asked>>
      /\ Held(d)' = Held(d)
  BY DEF Settle, ruleVars, worldVars, Held
<1>3. \/ pauses'[d] = after[d]
      \/ after[d].state = "none" /\ pauses'[d] = Blank
  <2>1. pauses' = Noted(pauses, after, rules)
    BY DEF Settle
  <2> HIDE DEF after
  <2> QED BY <2>1, NotedValue
<1>4. CASE e # d
  <2>1. after[d] = pauses[d] /\ writes'[d] = writes[d]
    BY <1>1, <1>4 DEF Settle, TypeOK
  <2>2. pauses'[d] = pauses[d] \/ (pauses[d].state = "none" /\ pauses'[d].state = "none")
    BY <1>3, <2>1 DEF Blank
  <2> QED BY <1>1, <1>2, <2>1, <2>2, UntouchedKeepsStep
<1>5. CASE e = d
  <2>1. writes'[d] = <<>>
    BY <1>1, <1>5, OnlyWrite DEF Settle, TypeOK
  <2>2. after[d] = NotePauseState(pauses[d], state)
    BY <1>1, <1>5 DEF TypeOK
  <2>3. router[d] = "blocked" =>
           /\ pauses'[d].state = "applied"
           /\ pauses'[d].confirmed => pauses[d].confirmed /\ pauses[d].state = "applied"
    <3>1. pauses[d] \in DevicePauseRecord
      BY <1>1 DEF TypeOK
    <3>2. /\ after[d].state = state
          /\ after[d].confirmed => pauses[d].confirmed /\ pauses[d].state = "applied"
      BY <2>2, <3>1 DEF NotePauseState, DevicePauseRecord
    <3> HIDE DEF after
    <3> QED BY <1>3, <1>5, <3>2
  <2> QED BY <1>1, <1>2, <2>1, <2>3 DEF InStep
<1> QED BY <1>4, <1>5

LEMMA AnswerKeepsStep ==
    ASSUME IInv, Faults \subseteq BenignFaults, NEW d \in Devices, NEW e \in Devices,
           ReplyOk(e) \/ Dropped(e) \/ Refused(e) \/ ReplyLost(e)
    PROVE  InStep(d)'
<1>1. TypeOK /\ InStep(e) /\ signedIn
  BY DEF IInv, RecordInStep
<1>2. PICK state \in PauseStates :
         /\ writes[e] # <<>> /\ Settle(e, state)
         /\ router[e] = "blocked" => state = "applied"
  <2>1. AfterSuccess(TRUE) = "applied" /\ AfterFailure(FALSE) = "applied"
    BY DEF AfterSuccess, AfterFailure
  <2>2. AfterSuccess(Blocks(e)) \in PauseStates /\ AfterFailure(Blocks(e)) \in PauseStates
    BY DEF AfterSuccess, AfterFailure, PauseStates
  <2>3. Blocks(e) \in BOOLEAN /\ router[e] \in {"free", "blocked"}
    <3>1. writes[e] # <<>>
      BY DEF ReplyOk, Dropped, Refused, ReplyLost
    <3>2. Head(writes[e]) \in Write
      BY <1>1, <3>1, OnlyWrite
    <3> QED BY <1>1, <3>2 DEF Blocks, Write, TypeOK
  <2>4. writes[e] # <<>> /\ ~Blocks(e) /\ Head(writes[e]).landed => router[e] = "free"
    BY <1>1 DEF InStep
  <2>5. CASE ReplyOk(e)
    BY <2>1, <2>2, <2>3, <2>4, <2>5 DEF ReplyOk
  <2>6. CASE Dropped(e)
    BY <2>1, <2>2, <2>3, <2>6, AbsentFaults DEF Dropped
  <2>7. CASE Refused(e)
    BY <1>1, <2>1, <2>2, <2>3, <2>7, AbsentFaults DEF Refused
  <2>8. CASE ReplyLost(e)
    BY <2>1, <2>2, <2>3, <2>4, <2>8, AbsentFaults DEF ReplyLost
  <2> QED BY <2>5, <2>6, <2>7, <2>8
<1> QED BY <1>2, SettleKeepsStep

\* The roster moving, being read or losing a row, and a person unpausing.
LEMMA WorldKeepsStep ==
    ASSUME IInv, NEW d \in Devices, NEW e \in Devices,
           \/ RosterCatchesUp(e) \/ ReadRoster(e) \/ MissingFromRoster(e) \/ HandFree(e)
    PROVE  InStep(d)'
<1>1. TypeOK /\ InStep(d)
  BY DEF IInv, RecordInStep
<1>2. /\ UNCHANGED <<holding, pauses, writes, asked>>
      /\ Held(d)' = Held(d) /\ Blocks(d)' = Blocks(d)
  BY DEF RosterCatchesUp, ReadRoster, MissingFromRoster, HandFree,
         ruleVars, history, Held, Blocks
<1>3. CASE e # d
  <2>1. router'[d] = router[d] /\ behind'[d] = behind[d] /\ roster'[d] = roster[d]
    BY <1>1, <1>3 DEF RosterCatchesUp, ReadRoster, MissingFromRoster, HandFree, Turn, TypeOK
  <2> QED BY <1>1, <1>2, <2>1, UntouchedKeepsStep
<1>4. CASE e = d /\ RosterCatchesUp(d)
  <2>1. /\ UNCHANGED <<router, roster>> /\ behind[d] # <<>>
        /\ behind'[d] = Tail(behind[d])
    BY <1>1, <1>4 DEF RosterCatchesUp, TypeOK
  <2>2. Tail(<<"free">>) = <<>>
    OBVIOUS
  <2>3. router[d] = "blocked" =>
           behind'[d] = <<>> /\ ~(pauses[d].state = "applied" /\ pauses[d].confirmed)
    BY <1>1, <2>1, <2>2 DEF InStep
  <2> QED BY <1>1, <1>2, <2>1, <2>3 DEF InStep
<1>5. CASE e = d /\ ReadRoster(d)
  <2>1. UNCHANGED <<router, behind>> /\ roster'[d] = Shown(d)
    BY <1>1, <1>5 DEF ReadRoster, TypeOK
  <2>2. behind[d] = <<>> => Shown(d) = router[d]
    BY DEF Shown
  <2>3. behind[d] = <<"free">> => Shown(d) = "free"
    BY DEF Shown
  <2> QED BY <1>1, <1>2, <2>1, <2>2, <2>3 DEF InStep
<1>6. CASE e = d /\ MissingFromRoster(d)
  <2>1. UNCHANGED <<router, behind>> /\ roster'[d] = "unasked"
    BY <1>1, <1>6 DEF MissingFromRoster, TypeOK
  <2> QED BY <1>1, <1>2, <2>1 DEF InStep
<1>7. CASE e = d /\ HandFree(d)
  <2>1. router'[d] = "free"
    BY <1>1, <1>7 DEF HandFree, Turn, TypeOK
  <2> QED BY <1>1, <1>2, <2>1 DEF InStep
<1> QED BY <1>3, <1>4, <1>5, <1>6, <1>7

\* A restart forgets the write and the roster, and neither is what the record of a
\* block rests on.
LEMMA RestartKeepsStep ==
    ASSUME IInv, Restart, NEW d \in Devices
    PROVE  InStep(d)'
<1>1. InStep(d)
  BY DEF IInv, RecordInStep
<1>2. /\ UNCHANGED <<pauses, router, behind>>
      /\ writes'[d] = <<>> /\ roster'[d] = "unasked"
  BY DEF Restart
<1> QED BY <1>1, <1>2 DEF InStep

\* The clock: a record and the write it names grow old together.
LEMMA TickKeepsStep ==
    ASSUME IInv, Tick, Faults \subseteq BenignFaults, NEW d \in Devices
    PROVE  InStep(d)'
<1> DEFINE p == pauses[d]
           q == pauses'[d]
<1>1. TypeOK /\ InStep(d) /\ "slowWrite" \notin Faults
  BY AbsentFaults DEF IInv, RecordInStep
<1>2. /\ UNCHANGED <<holding, writes, router, behind, roster>>
      /\ Held(d)' = Held(d) /\ Blocks(d)' = Blocks(d)
  BY DEF Tick, ruleVars, worldVars, Held, Blocks
<1>3. /\ p \in DevicePauseRecord /\ asked[d] \in Asked /\ RetryWindow \in Nat
      /\ p.age \in Nat /\ asked[d].age \in Nat
  BY <1>1, RetryWindowIsPositive DEF TypeOK, DevicePauseRecord, Asked
<1>4. /\ q.state = p.state /\ q.attempted = p.attempted /\ q.confirmed = p.confirmed
      /\ p.age < RetryWindow => q.age = p.age + 1
  BY <1>3 DEF Tick, Aged, DevicePauseRecord
<1>5. asked[d].age < RetryWindow => asked'[d].age = asked[d].age + 1
  BY <1>3 DEF Tick, Asked
<1>6. writes[d] # <<>> => asked[d].age + 1 < RetryWindow
  BY <1>1 DEF Tick
<1>7. writes[d] # <<>> /\ p.age = asked[d].age => q.age = asked'[d].age /\ q.age < RetryWindow
  BY <1>3, <1>4, <1>5, <1>6
<1> HIDE DEF q
<1> QED BY <1>1, <1>2, <1>4, <1>7 DEF InStep, q

LEMMA InitInStep == Init => IInv
<1> SUFFICES ASSUME Init PROVE IInv
  OBVIOUS
<1>1. ASSUME NEW d \in Devices PROVE InStep(d)
  BY DEF Init, InStep
<1> QED BY <1>1, InitType DEF IInv, RecordInStep, Init

LEMMA NextInStep ==
    ASSUME Faults \subseteq BenignFaults
    PROVE  IInv /\ [Next]_vars => IInv'
<1> SUFFICES ASSUME IInv, [Next]_vars PROVE IInv'
  OBVIOUS
<1>1. TypeOK' /\ ~SignOut /\ ~SignIn
  BY NextType, AbsentFaults DEF IInv, SignOut, SignIn
<1>2. signedIn'
  BY <1>1 DEF IInv, Next, UpsertRule, DropRules, RunMeters, Land, ReplyOk, Dropped, Refused,
              ReplyLost, Settle, RosterCatchesUp, ReadRoster, MissingFromRoster, HandFree,
              Restart, Tick, vars, worldVars
<1>3. ASSUME NEW d \in Devices PROVE InStep(d)'
  <2>1. CASE \/ \E r \in Rules : UpsertRule(r)
             \/ \E gone \in SUBSET Rules : DropRules(gone)
    BY <2>1, RulesKeepStep
  <2>2. CASE RunMeters
    BY <2>2, RunMetersKeepsStep
  <2>3. CASE \E e \in Devices : Land(e)
    BY <2>3, LandKeepsStep
  <2>4. CASE \E e \in Devices : ReplyOk(e) \/ Dropped(e) \/ Refused(e) \/ ReplyLost(e)
    BY <2>4, AnswerKeepsStep
  <2>5. CASE \E e \in Devices :
                RosterCatchesUp(e) \/ ReadRoster(e) \/ MissingFromRoster(e) \/ HandFree(e)
    BY <2>5, WorldKeepsStep
  <2>6. CASE Restart
    BY <2>6, RestartKeepsStep
  <2>7. CASE Tick
    BY <2>7, TickKeepsStep
  <2>8. CASE UNCHANGED vars
    <3>1. InStep(d) /\ Held(d)' = Held(d)
      BY <2>8 DEF IInv, RecordInStep, Held, vars, ruleVars
    <3> QED BY <2>8, <3>1, UntouchedKeepsStep DEF vars, worldVars, history
  <2> QED BY <1>1, <2>1, <2>2, <2>3, <2>4, <2>5, <2>6, <2>7, <2>8 DEF Next
<1> QED BY <1>1, <1>2, <1>3 DEF IInv, RecordInStep

\* Under the faults the recorder absorbs, a device's record and its write never
\* fall out of step, for any devices, rules, retry window and bounds.
THEOREM StaysInStep ==
    ASSUME Faults \subseteq BenignFaults
    PROVE  Spec => []RecordInStep
<1>1. IInv => RecordInStep
  BY DEF IInv
<1>2. IInv /\ [Next]_vars => IInv'
  BY NextInStep
<1> QED BY InitInStep, <1>1, <1>2, PTL DEF Spec

\* Under the same faults no device is ever left blocked without a record that can
\* still lead to its release.
THEOREM BlocksAreRemembered ==
    ASSUME Faults \subseteq BenignFaults
    PROVE  Spec => []BlockIsRemembered
<1>1. RecordInStep => BlockIsRemembered
  BY DEF RecordInStep, InStep, BlockIsRemembered
<1>2. Spec => []RecordInStep
  BY StaysInStep
<1> QED BY <1>1, <1>2, PTL

\* A note never drops the record of a device some rule names.
LEMMA NotedKept ==
    ASSUME NEW before, NEW after, NEW rs, NEW d \in Devices, d \in DevicesOf(rs)
    PROVE  Noted(before, after, rs)[d] = after[d]
BY DEF Noted, ForgetSettled

\* A poll's reading of the roster opens a record only for the person it names, and
\* closes an override only for a device no rule holds.
LEMMA SettledOverride ==
    ASSUME TypeOK, NEW d \in Devices, NEW nowHolding \in SUBSET rules,
           pauses[d].overridden => pauses[d].state = "none"
    PROVE  LET p == pauses[d]
               s == Settled(nowHolding)[d]
           IN  /\ s.overridden => /\ s.state = "none"
                                  /\ p.overridden \/ d \in ReleasedByHand(pauses, roster)
               /\ DeviceHeld(nowHolding, d) =>
                     IF d \in ReleasedByHand(pauses, roster) THEN s.overridden
                     ELSE /\ s.overridden <=> p.overridden
                          /\ s.attempted = p.attempted /\ s.age = p.age
<1> DEFINE p == pauses[d]
           r == RosterNoted[d]
           n == Noted(pauses, RosterNoted, rules)[d]
           s == Settled(nowHolding)[d]
<1>1. p \in DevicePauseRecord /\ n \in DevicePauseRecord
  <2>1. RosterNoted \in [Devices -> DevicePauseRecord]
    BY NotesKeepARecord DEF RosterNoted, TypeOK, WriteKinds, PauseStates
  <2>2. Noted(pauses, RosterNoted, rules) \in [Devices -> DevicePauseRecord]
    BY <2>1, NotedType DEF TypeOK
  <2> QED BY <2>2 DEF TypeOK
<1>2. \/ d \in BlocksLanded(pauses, roster) /\ r = NoteBlockLanded(p)
      \/ d \in ReleasedByHand(pauses, roster) /\ r = NoteReleasedByHand
      \/ r = p
  BY DEF RosterNoted
<1>3. r.overridden => r.state = "none" /\ (p.overridden \/ d \in ReleasedByHand(pauses, roster))
  BY <1>1, <1>2 DEF BlocksLanded, NoteBlockLanded, NoteReleasedByHand, DevicePauseRecord
<1>4. IF d \in ReleasedByHand(pauses, roster) THEN r.overridden
      ELSE /\ r.overridden <=> p.overridden
           /\ r.attempted = p.attempted /\ r.age = p.age
  <2>1. CASE d \in ReleasedByHand(pauses, roster)
    <3>1. r = NoteReleasedByHand
      BY <2>1 DEF RosterNoted, BlocksLanded, ReleasedByHand
    <3> QED BY <2>1, <3>1 DEF NoteReleasedByHand
  <2>2. CASE d \notin ReleasedByHand(pauses, roster)
    <3>1. r = NoteBlockLanded(p) \/ r = p
      BY <1>2, <2>2
    <3> QED BY <1>1, <2>2, <3>1 DEF NoteBlockLanded, DevicePauseRecord
  <2> QED BY <2>1, <2>2
<1>5. n = r \/ (r.state = "none" /\ n = Blank)
  BY NotedValue
<1>6. DeviceHeld(nowHolding, d) => n = r /\ s = n
  <2> SUFFICES ASSUME DeviceHeld(nowHolding, d) PROVE n = r /\ s = n
    OBVIOUS
  <2>1. d \in DevicesOf(rules)
    BY DEF DeviceHeld, DevicesOf
  <2>2. n = r
    BY <2>1, NotedKept
  <2>3. s = n
    BY DEF Settled, ClearSettledOverrides
  <2> QED BY <2>2, <2>3
<1>7. s.state = n.state /\ (s.overridden => n.overridden)
  BY <1>1 DEF Settled, ClearSettledOverrides, DevicePauseRecord
<1>8. ~Blank.overridden
  BY DEF Blank
<1> HIDE DEF p, r, n, s
<1>9. /\ s.overridden => s.state = "none" /\ (p.overridden \/ d \in ReleasedByHand(pauses, roster))
      /\ DeviceHeld(nowHolding, d) =>
            IF d \in ReleasedByHand(pauses, roster) THEN s.overridden
            ELSE /\ s.overridden <=> p.overridden
                 /\ s.attempted = p.attempted /\ s.age = p.age
  BY <1>3, <1>4, <1>5, <1>6, <1>7, <1>8
<1> QED BY <1>9 DEF p, s

\* What one poll does to a device's record and its write, in the terms the action
\* properties are about.
LEMMA RunMetersRecord ==
    ASSUME IInv, RunMeters, Faults \subseteq BenignFaults, NEW d \in Devices,
           pauses[d].overridden => pauses[d].state = "none"
    PROVE  LET p == pauses[d]
               q == pauses'[d]
               byHand == d \in ReleasedByHand(pauses, roster)
           IN  /\ UNCHANGED <<router, behind, roster, rules>>
               /\ d \in opened' <=> d \in opened /\ ~byHand
               /\ q.overridden => q.state = "none" /\ (p.overridden \/ byHand)
               /\ p.overridden /\ ~q.overridden => ~DeviceHeld(holding', d)
               /\ q.state = "applied" =>
                     /\ p.state = "applied" /\ ~byHand
                     /\ q.confirmed => p.confirmed \/ roster[d] = "blocked"
               /\ \/ writes'[d] = writes[d]
                  \/ writes[d] = <<>> /\ ~Head(writes'[d]).landed
               /\ \/ asked'[d] = asked[d] /\ writes'[d] = writes[d] /\ ~byHand
                     /\ \/ /\ q.state = p.state /\ q.attempted = p.attempted /\ q.age = p.age
                        \/ q.state = "none" /\ p.state = "none"
                  \/ asked'[d] = NeverAsked /\ byHand
                  \/ /\ asked'[d] = [kind |-> "pause", age |-> 0]
                     /\ p.attempted # "pause" \/ p.age = RetryWindow
                     /\ d \in Routable =>
                           q.state = "pending" /\ q.attempted = "pause" /\ q.age = 0
                  \/ /\ asked'[d] = [kind |-> "release", age |-> 0]
                     /\ p.attempted # "release" \/ p.age = RetryWindow
                     /\ p.state \in {"applied", "pending"}
                     /\ d \in Routable =>
                           /\ q.state \in {"applied", "pending"}
                           /\ q.attempted = "release" /\ q.age = 0
<1> PICK nowHolding \in SUBSET rules :
        /\ MayTakeHold(nowHolding)
        /\ holding' = nowHolding
        /\ pauses' = Noted(Settled(nowHolding),
                           [e \in Devices |-> Scanned(e, nowHolding)], rules)
        /\ writes' = [e \in Devices |-> writes[e] \o Sent(e, nowHolding)]
        /\ asked' = [e \in Devices |->
                        IF e \in Due(nowHolding)
                        THEN [kind |-> KindDue(e, nowHolding), age |-> 0]
                        ELSE IF e \in ReleasedByHand(pauses, roster)
                        THEN NeverAsked ELSE asked[e]]
        /\ opened' = opened \ ReleasedByHand(pauses, roster)
        /\ UNCHANGED <<rules, auto, router, behind, roster, signedIn>>
  BY DEF RunMeters, worldVars
<1> DEFINE p == pauses[d]
           q == pauses'[d]
           s == Settled(nowHolding)[d]
           c == Scanned(d, nowHolding)
           byHand == d \in ReleasedByHand(pauses, roster)
<1>1. TypeOK /\ signedIn /\ InStep(d) /\ "reholdMidRelease" \notin Faults
  BY AbsentFaults DEF IInv, RecordInStep
<1>2. /\ s \in DevicePauseRecord /\ p \in DevicePauseRecord /\ q \in DevicePauseRecord
      /\ RetryWindow \in Nat \ {0}
  <2>1. q \in DevicePauseRecord
    BY <1>1, NextType DEF Next, TypeOK
  <2> QED BY <1>1, <2>1, SettledType, RetryWindowIsPositive DEF TypeOK
<1>3. /\ \/ /\ s.state = p.state /\ s.attempted = p.attempted /\ s.age = p.age
            /\ s.confirmed => p.confirmed \/ roster[d] = "blocked"
         \/ /\ s.state = "none"
            /\ p.state = "none" \/ byHand
      /\ byHand => s.state = "none"
  BY <1>1, SettledValue DEF ReleasedByHand
<1>4. /\ s.overridden => s.state = "none" /\ (p.overridden \/ byHand)
      /\ DeviceHeld(nowHolding, d) =>
            IF byHand THEN s.overridden
            ELSE /\ s.overridden <=> p.overridden
                 /\ s.attempted = p.attempted /\ s.age = p.age
  BY <1>1, SettledOverride
<1>5. q = c \/ (c.state = "none" /\ q = Blank)
  BY NotedValue
<1>6. DeviceHeld(nowHolding, d) => q = c
  <2> SUFFICES ASSUME DeviceHeld(nowHolding, d) PROVE q = c
    OBVIOUS
  <2>1. d \in DevicesOf(rules)
    BY DEF DeviceHeld, DevicesOf
  <2> QED BY <2>1, NotedKept
<1>7. Blank.state = "none" /\ ~Blank.overridden
  BY DEF Blank
<1>8. byHand => p.state = "applied"
  BY DEF ReleasedByHand
<1>9. d \in opened' <=> d \in opened /\ ~byHand
  OBVIOUS
<1>10. CASE d \notin Due(nowHolding)
  <2>1. c = s
    BY <1>10 DEF Scanned
  <2>2. writes'[d] = writes[d]
    <3>1. Sent(d, nowHolding) = <<>>
      BY <1>10 DEF Sent, Due
    <3> QED BY <1>1, <3>1, ConcatEmptySeq DEF TypeOK
  <2>3. asked'[d] = IF byHand THEN NeverAsked ELSE asked[d]
    BY <1>10
  <2>4. p.overridden /\ ~q.overridden => ~DeviceHeld(nowHolding, d)
    BY <1>4, <1>6, <2>1
  <2> HIDE DEF p, s, c, q, byHand
  <2>5. /\ q.overridden => q.state = "none" /\ (p.overridden \/ byHand)
        /\ q.state = "applied" =>
              /\ p.state = "applied" /\ ~byHand
              /\ q.confirmed => p.confirmed \/ roster[d] = "blocked"
    BY <1>3, <1>4, <1>5, <1>7, <1>8, <2>1
  <2>6. ~byHand => \/ q.state = p.state /\ q.attempted = p.attempted /\ q.age = p.age
                   \/ q.state = "none" /\ p.state = "none"
    BY <1>3, <1>5, <1>7, <2>1
  <2> QED BY <1>9, <2>2, <2>3, <2>4, <2>5, <2>6 DEF p, q, byHand
<1>11. CASE d \in Due(nowHolding)
  <2>1. writes[d] = <<>>
    BY <1>1, <1>11, NoSecondWrite
  <2>2. CASE d \in PausesDue(nowHolding)
    <3>1. /\ (~s.overridden /\ s.attempted # "pause") \/ s.age = RetryWindow
          /\ ~s.overridden
          /\ DeviceHeld(nowHolding, d)
      BY <1>2, <2>2 DEF PausesDue, PausesOwed, DueNow, Stalled, DevicePauseRecord,
                        DevicesOwedPause, DeviceHeld, DevicesOf
    <3>2. /\ c.state \in {"pending", "failed"} /\ ~c.overridden
          /\ d \in Routable => c.state = "pending" /\ c.attempted = "pause" /\ c.age = 0
      BY <1>1, <1>2, <1>11, <2>2 DEF Scanned, KindDue, NoteSending, NoteAttempt,
                                     NotePauseState, DevicePauseRecord
    <3>3. asked'[d] = [kind |-> "pause", age |-> 0]
      BY <1>11, <2>2 DEF KindDue
    <3>4. writes'[d] = writes[d] \/ ~Head(writes'[d]).landed
      <4>1. CASE d \in Routable
        <5>1. writes'[d] = <<NewWrite(TRUE)>>
          BY <1>1, <2>1, <2>2, <4>1, NewWriteQueued DEF Sent
        <5> QED BY <5>1, NewWriteQueued
      <4>2. CASE d \notin Routable
        <5>1. Sent(d, nowHolding) = <<>>
          BY <4>2 DEF Sent
        <5> QED BY <1>1, <5>1, ConcatEmptySeq DEF TypeOK
      <4> QED BY <4>1, <4>2
    <3> HIDE DEF p, s, c, q, byHand
    <3>5. /\ ~byHand /\ ~p.overridden /\ q = c
          /\ p.attempted # "pause" \/ p.age = RetryWindow
      BY <1>4, <1>6, <3>1
    <3> QED BY <1>9, <2>1, <3>2, <3>3, <3>4, <3>5 DEF p, q, byHand
  <2>3. CASE d \notin PausesDue(nowHolding)
    <3>1. /\ s.state \in {"applied", "pending"} /\ ~DeviceHeld(nowHolding, d)
          /\ s.attempted # "release" \/ s.age = RetryWindow
      BY <1>2, <1>11, <2>3 DEF Due, ReleasesDue, ReleasesOwed, DueNow, Stalled,
                               DevicePauseRecord
    <3>2. /\ c.state = s.state /\ (c.confirmed => s.confirmed) /\ (c.overridden => s.overridden)
          /\ d \in Routable => c.attempted = "release" /\ c.age = 0
      BY <1>1, <1>2, <1>11, <2>3 DEF Scanned, KindDue, NoteSending, NoteAttempt,
                                     DevicePauseRecord
    <3>3. asked'[d] = [kind |-> "release", age |-> 0]
      BY <1>11, <2>3 DEF KindDue
    <3>4. writes'[d] = writes[d] \/ ~Head(writes'[d]).landed
      <4>1. CASE d \in Routable
        <5>1. d \in ReleasesDue(nowHolding)
          BY <1>11, <2>3 DEF Due
        <5>2. writes'[d] = <<NewWrite(FALSE)>>
          BY <1>1, <2>1, <2>3, <4>1, <5>1, NewWriteQueued DEF Sent
        <5> QED BY <5>2, NewWriteQueued
      <4>2. CASE d \notin Routable
        <5>1. Sent(d, nowHolding) = <<>>
          BY <4>2 DEF Sent
        <5> QED BY <1>1, <5>1, ConcatEmptySeq DEF TypeOK
      <4> QED BY <4>1, <4>2
    <3> HIDE DEF p, s, c, q, byHand
    <3>5. /\ ~byHand /\ q = c /\ s.state = p.state
          /\ p.attempted # "release" \/ p.age = RetryWindow
          /\ q.confirmed => p.confirmed \/ roster[d] = "blocked"
          /\ ~s.overridden
      BY <1>3, <1>4, <1>5, <3>1, <3>2
    <3> QED BY <1>9, <2>1, <3>1, <3>2, <3>3, <3>4, <3>5 DEF p, q, byHand
  <2> QED BY <2>2, <2>3
<1> QED BY <1>10, <1>11

\* What an answer does to a device's record: the one answered moves to the outcome,
\* and another may only lose a record that reads "none" and that no rule names.
LEMMA SettleRecord ==
    ASSUME IInv, NEW d \in Devices, NEW e \in Devices, NEW state \in PauseStates,
           writes[e] # <<>>, Settle(e, state)
    PROVE  LET p == pauses[d]
               q == pauses'[d]
           IN  /\ UNCHANGED <<holding, rules, router, behind, roster, asked>>
               /\ e # d =>
                     /\ writes'[d] = writes[d]
                     /\ \/ q = p
                        \/ p.state = "none" /\ q = Blank /\ ~Held(d)
               /\ e = d =>
                     /\ writes'[d] = <<>> /\ ~q.overridden /\ q.state = state
                     /\ state # "none" =>
                           /\ q.attempted = p.attempted /\ q.age = 0
                           /\ q.confirmed => p.confirmed /\ p.state = "applied"
<1> DEFINE after == [pauses EXCEPT ![e] = NotePauseState(@, state)]
           p == pauses[d]
           q == pauses'[d]
<1>1. TypeOK /\ InStep(d) /\ InStep(e)
  BY DEF IInv, RecordInStep
<1>2. UNCHANGED <<holding, rules, router, behind, roster, asked>>
  BY DEF Settle, ruleVars, worldVars
<1>3. pauses' = Noted(pauses, after, rules)
  BY DEF Settle
<1>4. q = after[d] \/ (after[d].state = "none" /\ q = Blank)
  <2> HIDE DEF after
  <2> QED BY <1>3, NotedValue
<1>5. Held(d) => q = after[d]
  <2> SUFFICES ASSUME Held(d) PROVE q = after[d]
    OBVIOUS
  <2>1. d \in DevicesOf(rules)
    BY <1>1 DEF TypeOK, Held, DeviceHeld, DevicesOf
  <2> HIDE DEF after
  <2> QED BY <1>3, <2>1, NotedKept
<1>6. Blank.state = "none" /\ ~Blank.overridden
  BY DEF Blank
<1>7. ASSUME e # d
      PROVE  /\ writes'[d] = writes[d]
             /\ q = p \/ (p.state = "none" /\ q = Blank /\ ~Held(d))
  <2>1. after[d] = p /\ writes'[d] = writes[d]
    BY <1>1, <1>7 DEF Settle, TypeOK
  <2> HIDE DEF p, q, after
  <2> QED BY <1>4, <1>5, <2>1
<1>8. ASSUME e = d
      PROVE  /\ writes'[d] = <<>> /\ ~q.overridden /\ q.state = state
             /\ state # "none" =>
                   /\ q.attempted = p.attempted /\ q.age = 0
                   /\ q.confirmed => p.confirmed /\ p.state = "applied"
  <2>1. writes'[d] = <<>>
    BY <1>1, <1>8, OnlyWrite DEF Settle, TypeOK
  <2>2. after[d] = NotePauseState(p, state) /\ p \in DevicePauseRecord
    BY <1>1, <1>8 DEF TypeOK
  <2> HIDE DEF p, after
  <2>3. /\ after[d].state = state /\ after[d].attempted = p.attempted /\ after[d].age = 0
    BY <2>2 DEF NotePauseState, DevicePauseRecord
  <2>4. after[d].confirmed => p.confirmed /\ p.state = "applied"
    BY <2>2 DEF NotePauseState, DevicePauseRecord
  <2>5. ~after[d].overridden
    BY <2>2 DEF NotePauseState, DevicePauseRecord
  <2> HIDE DEF q
  <2> QED BY <1>4, <1>6, <2>1, <2>3, <2>4, <2>5
<1> QED BY <1>2, <1>7, <1>8 DEF p, q

\* The four answers: what each leaves of the record and of who has opened the device.
LEMMA AnswerOutcome ==
    ASSUME IInv, Faults \subseteq BenignFaults, NEW e \in Devices,
           ReplyOk(e) \/ Dropped(e) \/ Refused(e) \/ ReplyLost(e)
    PROVE  /\ writes[e] # <<>>
           /\ \E state \in PauseStates :
                 /\ Settle(e, state)
                 /\ state # "pending"
                 /\ Blocks(e) => state \in {"applied", "failed"}
                 /\ ~Blocks(e) => state \in {"applied", "none"}
                 /\ state = "applied" =>
                       \/ opened' = opened /\ Head(writes[e]).landed
                       \/ opened' = opened /\ RosterSettled(e)
                 /\ opened' = opened \/ (opened' = opened \ {e} /\ state = "none")
<1>1. TypeOK /\ signedIn
  BY DEF IInv
<1>2. writes[e] # <<>>
  BY DEF ReplyOk, Dropped, Refused, ReplyLost
<1>3. /\ AfterSuccess(Blocks(e)) \in PauseStates /\ AfterFailure(Blocks(e)) \in PauseStates
      /\ Blocks(e) => AfterSuccess(Blocks(e)) = "applied" /\ AfterFailure(Blocks(e)) = "failed"
      /\ ~Blocks(e) => AfterSuccess(Blocks(e)) = "none" /\ AfterFailure(Blocks(e)) = "applied"
  BY DEF AfterSuccess, AfterFailure, PauseStates
<1>4. "staleRoster" \notin Faults /\ "droppedRelease" \notin Faults
  BY AbsentFaults
<1>5. CASE ReplyOk(e)
  BY <1>2, <1>3, <1>5 DEF ReplyOk
<1>6. CASE Dropped(e)
  BY <1>2, <1>3, <1>4, <1>6 DEF Dropped, Fresh
<1>7. CASE Refused(e)
  BY <1>2, <1>3, <1>4, <1>7 DEF Refused, Fresh
<1>8. CASE ReplyLost(e)
  BY <1>2, <1>3, <1>8 DEF ReplyLost
<1> QED BY <1>5, <1>6, <1>7, <1>8

--------------------------------------------------------------------------------
(* The action properties.  What they rest on beside InStep, device by device.  *)

\* The roster is at most a block and its end behind the router.
RosterTrails(d) ==
    /\ router[d] = "blocked" =>
          behind[d] = <<>> \/ (behind[d] = <<"free">> /\ roster[d] # "blocked")
    /\ router[d] = "free" =>
          \/ behind[d] = <<>> \/ behind[d] = <<"blocked">>
          \/ behind[d] = <<"free", "blocked">> /\ roster[d] # "blocked"

SeenApplied(d) == pauses[d].state = "applied" /\ pauses[d].confirmed

\* A block that was seen and is gone is read as gone only by a roster that is level.
SeenBlockTrails(d) ==
    SeenApplied(d) /\ router[d] = "free" =>
        behind[d] = <<>> \/ (behind[d] = <<"blocked">> /\ roster[d] # "free")

\* No roster to come can show a block of the device.
NothingToShow(d) == behind[d] = <<>> /\ roster[d] # "blocked" /\ ~SeenApplied(d)

\* A device that is free though it reads blocked was opened by someone, or its
\* block never landed and cannot be seen.
OpeningIsKnown(d) ==
    /\ router[d] = "free"
    /\ pauses[d].state = "applied" \/ (writes[d] # <<>> /\ Head(writes[d]).landed)
    => d \in opened \/ NothingToShow(d)

OverrideRests(d) == pauses[d].overridden => pauses[d].state = "none"

\* The record remembers the last write asked for as long as the window runs.
AskedIsNoted(d) ==
    LET p == pauses[d]
    IN  asked[d].age < RetryWindow =>
          /\ asked[d].kind = "pause" =>
                /\ p.state \in {"pending", "applied", "failed"}
                /\ p.attempted = "pause" /\ p.age <= asked[d].age
          /\ asked[d].kind = "release" =>
                \/ p.state = "none" /\ writes[d] = <<>>
                \/ /\ p.state \in {"pending", "applied"}
                   /\ p.attempted = "release" /\ p.age <= asked[d].age

Openings(d) == RosterTrails(d) /\ SeenBlockTrails(d) /\ OpeningIsKnown(d)

ActionInv ==
    /\ IInv
    /\ \A d \in Devices : Openings(d) /\ OverrideRests(d)
    /\ \A d \in Routable : AskedIsNoted(d)

\* Actions that leave a device's record, write, router and roster alone.
LEMMA UntouchedKeepsHistory ==
    ASSUME NEW d \in Devices, Openings(d), OverrideRests(d),
           writes'[d] = writes[d], router'[d] = router[d], behind'[d] = behind[d],
           roster'[d] = roster[d], asked'[d] = asked[d], d \in opened => d \in opened',
           \/ pauses'[d] = pauses[d]
           \/ pauses[d].state = "none" /\ pauses'[d] = Blank
    PROVE  /\ Openings(d)' /\ OverrideRests(d)'
           /\ AskedIsNoted(d) => AskedIsNoted(d)'
<1>1. Blank.state = "none" /\ ~Blank.overridden
  BY DEF Blank
<1>2. /\ pauses'[d].state = pauses[d].state
      /\ pauses'[d] = pauses[d] \/ (pauses[d].state = "none" /\ ~pauses'[d].overridden)
  BY <1>1
<1>3. SeenApplied(d)' <=> SeenApplied(d)
  BY <1>2 DEF SeenApplied
<1>4. Openings(d)'
  BY <1>2, <1>3 DEF Openings, RosterTrails, SeenBlockTrails, OpeningIsKnown, NothingToShow
<1>5. OverrideRests(d)'
  BY <1>2 DEF OverrideRests
<1>6. AskedIsNoted(d) => AskedIsNoted(d)'
  BY <1>2 DEF AskedIsNoted
<1> QED BY <1>4, <1>5, <1>6

LEMMA RunMetersKeepsHistory ==
    ASSUME ActionInv, RunMeters, Faults \subseteq BenignFaults, NEW d \in Devices
    PROVE  /\ Openings(d)' /\ OverrideRests(d)'
           /\ d \in Routable => AskedIsNoted(d)'
           /\ pauses'[d].overridden /\ ~pauses[d].overridden => d \in opened
           /\ pauses[d].overridden /\ ~pauses'[d].overridden => ~DeviceHeld(holding', d)
           /\ d \in Routable /\ asked'[d].age = 0 /\ asked'[d].kind = asked[d].kind
                 => asked[d].age \in {0, RetryWindow}
<1> DEFINE p == pauses[d]
           q == pauses'[d]
           byHand == d \in ReleasedByHand(pauses, roster)
<1>1. /\ IInv /\ TypeOK /\ Openings(d) /\ OverrideRests(d)
      /\ d \in Routable => AskedIsNoted(d)
      /\ router[d] \in {"free", "blocked"}
      /\ asked[d].age \in 0 .. RetryWindow /\ p.age \in 0 .. RetryWindow
      /\ RetryWindow \in Nat \ {0}
  BY RetryWindowIsPositive DEF ActionInv, IInv, TypeOK, Asked, DevicePauseRecord
<1>2. /\ UNCHANGED <<router, behind, roster>>
      /\ d \in opened' <=> d \in opened /\ ~byHand
      /\ q.overridden => q.state = "none" /\ (p.overridden \/ byHand)
      /\ p.overridden /\ ~q.overridden => ~DeviceHeld(holding', d)
      /\ q.state = "applied" =>
            /\ p.state = "applied" /\ ~byHand
            /\ q.confirmed => p.confirmed \/ roster[d] = "blocked"
      /\ \/ writes'[d] = writes[d]
         \/ writes[d] = <<>> /\ ~Head(writes'[d]).landed
  BY <1>1, RunMetersRecord DEF OverrideRests
<1>3. \/ /\ asked'[d] = asked[d] /\ writes'[d] = writes[d]
         /\ \/ q.state = p.state /\ q.attempted = p.attempted /\ q.age = p.age
            \/ q.state = "none" /\ p.state = "none"
      \/ asked'[d] = NeverAsked
      \/ /\ asked'[d] = [kind |-> "pause", age |-> 0]
         /\ p.attempted # "pause" \/ p.age = RetryWindow
         /\ d \in Routable => q.state = "pending" /\ q.attempted = "pause" /\ q.age = 0
      \/ /\ asked'[d] = [kind |-> "release", age |-> 0]
         /\ p.attempted # "release" \/ p.age = RetryWindow
         /\ p.state \in {"applied", "pending"}
         /\ d \in Routable =>
               q.state \in {"applied", "pending"} /\ q.attempted = "release" /\ q.age = 0
  BY <1>1, RunMetersRecord DEF OverrideRests
<1>4. byHand <=> SeenApplied(d) /\ roster[d] = "free"
  BY DEF ReleasedByHand, SeenApplied
\* Only a roster that is level with a free router is read as a person's release.
<1>5. byHand => router[d] = "free" /\ behind[d] = <<>> /\ d \in opened
  <2>1. InStep(d)
    BY <1>1 DEF IInv, RecordInStep
  <2>2. byHand => router[d] = "free"
    BY <1>1, <1>4, <2>1 DEF InStep, SeenApplied
  <2> QED BY <1>1, <1>4, <2>2 DEF Openings, SeenBlockTrails, OpeningIsKnown, NothingToShow,
                                  SeenApplied
<1>6. SeenApplied(d)' => p.state = "applied" /\ ~byHand /\ (SeenApplied(d) \/ roster[d] = "blocked")
  BY <1>2 DEF SeenApplied
<1> HIDE DEF p, q, byHand
<1>7. RosterTrails(d)' /\ SeenBlockTrails(d)'
  BY <1>1, <1>2, <1>6 DEF Openings, RosterTrails, SeenBlockTrails
<1>8. OpeningIsKnown(d)'
  <2> SUFFICES ASSUME router[d] = "free", ~(d \in opened'),
                      q.state = "applied" \/ (writes'[d] # <<>> /\ Head(writes'[d]).landed)
               PROVE  NothingToShow(d)'
    BY <1>2 DEF OpeningIsKnown, q
  <2>1. p.state = "applied" \/ (writes[d] # <<>> /\ Head(writes[d]).landed)
    BY <1>2
  <2>2. byHand \/ NothingToShow(d)
    BY <1>1, <1>2, <2>1 DEF Openings, OpeningIsKnown, p
  <2> QED BY <1>2, <1>4, <1>5, <1>6, <2>2 DEF NothingToShow
<1>9. OverrideRests(d)' /\ (q.overridden /\ ~p.overridden => d \in opened)
  BY <1>2, <1>5 DEF OverrideRests, q
<1>10. d \in Routable => AskedIsNoted(d)'
  <2> SUFFICES ASSUME d \in Routable PROVE AskedIsNoted(d)'
    OBVIOUS
  <2>1. CASE asked'[d] = asked[d] /\ writes'[d] = writes[d]
             /\ \/ q.state = p.state /\ q.attempted = p.attempted /\ q.age = p.age
                \/ q.state = "none" /\ p.state = "none"
    BY <1>1, <2>1 DEF AskedIsNoted, p, q
  <2>2. CASE asked'[d] = NeverAsked
    BY <2>2 DEF AskedIsNoted, NeverAsked
  <2>3. CASE asked'[d] = [kind |-> "pause", age |-> 0]
             /\ q.state = "pending" /\ q.attempted = "pause" /\ q.age = 0
    BY <2>3 DEF AskedIsNoted, q
  <2>4. CASE asked'[d] = [kind |-> "release", age |-> 0]
             /\ q.state \in {"applied", "pending"} /\ q.attempted = "release" /\ q.age = 0
    BY <2>4 DEF AskedIsNoted, q
  <2> QED BY <1>3, <2>1, <2>2, <2>3, <2>4
<1>11. d \in Routable /\ asked'[d].age = 0 /\ asked'[d].kind = asked[d].kind
          => asked[d].age \in {0, RetryWindow}
  <2> SUFFICES ASSUME d \in Routable, asked'[d].age = 0, asked'[d].kind = asked[d].kind,
                      asked[d].age # 0, asked[d].age # RetryWindow
               PROVE  FALSE
    OBVIOUS
  <2>1. asked[d].age < RetryWindow /\ AskedIsNoted(d)
    BY <1>1
  <2>2. asked'[d] # asked[d] /\ asked'[d] # NeverAsked
    BY <1>1 DEF NeverAsked
  <2>3. CASE asked'[d].kind = "pause"
    <3>1. p.attempted = "pause" /\ p.age <= asked[d].age
      BY <2>1, <2>3 DEF AskedIsNoted, p
    <3> QED BY <1>1, <1>3, <2>1, <2>2, <2>3, <3>1 DEF p
  <2>4. CASE asked'[d].kind = "release"
    <3>1. p.state = "none" \/ (p.attempted = "release" /\ p.age <= asked[d].age)
      BY <2>1, <2>4 DEF AskedIsNoted, p
    <3> QED BY <1>1, <1>3, <2>1, <2>2, <2>4, <3>1 DEF p
  <2> QED BY <1>3, <2>2, <2>3, <2>4
<1> QED BY <1>2, <1>7, <1>8, <1>9, <1>10, <1>11 DEF Openings, p, q

LEMMA LandKeepsHistory ==
    ASSUME ActionInv, Faults \subseteq BenignFaults, NEW d \in Devices,
           NEW e \in Devices, Land(e)
    PROVE  /\ Openings(d)' /\ OverrideRests(d)'
           /\ d \in Routable => AskedIsNoted(d)'
<1>1. /\ TypeOK /\ Openings(d) /\ OverrideRests(d) /\ (d \in Routable => AskedIsNoted(d))
      /\ "staleRoster" \notin Faults
  BY AbsentFaults DEF ActionInv, IInv
<1>2. /\ UNCHANGED <<pauses, roster, asked>> /\ opened \subseteq opened'
      /\ SeenApplied(d)' <=> SeenApplied(d)
  BY DEF Land, SeenApplied
<1>3. CASE e # d
  <2>1. writes'[d] = writes[d] /\ router'[d] = router[d] /\ behind'[d] = behind[d]
    BY <1>1, <1>3 DEF Land, Turn, TypeOK
  <2> QED BY <1>1, <1>2, <2>1, UntouchedKeepsHistory
<1>4. CASE e = d
  <2>1. writes[d] # <<>> /\ behind[d] = <<>> /\ roster[d] \in {"unasked", router[d]}
    BY <1>1, <1>4 DEF Land, Fresh, RosterSettled
  <2>4. OverrideRests(d)' /\ (d \in Routable => AskedIsNoted(d)')
    BY <1>1, <1>2, <2>1 DEF OverrideRests, AskedIsNoted
  <2>2. CASE Blocks(d)
    <3>1. router'[d] = "blocked"
      BY <1>1, <1>4, <2>2 DEF Land, Turn, TypeOK
    <3>2. behind'[d] = <<>> \/ (behind'[d] = <<"free">> /\ roster[d] # "blocked")
      <4>1. CASE router[d] = "blocked"
        BY <1>1, <1>4, <2>1, <2>2, <4>1 DEF Land, Turn, TypeOK
      <4>2. CASE router[d] = "free"
        <5>1. behind'[d] = Append(behind[d], "free")
          BY <1>1, <1>4, <2>2, <4>2 DEF Land, Turn, TypeOK
        <5>2. Append(<<>>, "free") = <<"free">>
          OBVIOUS
        <5> QED BY <2>1, <4>2, <5>1, <5>2
      <4> QED BY <1>1, <4>1, <4>2 DEF TypeOK
    <3>3. RosterTrails(d)'
      BY <1>2, <3>1, <3>2 DEF RosterTrails
    <3>4. SeenBlockTrails(d)' /\ OpeningIsKnown(d)'
      BY <3>1 DEF SeenBlockTrails, OpeningIsKnown
    <3> QED BY <2>4, <3>3, <3>4 DEF Openings
  <2>3. CASE ~Blocks(d)
    <3>1. router'[d] = "free" /\ d \in opened'
      BY <1>1, <1>4, <2>3 DEF Land, Turn, TypeOK
    <3>2. behind'[d] = <<>> \/ (behind'[d] = <<"blocked">> /\ roster[d] # "free")
      <4>1. CASE router[d] = "free"
        BY <1>1, <1>4, <2>1, <2>3, <4>1 DEF Land, Turn, TypeOK
      <4>2. CASE router[d] = "blocked"
        <5>1. behind'[d] = Append(behind[d], "blocked")
          BY <1>1, <1>4, <2>3, <4>2 DEF Land, Turn, TypeOK
        <5>2. Append(<<>>, "blocked") = <<"blocked">>
          OBVIOUS
        <5> QED BY <2>1, <4>2, <5>1, <5>2
      <4> QED BY <1>1, <4>1, <4>2 DEF TypeOK
    <3>3. RosterTrails(d)'
      BY <1>2, <3>1, <3>2 DEF RosterTrails
    <3>4. SeenBlockTrails(d)'
      BY <1>2, <3>1, <3>2 DEF SeenBlockTrails
    <3>5. OpeningIsKnown(d)'
      BY <3>1 DEF OpeningIsKnown
    <3> QED BY <2>4, <3>3, <3>4, <3>5 DEF Openings
  <2> QED BY <2>2, <2>3
<1> QED BY <1>3, <1>4

LEMMA AnswerKeepsHistory ==
    ASSUME ActionInv, Faults \subseteq BenignFaults, NEW d \in Devices, NEW e \in Devices,
           ReplyOk(e) \/ Dropped(e) \/ Refused(e) \/ ReplyLost(e)
    PROVE  /\ Openings(d)' /\ OverrideRests(d)'
           /\ d \in Routable => AskedIsNoted(d)'
           /\ asked' = asked /\ (~pauses'[d].overridden \/ pauses'[d] = pauses[d])
           /\ pauses[d].overridden /\ ~pauses'[d].overridden => ~DeviceHeld(holding', d)
<1>1. /\ IInv /\ TypeOK /\ InStep(d) /\ Openings(d) /\ OverrideRests(d)
      /\ d \in Routable => AskedIsNoted(d)
      /\ RetryWindow \in Nat \ {0} /\ asked[d].age \in 0 .. RetryWindow
  BY RetryWindowIsPositive DEF ActionInv, IInv, RecordInStep, TypeOK, Asked
<1>2. writes[e] # <<>>
  BY <1>1, AnswerOutcome
<1>3. PICK state \in PauseStates :
         /\ Settle(e, state)
         /\ Blocks(e) => state \in {"applied", "failed"}
         /\ ~Blocks(e) => state \in {"applied", "none"}
         /\ state = "applied" =>
               \/ opened' = opened /\ Head(writes[e]).landed
               \/ opened' = opened /\ RosterSettled(e)
         /\ opened' = opened \/ (opened' = opened \ {e} /\ state = "none")
  BY <1>1, AnswerOutcome
<1>4. /\ UNCHANGED <<holding, rules, router, behind, roster, asked>>
      /\ e # d => /\ writes'[d] = writes[d]
                  /\ \/ pauses'[d] = pauses[d]
                     \/ pauses[d].state = "none" /\ pauses'[d] = Blank /\ ~Held(d)
      /\ e = d => /\ writes'[d] = <<>> /\ ~pauses'[d].overridden /\ pauses'[d].state = state
                  /\ state # "none" =>
                       /\ pauses'[d].attempted = pauses[d].attempted /\ pauses'[d].age = 0
                       /\ pauses'[d].confirmed => SeenApplied(d)
  BY <1>1, <1>2, <1>3, SettleRecord DEF SeenApplied
<1>5. DeviceHeld(holding', d) <=> Held(d)
  BY <1>4 DEF Held
<1>6. CASE e # d
  <2>1. d \in opened => d \in opened'
    BY <1>3, <1>6
  <2>2. Openings(d)' /\ OverrideRests(d)' /\ (d \in Routable => AskedIsNoted(d)')
    BY <1>1, <1>4, <1>6, <2>1, UntouchedKeepsHistory
  <2>3. ~Blank.overridden
    BY DEF Blank
  <2> QED BY <1>4, <1>5, <1>6, <2>2, <2>3
<1>7. CASE e = d
  <2>1. SeenApplied(d)' => SeenApplied(d) /\ state = "applied"
    BY <1>4, <1>7 DEF SeenApplied
  <2>2. RosterTrails(d)' /\ SeenBlockTrails(d)' /\ OverrideRests(d)'
    BY <1>1, <1>4, <1>7, <2>1 DEF Openings, RosterTrails, SeenBlockTrails, OverrideRests
  <2>3. OpeningIsKnown(d)'
    <3> SUFFICES ASSUME router[d] = "free", state = "applied", d \notin opened'
                 PROVE  NothingToShow(d)'
      BY <1>4, <1>7 DEF OpeningIsKnown
    <3>1. d \notin opened
      BY <1>3, <1>7
    <3>2. ~SeenApplied(d)'
      BY <1>1, <2>1, <3>1 DEF Openings, OpeningIsKnown, NothingToShow, SeenApplied
    <3>3. CASE Head(writes[d]).landed
      BY <1>1, <1>2, <1>4, <1>7, <3>1, <3>2, <3>3
         DEF Openings, OpeningIsKnown, NothingToShow
    <3>4. CASE RosterSettled(d)
      BY <1>4, <3>2, <3>4 DEF RosterSettled, NothingToShow
    <3> QED BY <1>3, <1>7, <3>3, <3>4
  <2>4. pauses[d].overridden => ~Held(d)
    BY <1>1, <1>2, <1>7 DEF InStep, OverrideRests
  <2>5. d \in Routable => AskedIsNoted(d)'
    <3> SUFFICES ASSUME d \in Routable, asked[d].age < RetryWindow
                 PROVE  AskedIsNoted(d)'
      BY <1>4 DEF AskedIsNoted
    <3>1. AskedIsNoted(d) /\ asked' = asked /\ 0 <= asked[d].age
      BY <1>1, <1>4
    <3>2. CASE asked[d].kind = "pause"
      <4>1. pauses[d].state # "none" /\ pauses[d].attempted = "pause"
        BY <3>1, <3>2 DEF AskedIsNoted
      <4>2. Blocks(d)
        BY <1>1, <1>2, <1>7, <4>1 DEF InStep
      <4> QED BY <1>3, <1>4, <1>7, <3>1, <3>2, <4>1, <4>2 DEF AskedIsNoted
    <3>3. CASE asked[d].kind = "release"
      <4>1. pauses[d].attempted = "release"
        BY <1>2, <1>7, <3>1, <3>3 DEF AskedIsNoted
      <4>2. ~Blocks(d)
        BY <1>1, <1>2, <1>7, <4>1 DEF InStep
      <4> QED BY <1>3, <1>4, <1>7, <3>1, <3>3, <4>1, <4>2 DEF AskedIsNoted
    <3> QED BY <3>1, <3>2, <3>3 DEF AskedIsNoted
  <2> QED BY <1>4, <1>5, <1>7, <2>2, <2>3, <2>4, <2>5 DEF Openings
<1> QED BY <1>6, <1>7

LEMMA ShortRosters ==
    ASSUME NEW a, NEW b
    PROVE  /\ Tail(<<a>>) = <<>> /\ Tail(<<a, b>>) = <<b>>
           /\ Append(<<>>, b) = <<b>> /\ Append(<<a>>, b) = <<a, b>>
<1>1. Tail(<<a>>) = <<>>
  OBVIOUS
<1>2. Tail(<<a, b>>) = <<b>>
  OBVIOUS
<1>3. Append(<<>>, b) = <<b>>
  OBVIOUS
<1>4. Append(<<a>>, b) = <<a, b>>
  <2> DEFINE s == Append(<<a>>, b)
  <2>1. <<a>> \in Seq({a, b}) /\ Len(<<a>>) = 1
    OBVIOUS
  <2>2. s \in Seq({a, b}) /\ Len(s) = 2 /\ s[1] = a /\ s[2] = b
    BY <2>1
  <2>3. <<a, b>> \in Seq({a, b}) /\ Len(<<a, b>>) = 2
    OBVIOUS
  <2> HIDE DEF s
  <2>4. \A i \in 1 .. 2 : s[i] = <<a, b>>[i]
    BY <2>2
  <2>5. s = <<a, b>>
    BY <2>2, <2>3, <2>4, SeqEqual
  <2> QED BY <2>5 DEF s
<1> QED BY <1>1, <1>2, <1>3, <1>4

LEMMA WorldKeepsHistory ==
    ASSUME ActionInv, NEW d \in Devices, NEW e \in Devices,
           \/ RosterCatchesUp(e) \/ ReadRoster(e) \/ MissingFromRoster(e) \/ HandFree(e)
    PROVE  /\ Openings(d)' /\ OverrideRests(d)'
           /\ d \in Routable => AskedIsNoted(d)'
<1>1. /\ TypeOK /\ InStep(d) /\ Openings(d) /\ OverrideRests(d)
      /\ d \in Routable => AskedIsNoted(d)
  BY DEF ActionInv, IInv, RecordInStep
<1>2. /\ UNCHANGED <<pauses, writes, asked>> /\ opened \subseteq opened'
      /\ SeenApplied(d)' <=> SeenApplied(d)
  BY DEF RosterCatchesUp, ReadRoster, MissingFromRoster, HandFree, history, SeenApplied
<1>3. OverrideRests(d)' /\ (d \in Routable => AskedIsNoted(d)')
  BY <1>1, <1>2 DEF OverrideRests, AskedIsNoted
<1>4. CASE e # d
  <2>1. router'[d] = router[d] /\ behind'[d] = behind[d] /\ roster'[d] = roster[d]
    BY <1>1, <1>4 DEF RosterCatchesUp, ReadRoster, MissingFromRoster, HandFree, Turn, TypeOK
  <2> QED BY <1>1, <1>2, <2>1, UntouchedKeepsHistory
<1>9. /\ Tail(<<"free">>) = <<>> /\ Tail(<<"blocked">>) = <<>>
      /\ Tail(<<"free", "blocked">>) = <<"blocked">>
      /\ Append(<<>>, "blocked") = <<"blocked">>
      /\ Append(<<"free">>, "blocked") = <<"free", "blocked">>
  BY ShortRosters
<1> USE <1>1, <1>2 DEF Openings, RosterTrails, SeenBlockTrails, OpeningIsKnown, NothingToShow
<1>5. CASE e = d /\ RosterCatchesUp(d)
  <2>1. /\ UNCHANGED <<router, roster>> /\ behind[d] # <<>>
        /\ behind'[d] = Tail(behind[d])
    BY <1>5 DEF RosterCatchesUp, TypeOK
  <2>2. RosterTrails(d)'
    BY <1>9, <2>1
  <2>3. SeenBlockTrails(d)' /\ OpeningIsKnown(d)'
    BY <1>9, <2>1
  <2> QED BY <1>3, <2>2, <2>3
<1>6. CASE e = d /\ ReadRoster(d)
  <2>1. UNCHANGED <<router, behind>> /\ roster'[d] = Shown(d)
    BY <1>6 DEF ReadRoster, TypeOK
  <2>2. /\ behind[d] = <<>> => Shown(d) = router[d]
        /\ behind[d] = <<"free">> => Shown(d) = "free"
        /\ behind[d] = <<"blocked">> => Shown(d) = "blocked"
        /\ behind[d] = <<"free", "blocked">> => Shown(d) = "free"
    BY DEF Shown
  <2>3. RosterTrails(d)'
    BY <2>1, <2>2
  <2>4. SeenBlockTrails(d)' /\ OpeningIsKnown(d)'
    BY <2>1, <2>2
  <2> QED BY <1>3, <2>3, <2>4
<1>7. CASE e = d /\ MissingFromRoster(d)
  <2>1. UNCHANGED <<router, behind>> /\ roster'[d] = "unasked"
    BY <1>7 DEF MissingFromRoster, TypeOK
  <2> QED BY <1>3, <2>1
<1>8. CASE e = d /\ HandFree(d)
  <2>1. /\ router[d] = "blocked" /\ router'[d] = "free" /\ d \in opened'
        /\ behind'[d] = Append(behind[d], "blocked") /\ UNCHANGED roster
    BY <1>8 DEF HandFree, Turn, TypeOK
  <2>2. SeenApplied(d) => behind[d] = <<>> /\ roster[d] # "free"
    BY <2>1 DEF InStep, SeenApplied
  <2> QED BY <1>3, <1>9, <2>1, <2>2
<1> QED BY <1>4, <1>5, <1>6, <1>7, <1>8

LEMMA RestartKeepsHistory ==
    ASSUME ActionInv, Restart, NEW d \in Devices
    PROVE  /\ Openings(d)' /\ OverrideRests(d)'
           /\ d \in Routable => AskedIsNoted(d)'
<1>1. Openings(d) /\ OverrideRests(d) /\ (d \in Routable => AskedIsNoted(d))
  BY DEF ActionInv
<1>2. /\ UNCHANGED <<pauses, router, behind, asked, opened>>
      /\ writes'[d] = <<>> /\ roster'[d] = "unasked"
      /\ SeenApplied(d)' <=> SeenApplied(d)
  BY DEF Restart, history, SeenApplied
<1> QED BY <1>1, <1>2 DEF Openings, RosterTrails, SeenBlockTrails, OpeningIsKnown,
                          NothingToShow, OverrideRests, AskedIsNoted

LEMMA TickKeepsHistory ==
    ASSUME ActionInv, Tick, NEW d \in Devices
    PROVE  /\ Openings(d)' /\ OverrideRests(d)'
           /\ d \in Routable => AskedIsNoted(d)'
           /\ pauses'[d].overridden <=> pauses[d].overridden
           /\ asked'[d].age = 0 => asked[d].age = 0
<1> DEFINE p == pauses[d]
           q == pauses'[d]
<1>1. /\ TypeOK /\ Openings(d) /\ OverrideRests(d) /\ (d \in Routable => AskedIsNoted(d))
      /\ p \in DevicePauseRecord /\ asked[d] \in Asked /\ RetryWindow \in Nat \ {0}
      /\ p.age \in 0 .. RetryWindow /\ asked[d].age \in 0 .. RetryWindow
  BY RetryWindowIsPositive DEF ActionInv, IInv, TypeOK, DevicePauseRecord, Asked
<1>2. /\ UNCHANGED <<writes, router, behind, roster, opened>>
      /\ q = Aged(p)
      /\ asked'[d] = [asked[d] EXCEPT !.age = IF @ < RetryWindow THEN @ + 1 ELSE @]
  BY <1>1 DEF Tick, worldVars, TypeOK
<1>3. /\ q.state = p.state /\ q.attempted = p.attempted
      /\ q.age = IF p.age < RetryWindow THEN p.age + 1 ELSE RetryWindow
  BY <1>1, <1>2 DEF Aged, DevicePauseRecord
<1>4. (q.confirmed <=> p.confirmed) /\ (q.overridden <=> p.overridden)
  BY <1>1, <1>2 DEF Aged, DevicePauseRecord
<1>5. /\ asked'[d].kind = asked[d].kind
      /\ asked'[d].age = IF asked[d].age < RetryWindow THEN asked[d].age + 1 ELSE asked[d].age
  BY <1>1, <1>2 DEF Asked
<1> HIDE DEF p, q
<1>6. SeenApplied(d)' <=> SeenApplied(d)
  BY <1>3, <1>4 DEF SeenApplied, p, q
<1>7. Openings(d)'
  BY <1>1, <1>2, <1>3, <1>6 DEF Openings, RosterTrails, SeenBlockTrails, OpeningIsKnown,
                                 NothingToShow, p, q
<1>8. OverrideRests(d)'
  BY <1>1, <1>3, <1>4 DEF OverrideRests, p, q
<1>9. d \in Routable => AskedIsNoted(d)'
  <2> SUFFICES ASSUME d \in Routable, asked'[d].age < RetryWindow
               PROVE  AskedIsNoted(d)'
    BY DEF AskedIsNoted
  <2>1. asked[d].age < RetryWindow /\ asked'[d].age = asked[d].age + 1
    BY <1>1, <1>5
  <2>2. p.age <= asked[d].age => q.age <= asked'[d].age
    BY <1>1, <1>3, <2>1
  <2> QED BY <1>1, <1>2, <1>3, <1>5, <2>1, <2>2 DEF AskedIsNoted, p, q
<1>10. asked'[d].age = 0 => asked[d].age = 0
  BY <1>1, <1>5
<1> QED BY <1>4, <1>7, <1>8, <1>9, <1>10 DEF p, q

LEMMA OtherKeepsHistory ==
    ASSUME ActionInv, NEW d \in Devices,
           \/ \E r \in Rules : UpsertRule(r)
           \/ \E gone \in SUBSET Rules : DropRules(gone)
           \/ SignOut \/ SignIn \/ UNCHANGED vars
    PROVE  /\ Openings(d)' /\ OverrideRests(d)'
           /\ d \in Routable => AskedIsNoted(d)'
           /\ pauses' = pauses /\ asked' = asked
<1>1. Openings(d) /\ OverrideRests(d) /\ (d \in Routable => AskedIsNoted(d))
  BY DEF ActionInv
<1>2. UNCHANGED <<pauses, writes, router, behind, roster, asked, opened>>
  BY DEF UpsertRule, DropRules, SignOut, SignIn, vars, worldVars, history
<1> QED BY <1>1, <1>2, UntouchedKeepsHistory

LEMMA InitActionInv == Init => ActionInv
<1> SUFFICES ASSUME Init PROVE ActionInv
  OBVIOUS
<1>1. IInv
  BY InitInStep
<1>2. ASSUME NEW d \in Devices
      PROVE  Openings(d) /\ OverrideRests(d) /\ AskedIsNoted(d)
  <2>1. /\ pauses[d].state = "none" /\ ~pauses[d].overridden /\ writes[d] = <<>>
        /\ router[d] = "free" /\ behind[d] = <<>> /\ roster[d] = "unasked"
        /\ asked[d].kind = "never"
    BY DEF Init, Blank, NeverAsked
  <2> QED BY <2>1 DEF Openings, RosterTrails, SeenBlockTrails, OpeningIsKnown, SeenApplied,
                      OverrideRests, AskedIsNoted
<1> QED BY <1>1, <1>2, RoutableAreDevices DEF ActionInv

\* What a step of the loop may do to one device's record and its history.
StepAllows(d) ==
    /\ pauses'[d].overridden /\ ~pauses[d].overridden => d \in opened
    /\ pauses[d].overridden /\ ~pauses'[d].overridden => ~DeviceHeld(holding', d)
    /\ d \in Routable /\ asked'[d].age = 0 /\ asked'[d].kind = asked[d].kind
          => asked[d].age \in {0, RetryWindow}

LEMMA NextKeepsHistory ==
    ASSUME ActionInv, [Next]_vars, Faults \subseteq BenignFaults
    PROVE  /\ ActionInv'
           /\ \A d \in Devices : StepAllows(d)
<1>1. IInv'
  BY NextInStep DEF ActionInv
<1>2. ASSUME NEW d \in Devices
      PROVE  /\ Openings(d)' /\ OverrideRests(d)'
             /\ d \in Routable => AskedIsNoted(d)'
             /\ StepAllows(d)
  <2>1. CASE RunMeters
    BY <2>1, RunMetersKeepsHistory DEF StepAllows
  <2>2. CASE \E e \in Devices : Land(e)
    <3>1. PICK e \in Devices : Land(e)
      BY <2>2
    <3>2. pauses' = pauses /\ asked' = asked
      BY <3>1 DEF Land
    <3> QED BY <3>1, <3>2, LandKeepsHistory DEF StepAllows
  <2>3. CASE \E e \in Devices : ReplyOk(e) \/ Dropped(e) \/ Refused(e) \/ ReplyLost(e)
    <3>1. PICK e \in Devices : ReplyOk(e) \/ Dropped(e) \/ Refused(e) \/ ReplyLost(e)
      BY <2>3
    <3> QED BY <3>1, AnswerKeepsHistory DEF StepAllows
  <2>4. CASE \E e \in Devices : \/ RosterCatchesUp(e) \/ ReadRoster(e)
                                \/ MissingFromRoster(e) \/ HandFree(e)
    <3>1. PICK e \in Devices : \/ RosterCatchesUp(e) \/ ReadRoster(e)
                               \/ MissingFromRoster(e) \/ HandFree(e)
      BY <2>4
    <3>2. pauses' = pauses /\ asked' = asked
      BY <3>1 DEF RosterCatchesUp, ReadRoster, MissingFromRoster, HandFree, history
    <3> QED BY <3>1, <3>2, WorldKeepsHistory DEF StepAllows
  <2>5. CASE Restart
    <3>1. pauses' = pauses /\ asked' = asked
      BY <2>5 DEF Restart, history
    <3> QED BY <2>5, <3>1, RestartKeepsHistory DEF StepAllows
  <2>6. CASE Tick
    BY <2>6, TickKeepsHistory DEF StepAllows
  <2>7. CASE \/ \E r \in Rules : UpsertRule(r)
             \/ \E gone \in SUBSET Rules : DropRules(gone)
             \/ SignOut \/ SignIn \/ UNCHANGED vars
    BY <2>7, OtherKeepsHistory DEF StepAllows
  <2>8. \/ \E r \in Rules : UpsertRule(r)
        \/ \E gone \in SUBSET Rules : DropRules(gone)
        \/ RunMeters \/ SignOut \/ SignIn \/ Restart \/ Tick \/ UNCHANGED vars
        \/ \E e \in Devices : \/ Land(e) \/ ReplyOk(e) \/ Dropped(e)
                               \/ Refused(e) \/ ReplyLost(e)
                               \/ RosterCatchesUp(e) \/ ReadRoster(e)
                               \/ MissingFromRoster(e) \/ HandFree(e)
    BY DEF Next
  <2> QED BY <2>1, <2>2, <2>3, <2>4, <2>5, <2>6, <2>7, <2>8
<1> QED BY <1>1, <1>2, RoutableAreDevices DEF ActionInv

\* Every behaviour keeps the roster, the openings and the questions asked in step
\* with the record, however the rules end and whatever benign fault is met.
THEOREM StaysInHistory ==
    ASSUME Faults \subseteq BenignFaults
    PROVE  Spec => []ActionInv
<1>1. Init => ActionInv
  BY InitActionInv
<1>2. ActionInv /\ [Next]_vars => ActionInv'
  BY NextKeepsHistory
<1> QED BY <1>1, <1>2, PTL DEF Spec

\* releasedByHand, for any devices and rules: a record turns to "released by
\* hand" only when something opened the device since its block, so a roster that
\* is late to show a block is never taken for a person.
THEOREM OverridesComeFromOpenings ==
    ASSUME Faults \subseteq BenignFaults
    PROVE  Spec => OverrideNeedsAnOpening
<1>1. ActionInv /\ [Next]_vars
        => [\A d \in Devices :
              pauses'[d].overridden /\ ~pauses[d].overridden => d \in opened]_vars
  BY NextKeepsHistory DEF StepAllows
<1> QED BY <1>1, StaysInHistory, PTL DEF Spec, OverrideNeedsAnOpening

\* dueNow and noteAttempt: within a retry window of a write the same write is
\* not asked for again, over restarts, sign-outs and answers that went missing.
THEOREM RetriesKeepTheirDistance ==
    ASSUME Faults \subseteq BenignFaults
    PROVE  Spec => RetrySpacing
<1>1. ActionInv /\ [Next]_vars
        => [\A d \in Routable :
              asked'[d].age = 0 /\ asked'[d].kind = asked[d].kind
                => asked[d].age \in {0, RetryWindow}]_vars
  BY NextKeepsHistory, RoutableAreDevices DEF StepAllows
<1> QED BY <1>1, StaysInHistory, PTL DEF Spec, RetrySpacing

\* clearSettledOverrides: an override ends only once no rule holds the device.
THEOREM OverridesStandWhileHeld ==
    ASSUME Faults \subseteq BenignFaults
    PROVE  Spec => HandReleaseStands
<1>1. ActionInv /\ [Next]_vars
        => [\A d \in Devices :
              pauses[d].overridden /\ ~pauses'[d].overridden => ~DeviceHeld(holding', d)]_vars
  BY NextKeepsHistory DEF StepAllows
<1> QED BY <1>1, StaysInHistory, PTL DEF Spec, HandReleaseStands

================================================================================
